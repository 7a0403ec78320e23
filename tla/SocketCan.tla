------------------------------- MODULE SocketCan ------------------------------
(***************************************************************************)
(* The adapter over a raw SocketCAN socket: its mode, and the filters.     *)
(*                                                                         *)
(* Identifiers have few bits: STD_BITS, EXT_BITS, and above them the flag  *)
(* CAN_EFF_FLAG of an extended frame, as in the can_id of the kernel.      *)
(***************************************************************************)
EXTENDS SocketMode, Integers, Sequences, SequencesExt, Bitwise

CONSTANTS
    STD_BITS, EXT_BITS,
    FilterLists     \* arguments of set_filters: sequences of IdMaskFilter

VARIABLES
    filter,         \* the kernel's filters: [id, mask]
    asked           \* history: the last list that set_filters accepted

canVars == <<modeVars, filter, asked>>

ASSUME SocketCanAssumption ==
    /\ STD_BITS \in Nat /\ EXT_BITS \in Nat /\ STD_BITS <= EXT_BITS

CAN_EFF_FLAG == 2^EXT_BITS

AcceptAll == <<[id |-> 0, mask |-> 0]>>

CanInit ==
    /\ ModeInit
    /\ filter = AcceptAll
    /\ asked = <<>>

Mixed(f) == f.kind # f.maskKind

\* Mutant: the kind of the frame is not compared.
ToSocketcanFilterOfAnyKind(f) ==
    [id |-> f.raw, mask |-> f.mask % 2^EXT_BITS]

\* to_socketcan_filter of an identifier and a mask of one kind
ToSocketcanFilter(f) ==
    IF f.kind = "standard"
    THEN [id |-> f.raw, mask |-> f.mask | CAN_EFF_FLAG]
    ELSE [id |-> f.raw | CAN_EFF_FLAG, mask |-> (f.mask % 2^EXT_BITS) | CAN_EFF_FLAG]

\* FilterConfig::set_filters, when its system call does not fail.  One filter
\* that does not convert refuses the whole list.
SetFilters(list) ==
    /\ running = "idle"
    /\ \A f \in ToSet(list) : ~Mixed(f)
    /\ filter' = IF list = <<>> THEN AcceptAll
                 ELSE [i \in DOMAIN list |-> ToSocketcanFilter(list[i])]
    /\ asked' = list
    /\ UNCHANGED modeVars

CanNext ==
    \/ ModeNext /\ UNCHANGED <<filter, asked>>
    \/ \E list \in FilterLists : SetFilters(list)

-----------------------------------------------------------------------------
(* Properties *)

CanIds == [kind : {"standard"}, raw : 0..(2^STD_BITS - 1)] \cup
          [kind : {"extended"}, raw : 0..(2^EXT_BITS - 1)]

\* The kernel compares the can_id with its flags.
KernelPasses(id) ==
    LET can_id == IF id.kind = "standard" THEN id.raw ELSE id.raw + CAN_EFF_FLAG
    IN  \E k \in ToSet(filter) : can_id & k.mask = k.id & k.mask

\* What a list of filters means: the frame is of the kind of one of them and
\* has its identifier in the bits of the mask.
Means(list, id) ==
    list = <<>> \/ \E f \in ToSet(list) :
                      f.kind = id.kind /\ id.raw & f.mask = f.raw & f.mask

AsAsked == \A id \in CanIds : KernelPasses(id) <=> Means(asked, id)

\* Whenever the filters change, or set_filters accepts a list, the kernel
\* passes from then on the frames the list asks for and no others: also with
\* masks wider than an identifier, and after a list that was refused.
FiltersAsAsked == [][filter' # filter \/ asked' # asked => AsAsked']_canVars
===============================================================================
