-------------------------- MODULE FileTransferService -------------------------
(***************************************************************************)
(* The file transfer implements TransferService: the call in progress is   *)
(* the active transfer, and the request being served is the open one as    *)
(* long as recv_file owns its write handle.                                *)
(***************************************************************************)
EXTENDS FileTransfer

Service == INSTANCE TransferService WITH
    Contents <- Files,
    Distinct <- FreshIds,
    active <- IF spc = "idle" THEN {} ELSE {[id |-> sid, file |-> sfile]},
    open <- IF store = "open" THEN {[id |-> req.id, file |-> req.hash]} ELSE {}

\* Every step of send_file and recv_file is a step of the service or hidden
\* from the applications: a handle is opened only for an offered file and is
\* consumed once, by a commit of the whole file or by an abort, and with new
\* ids a call that returns Ok for a file that is not empty was committed.
ImplementsService == Service!Spec
===============================================================================
