---------------------------- MODULE MCFileTransfer ----------------------------
(***************************************************************************)
(* Values for the constants of FileTransfer.                               *)
(***************************************************************************)
EXTENDS FileTransferService

EmptyAndThree == {<<>>, <<1, 2, 3>>}
TwoOfTwo == {<<1, 2>>, <<3, 4>>}
EmptyAndSeven == {<<>>, <<1, 2, 3, 4, 5, 6, 7>>}

Config(smax, window, maxRetries) ==
    [smax |-> smax, window |-> window, maxRetries |-> maxRetries]

WindowOneAndTwo == {Config(1, 1, 1), Config(1, 2, 1)}
PatientWindows == {Config(1, 2, 4), Config(1, 3, 4), Config(2, 2, 4)}
ChunkOfTwo == {Config(2, 1, 0)}
ChunkOneTwoInvalid == {Config(1, 2, 1), Config(2, 1, 0), Config(0, 1, 0)}
===============================================================================
