-------------------------- MODULE MCDataRaceDetector --------------------------
(***************************************************************************)
(* Two threads, mostly after the initialisation of an atomic flag; another *)
(* address holds data.  The pairs of threads cover message passing with    *)
(* and without a branch, branches whose condition fails, nested branches   *)
(* that contradict one another, and guarded atomic stores.                 *)
(***************************************************************************)
EXTENDS DataRaceDetector

Data == 0
Flag == 1

WriteData == SymbolicProgram(none_store_label(Data, 1))
ReadData == SymbolicProgram(none_load_label(Data))
Set(b) == SymbolicProgram(release_store_label(Flag, b))
Get == SymbolicProgram(acquire_load_label(Flag))

Send == SymbolicSequential(WriteData, Set(1))
Receive == if_then(Flag, 1, ReadData)

Threads == {
    Send,
    Receive,
    SymbolicSequential(Get, ReadData),
    SymbolicSequential(if_then(Flag, 1, Set(2)), WriteData),
    if_then(Flag, 1, if_then(Flag, 2, ReadData)),
    SymbolicConcurrent(if_then(Flag, 0, Set(1)), ReadData),
    if_then(Flag, 2, SymbolicSequential(WriteData, Set(0))),
    SymbolicSequential(Receive, Set(0)) }

AllPrograms ==
    {SymbolicSequential(Set(0), SymbolicConcurrent(s, t)) : s, t \in Threads}
    \cup {SymbolicConcurrent(Send, t) : t \in Threads}
=============================================================================
