---------------------------- MODULE ThreadStore ----------------------------
(***************************************************************************)
(* What permanent thread deletion promises: a thread and the attachment    *)
(* its messages refer to live together, a deletion removes threads in one  *)
(* step, and an attachment is removed only after its thread, for good.     *)
(***************************************************************************)
CONSTANT Thread

VARIABLES
    threads,     \* threads that exist
    attachments  \* threads whose attachment can still be read, now or after recovery

Init == threads = Thread /\ attachments = Thread

Delete(T) ==
    /\ threads' = threads \ T
    /\ UNCHANGED attachments

Remove(T) ==
    /\ T \cap threads = {}
    /\ attachments' = attachments \ T
    /\ UNCHANGED threads

Next == \E T \in SUBSET Thread : Delete(T) \/ Remove(T)

Spec == Init /\ [][Next]_<<threads, attachments>>
=============================================================================
