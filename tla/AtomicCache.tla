---------------------------- MODULE AtomicCache ----------------------------
(***************************************************************************)
(* What the conditioning cache promises: for every fingerprint one entry   *)
(* that is replaced, dropped and served as a whole.  A published entry is  *)
(* the newest encode anyone began to store, and a HIT is the entry that is *)
(* there at that very moment.  Files, locks, faults and restarts are the   *)
(* business of ClipCache, which implements this module.                    *)
(***************************************************************************)
EXTENDS Naturals

CONSTANTS Threads, Fps

VARIABLES entry,   \* the generation a lookup of f would serve, or Absent
          drawn,   \* the generations drawn for f so far
          served   \* what the current HIT of a thread returned, or Absent

Absent == 0

Init ==
    /\ entry = [f \in Fps |-> Absent]
    /\ drawn = [f \in Fps |-> 0]
    /\ served = [t \in Threads |-> Absent]

\* A save gives its encode the next generation.
Draw(f) ==
    /\ drawn' = [drawn EXCEPT ![f] = @ + 1]
    /\ UNCHANGED <<entry, served>>

\* The newest generation becomes the entry, at once.
Publish(f) ==
    /\ entry' = [entry EXCEPT ![f] = drawn[f]]
    /\ UNCHANGED <<drawn, served>>

\* The entry goes: a Delete, or a refresh that is about to replace it.
Drop(f) ==
    /\ entry' = [entry EXCEPT ![f] = Absent]
    /\ UNCHANGED <<drawn, served>>

Serve(t, f) ==
    /\ entry[f] # Absent
    /\ served' = [served EXCEPT ![t] = entry[f]]
    /\ UNCHANGED <<entry, drawn>>

Return(t) ==
    /\ served' = [served EXCEPT ![t] = Absent]
    /\ UNCHANGED <<entry, drawn>>

Restart ==
    /\ served' = [t \in Threads |-> Absent]
    /\ UNCHANGED <<entry, drawn>>

Next ==
    \/ \E f \in Fps : Draw(f) \/ Publish(f) \/ Drop(f)
    \/ \E t \in Threads : Return(t) \/ \E f \in Fps : Serve(t, f)
    \/ Restart

Spec == Init /\ [][Next]_<<entry, drawn, served>>
=============================================================================
