------------------------- MODULE LinearizableStore -------------------------
(***************************************************************************)
(* What the Raft-backed store promises its callers (Transact and the       *)
(* repository of Interact, src/pkg/raftstore/store.go): one sequence of    *)
(* writes, each answered on the state its place in the sequence gives, and *)
(* reads that return a state no older than the moment they were asked.  A  *)
(* caller whose context ends learns nothing: its write may still happen.   *)
(***************************************************************************)
EXTENDS Naturals, Sequences

CONSTANTS Writes, Fails, Reads, None

VARIABLES
  history,  \* the writes decided so far, in order
  states,   \* states[k + 1]: the state after the first k of them, as the writes whose effects it holds
  call      \* per request: its stage, the length of the history when a read was asked, its answer

storeVars == <<history, states, call>>

Unmade == [st |-> "new", from |-> 0, res |-> None]

\* the state a write leaves
After(w, state) == IF w \in Fails THEN state ELSE Append(state, w)

StoreInit ==
  /\ history = <<>> /\ states = << <<>> >>
  /\ call = [r \in Writes \cup Reads |-> Unmade]

Invoke(r) ==
  /\ call[r] = Unmade
  /\ call' = [call EXCEPT ![r] = [@ EXCEPT !.st = "open", !.from = IF r \in Reads THEN Len(history) ELSE 0]]
  /\ UNCHANGED <<history, states>>

\* a write takes its place in the sequence once, even after its caller has given up
Decide(w) ==
  /\ call[w].st \in {"open", "failed"}
  /\ \A i \in DOMAIN history : history[i] # w
  /\ history' = Append(history, w)
  /\ states' = Append(states, After(w, states[Len(states)]))
  /\ UNCHANGED call

AnswerWrite(w) ==
  /\ call[w].st = "open"
  /\ \E i \in DOMAIN history :
       /\ history[i] = w
       /\ call' = [call EXCEPT ![w] = [@ EXCEPT !.st = IF w \in Fails THEN "rejected" ELSE "done",
                                                !.res = states[i]]]
  /\ UNCHANGED <<history, states>>

AnswerRead(r) ==
  /\ call[r].st = "open"
  /\ \E k \in call[r].from..Len(history) :
       call' = [call EXCEPT ![r] = [@ EXCEPT !.st = "done", !.res = states[k + 1]]]
  /\ UNCHANGED <<history, states>>

\* the callers of R give up together when their server's process ends
GiveUp(R) ==
  /\ \A r \in R : call[r].st = "open"
  /\ call' = [r \in DOMAIN call |-> IF r \in R THEN [call[r] EXCEPT !.st = "failed"] ELSE call[r]]
  /\ UNCHANGED <<history, states>>

StoreNext ==
  \/ \E r \in Writes \cup Reads : Invoke(r)
  \/ \E w \in Writes : Decide(w) \/ AnswerWrite(w)
  \/ \E r \in Reads : AnswerRead(r)
  \/ \E R \in SUBSET (Writes \cup Reads) : GiveUp(R)

StoreSpec == StoreInit /\ [][StoreNext]_storeVars
=============================================================================
