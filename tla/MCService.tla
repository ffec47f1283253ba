------------------------------ MODULE MCService ------------------------------
(***************************************************************************)
(* The core service for model checking: two requests at a time, from two   *)
(* clients, about each kind of entity.                                     *)
(***************************************************************************)
EXTENDS Service

AllSubjects ==
    {"oir", "constraint", "scdSubscription", "availability", "isa", "ridSubscription", "heartbeat", "none"}

(* The slots are alike and a request that writes nothing does not affect   *)
(* another: reads need one slot only, and of the two RID interfaces, which *)
(* make the same store calls, each has a slot.                             *)
SlotServes(s, n) ==
    CASE n \in DOMAIN RID1!Operations -> s = "first"
      [] n \in DOMAIN RID2!Operations -> s = "second"
      [] OTHER                        -> s = "first" \/ Writes(n)

(* The refresh of keys interacts with requests only through the end of the *)
(* process, and the end of the process with writes on their way.           *)
WithKeys == {"heartbeat"}
WithSignals == {"heartbeat", "availability", "constraint"}
=============================================================================
