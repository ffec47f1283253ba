----------------------------- MODULE RaftStore -----------------------------
(***************************************************************************)
(* The Raft-backed store (src/pkg/raftstore): a Consensus instance and a   *)
(* processCommits goroutine per server, around etcd's raft library.        *)
(*                                                                         *)
(* The library is external: `log' is the sequence of entries the group has *)
(* committed, `pending' the proposals that have been handed to it.  What   *)
(* src/ writes is modelled step by step: the goroutine that consumes Ready *)
(* (cons, vol), the files it keeps (disk), the goroutine that applies      *)
(* commits to the memory store (exec, app), the goroutines that untrack    *)
(* proposals (results), and the requests that wait for all of them (req).  *)
(* The configuration changes that bootstrap the group are folded into the  *)
(* initial membership, Peers.                                              *)
(***************************************************************************)
EXTENDS Naturals, Sequences, FiniteSets

CONSTANTS
  NodeID,            \* node IDs, those of the Peers and those that may be added
  Peers,             \* the members bootstrapped from --raft_peers
  Server,            \* the members whose process is modelled
  Writes,            \* proposals that modify state, each proposed once
  Fails,             \* the writes whose Apply returns an error
  Reads,             \* read-only proposals
  Changes,           \* membership changes, each proposed at most once
  minVoters,
  SnapshotInterval,  \* --raft_snapshot_interval_entries
  SnapshotCatchUp,   \* --raft_snapshot_catchup_entries
  MaxEmpty,          \* bound: empty entries, one per election
  MaxRestarts,       \* bound: crashes followed by a restart, over all servers
  Empty, None

ASSUME ServersArePeers == Server \subseteq Peers /\ Peers \subseteq NodeID
ASSUME FailuresAreWrites == Fails \subseteq Writes
ASSUME ChangesAreChanges == Changes \subseteq [type : {"add", "remove"}, node : NodeID]
ASSUME NamesAreDistinct ==
  /\ Writes \cap Reads = {} /\ (Writes \cup Reads) \cap Changes = {}
  /\ Empty \notin Writes \cup Changes /\ None \notin Server
ASSUME CountsAreNaturals ==
  /\ {minVoters, SnapshotCatchUp, MaxEmpty, MaxRestarts} \subseteq Nat
  /\ SnapshotInterval \in Nat \ {0}

VARIABLES
  log,       \* the entries committed by the group (external)
  meaning,   \* history variable: what the entries of the log amount to
  pending,   \* the proposals handed to the library and not committed (external)
  run,       \* per server: "up", or "stopped" once its consumer has returned
  cons,      \* per server: where its consumer is in the handling of a Ready
  vol,       \* per server: applied index, snapshot and membership in memory
  disk,      \* per server: snapshot files and write-ahead log
  acked,     \* per server: the index up to which it has told its peers it has the log
  app,       \* per server: the memory store, as the writes whose effects it holds
  exec,      \* per server: the commit processCommits has received and not executed
  results,   \* per server: the results the untracking goroutines have not delivered
  req,       \* per request: its progress
  restarts

logVars == <<log, meaning>>
vars == <<logVars, pending, run, cons, vol, disk, acked, app, exec, results, req, restarts>>

Requests == Writes \cup Reads \cup Changes

-----------------------------------------------------------------------------
(* Membership *)

\* validateConfChange: what a change must satisfy, when it is proposed and again when it is applied
ValidConfChange(c, members, removed) ==
  /\ c.node \notin removed
  /\ c.type = "add" => c.node \notin members
  /\ c.type = "remove" => c.node \in members /\ Cardinality(members) - 1 >= minVoters

\* the effect of an accepted change on a set of voters
Reconfigure(c, voters) ==
  IF c.type = "add" THEN voters \cup {c.node} ELSE voters \ {c.node}

\* mutant: removeNode retires the ID and leaves the node among the members
WithChangeKeepingMember(c, g) ==
  IF c.type = "add" THEN [g EXCEPT !.members = @ \cup {c.node}]
  ELSE [g EXCEPT !.removed = @ \cup {c.node}]

\* addNode and removeNode, on the membership g
WithChange(c, g) ==
  [members |-> Reconfigure(c, g.members),
   removed |-> IF c.type = "remove" THEN g.removed \cup {c.node} ELSE g.removed]

Bootstrapped == [members |-> Peers, removed |-> {}]

-----------------------------------------------------------------------------
(* Storage *)

NoSnapshot == [index |-> 0, app |-> <<>>, group |-> Bootstrapped, conf |-> Peers]

\* mutant: the record of a snapshot precedes its file
RecordWithoutFile(d, s) == [d EXCEPT !.records = @ \cup {s.index}]

\* SaveSnap: the file is named after the index, a second one replaces the first
SaveSnap(d, s) ==
  [d EXCEPT !.files = [i \in DOMAIN d.files \cup {s.index} |-> IF i = s.index THEN s ELSE d.files[i]]]

\* wal.SaveSnapshot: the record without which the file is not used
SaveRecord(d, i) == [d EXCEPT !.records = @ \cup {i}]

\* wal.Save: the hard state, with the commit index, and the new entries
SaveEntries(d, from, to) == [d EXCEPT !.commit = IF to > @ THEN to ELSE @, !.entries = @ \cup from..to]

\* loadSnapshot: the newest snapshot with both a file and a record not beyond the commit index
LoadSnapshot(d) ==
  LET usable == {i \in DOMAIN d.files \cap d.records : i <= d.commit}
  IN IF usable = {} THEN NoSnapshot
     ELSE d.files[CHOOSE i \in usable : \A j \in usable : j <= i]

\* the first index the log in memory still holds once it is compacted at applied; entry 1 of the
\* code, compacted when there are fewer than SnapshotCatchUp, is one of the bootstrap changes
CompactedAt(applied, first) ==
  LET at == IF applied > SnapshotCatchUp THEN applied - SnapshotCatchUp ELSE 0
  IN IF at < first THEN first ELSE at + 1

\* mutant: the applied index does not follow the snapshot
RecoveredFromZero(s) ==
  [applied |-> 0, snap |-> s, first |-> s.index + 1, group |-> s.group, conf |-> s.conf]

\* Consensus fields after newStorage and NewConsensus, from snapshot s
Recovered(s) ==
  [applied |-> s.index, snap |-> s, first |-> s.index + 1, group |-> s.group, conf |-> s.conf]

-----------------------------------------------------------------------------
(* Reference definitions: what the log amounts to, entry by entry.  They are *)
(* kept in a history variable that each commit extends, and no server reads. *)

\* no entry: no write, the state before the first, and the bootstrapped members
Meaningless == [writes |-> <<>>, states |-> << <<>> >>, at |-> [i \in {0} |-> [count |-> 0, group |-> Bootstrapped]]]

Accept(g, e) ==
  IF e \in Changes /\ ValidConfChange(e, g.members, g.removed) THEN WithChange(e, g) ELSE g

\* the memory store after entry e, a write that fails leaving it as it was
Effect(e, state) == IF e \in Writes \ Fails THEN Append(state, e) ELSE state

\* what k entries amount to, t, once e follows: the writes in order, the state before the first and
\* after each, and after i entries how many writes there are and the membership
Extended(t, k, e) ==
  LET last == t.at[k] IN
  [writes |-> IF e \in Writes THEN Append(t.writes, e) ELSE t.writes,
   states |-> IF e \in Writes THEN Append(t.states, Effect(e, t.states[last.count + 1])) ELSE t.states,
   at |-> [i \in 0..k + 1 |-> IF i <= k THEN t.at[i]
                              ELSE [count |-> IF e \in Writes THEN last.count + 1 ELSE last.count,
                                    group |-> Accept(last.group, e)]]]

\* the memory store and the membership after the first i entries
StateAfter(t, i) == t.states[t.at[i].count + 1]
GroupAfter(t, i) == t.at[i].group
Effects(i) == StateAfter(meaning, i)
GroupAt(i) == GroupAfter(meaning, i)

-----------------------------------------------------------------------------
(* Initial state *)

Idle == [kind |-> "idle"]
Waiting == [pc |-> "idle", snap |-> NoSnapshot, next |-> 1, upto |-> 0, reads |-> {}]

Init ==
  /\ log = <<>> /\ meaning = Meaningless /\ pending = {} /\ restarts = 0
  /\ run = [n \in Server |-> "up"]
  /\ cons = [n \in Server |-> Waiting]
  /\ vol = [n \in Server |-> Recovered(NoSnapshot)]
  /\ disk = [n \in Server |-> [files |-> <<>>, records |-> {}, entries |-> {}, commit |-> 0]]
  /\ acked = [n \in Server |-> 0]
  /\ app = [n \in Server |-> <<>>]
  /\ exec = [n \in Server |-> Idle]
  /\ results = [n \in Server |-> {}]
  /\ req = [r \in Requests |-> [st |-> "new", at |-> None, floor |-> 0, index |-> 0, res |-> None]]

-----------------------------------------------------------------------------
(* Requests *)

\* mutant: not validated
ValidatesAll(n, c) == TRUE

\* server n finds the change valid for its members
Validates(n, c) == ValidConfChange(c, vol[n].group.members, vol[n].group.removed)

\* HandleWriteRequest up to its wait: the proposal is tracked, then proposed
ProposeWrite(w, n) ==
  /\ run[n] = "up" /\ req[w].st = "new"
  /\ req' = [req EXCEPT ![w].st = "wait", ![w].at = n]
  /\ pending' = pending \cup {w}
  /\ UNCHANGED <<logVars, run, cons, vol, disk, acked, app, exec, results, restarts>>

\* proposeConfChange up to its wait: the change is validated to fail fast, tracked, then proposed
ProposeChange(c, n) ==
  /\ run[n] = "up" /\ req[c].st = "new"
  /\ Validates(n, c)
  /\ req' = [req EXCEPT ![c].st = "wait", ![c].at = n]
  /\ pending' = pending \cup {c}
  /\ UNCHANGED <<logVars, run, cons, vol, disk, acked, app, exec, results, restarts>>

\* HandleReadRequest up to its first wait; the floor is what has been committed by then
AskRead(r, n) ==
  /\ run[n] = "up" /\ req[r].st = "new"
  /\ req' = [req EXCEPT ![r].st = "asked", ![r].at = n, ![r].floor = Len(log)]
  /\ UNCHANGED <<logVars, pending, run, cons, vol, disk, acked, app, exec, results, restarts>>

\* HandleReadRequest, released by the read tracker, hands the read to processCommits
SubmitRead(r) ==
  LET n == req[r].at IN
  /\ req[r].st = "ready" /\ exec[n] = Idle
  /\ req' = [req EXCEPT ![r].st = "reading"]
  /\ exec' = [exec EXCEPT ![n] = [kind |-> "read", id |-> r]]
  /\ UNCHANGED <<logVars, pending, run, cons, vol, disk, acked, app, results, restarts>>

\* any of the waits of a request ends with its context: the caller gets an error and the
\* request is no longer tracked, while its proposal or its read may still be executed
Cancel(r) ==
  /\ req[r].st \notin {"new", "done", "rejected", "failed"}
  /\ req' = [req EXCEPT ![r].st = "failed"]
  /\ UNCHANGED <<logVars, pending, run, cons, vol, disk, acked, app, exec, results, restarts>>

-----------------------------------------------------------------------------
(* The raft library, external *)

\* the group commits a proposal, or the empty entry of a new leader
Commit(e) ==
  /\ \/ e \in pending
     \/ /\ e = Empty
        /\ Cardinality({i \in DOMAIN log : log[i] = Empty}) < MaxEmpty
  /\ log' = Append(log, e)
  /\ meaning' = Extended(meaning, Len(log), e)
  /\ pending' = pending \ {e}
  /\ UNCHANGED <<run, cons, vol, disk, acked, app, exec, results, req, restarts>>

\* the leader, confirmed by a quorum, answers a ReadIndex request with its commit index
AnswerRead(r) ==
  /\ req[r].st = "asked"
  /\ req' = [req EXCEPT ![r].st = "answered", ![r].index = Len(log)]
  /\ UNCHANGED <<logVars, pending, run, cons, vol, disk, acked, app, exec, results, restarts>>

-----------------------------------------------------------------------------
(* The consumer of Ready *)

AnsweredAt(n) == {r \in Reads : req[r].st = "answered" /\ req[r].at = n}

\* a Ready with the committed entries up to k and the answers to reads is saved, then messages are sent
ReceiveEntries(n, k) ==
  LET first == vol[n].applied + 1 IN
  /\ run[n] = "up" /\ cons[n].pc = "idle"
  /\ k >= first \/ (k = vol[n].applied /\ AnsweredAt(n) # {})
  /\ disk' = [disk EXCEPT ![n] = SaveEntries(@, first, k)]
  /\ acked' = [acked EXCEPT ![n] = SaveEntries(disk[n], first, k).commit]
  /\ cons' = [cons EXCEPT ![n] = [@ EXCEPT !.pc = "publish", !.next = first, !.upto = k,
                                          !.reads = AnsweredAt(n)]]
  /\ req' = [r \in Requests |-> IF r \in AnsweredAt(n) THEN [req[r] EXCEPT !.st = "carried"] ELSE req[r]]
  /\ UNCHANGED <<logVars, pending, run, vol, app, exec, results, restarts>>

\* a Ready with a snapshot of m, whose log no longer holds what n misses; updateSnapshotConfState
\* has put m's current voters in it, and the library refuses one that does not list n
ReceiveSnapshot(n, m) ==
  LET s == [vol[m].snap EXCEPT !.conf = vol[m].conf] IN
  /\ run[n] = "up" /\ cons[n].pc = "idle" /\ run[m] = "up" /\ cons[m].pc = "idle"
  /\ disk[n].commit + 1 < vol[m].first /\ disk[n].commit < s.index /\ n \in s.conf
  /\ disk' = [disk EXCEPT ![n] = SaveSnap(@, s)]
  /\ cons' = [cons EXCEPT ![n] = [@ EXCEPT !.pc = "record", !.snap = s]]
  /\ UNCHANGED <<logVars, pending, run, vol, acked, app, exec, results, req, restarts>>

\* mutant: a received snapshot is not recorded in the write-ahead log
SkipRecord(n) ==
  /\ run[n] = "up" /\ cons[n].pc = "record"
  /\ cons' = [cons EXCEPT ![n].pc = "save"]
  /\ UNCHANGED <<logVars, pending, run, vol, disk, acked, app, exec, results, req, restarts>>

RecordSnapshot(n) ==
  /\ run[n] = "up" /\ cons[n].pc = "record"
  /\ disk' = [disk EXCEPT ![n] = SaveRecord(@, cons[n].snap.index)]
  /\ cons' = [cons EXCEPT ![n].pc = "save"]
  /\ UNCHANGED <<logVars, pending, run, vol, acked, app, exec, results, req, restarts>>

\* the hard state that comes with a snapshot is saved after it
SaveState(n) ==
  LET i == cons[n].snap.index IN
  /\ run[n] = "up" /\ cons[n].pc = "save"
  /\ disk' = [disk EXCEPT ![n] = SaveEntries(@, i + 1, i)]
  /\ cons' = [cons EXCEPT ![n].pc = "handoff"]
  /\ UNCHANGED <<logVars, pending, run, vol, acked, app, exec, results, req, restarts>>

\* the membership is restored and the data handed to processCommits, which restores it later
HandOffSnapshot(n) ==
  LET s == cons[n].snap IN
  /\ run[n] = "up" /\ cons[n].pc = "handoff" /\ exec[n] = Idle
  /\ exec' = [exec EXCEPT ![n] = [kind |-> "restore", app |-> s.app]]
  /\ vol' = [vol EXCEPT ![n] = Recovered(s)]
  /\ acked' = [acked EXCEPT ![n] = s.index]
  /\ cons' = [cons EXCEPT ![n] = [Waiting EXCEPT !.pc = "reads"]]
  /\ UNCHANGED <<logVars, pending, run, disk, app, results, req, restarts>>

\* publishEntries, a normal entry: submitNormalEntryToStorage hands it to processCommits
PublishWrite(n) ==
  LET w == log[cons[n].next] IN
  /\ run[n] = "up" /\ cons[n].pc = "publish" /\ cons[n].next <= cons[n].upto
  /\ w \in Writes /\ exec[n] = Idle
  /\ exec' = [exec EXCEPT ![n] = [kind |-> "entry", id |-> w]]
  /\ cons' = [cons EXCEPT ![n].next = @ + 1]
  /\ UNCHANGED <<logVars, pending, run, vol, disk, acked, app, results, req, restarts>>

\* publishEntries, an empty entry: nothing to do
PublishEmpty(n) ==
  /\ run[n] = "up" /\ cons[n].pc = "publish" /\ cons[n].next <= cons[n].upto
  /\ log[cons[n].next] = Empty
  /\ cons' = [cons EXCEPT ![n].next = @ + 1]
  /\ UNCHANGED <<logVars, pending, run, vol, disk, acked, app, exec, results, req, restarts>>

\* mutant: a request that has given up is still tracked
EverTrackedAt(x, n) == req[x].st # "new" /\ req[x].at = n

\* the request x waits on server n for its result
TrackedAt(x, n) == req[x].st = "wait" /\ req[x].at = n

\* applyConfigChangeV2: an invalid change is a no-op, a server that applies its own removal stops
PublishChange(n) ==
  LET c == log[cons[n].next]
      valid == Validates(n, c)
  IN
  /\ run[n] = "up" /\ cons[n].pc = "publish" /\ cons[n].next <= cons[n].upto
  /\ c \in Changes
  /\ vol' = IF ~valid THEN vol
            ELSE [vol EXCEPT ![n].group = WithChange(c, @), ![n].conf = Reconfigure(c, @)]
  /\ req' = IF ~TrackedAt(c, n) THEN req
            ELSE [req EXCEPT ![c].st = IF valid THEN "done" ELSE "rejected"]
  /\ run' = IF valid /\ c = [type |-> "remove", node |-> n]
            THEN [run EXCEPT ![n] = "stopped"] ELSE run
  /\ cons' = [cons EXCEPT ![n].next = @ + 1]
  /\ UNCHANGED <<logVars, pending, disk, acked, app, exec, results, restarts>>

\* wg.Wait: every entry of the batch has been executed and its proposal untracked
BatchApplied(n) == exec[n].kind # "entry" /\ results[n] = {}

SnapshotDue(n) == cons[n].upto - vol[n].snap.index >= SnapshotInterval

\* mutant: the removed IDs are left out
SnapshotWithoutRemovedIDs(n, k) ==
  [index |-> k, app |-> app[n], group |-> [vol[n].group EXCEPT !.removed = {}], conf |-> vol[n].conf]

\* encodeSnapshot: the memory store and the membership as they are now, saved under index k
EncodeSnapshot(n, k) ==
  [index |-> k, app |-> app[n], group |-> vol[n].group, conf |-> vol[n].conf]

\* the end of publishEntries; a due snapshot is encoded from the memory store and saved
FinishBatch(n) ==
  LET k == cons[n].upto
      s == EncodeSnapshot(n, k)
  IN
  /\ run[n] = "up" /\ cons[n].pc = "publish" /\ cons[n].next > k /\ BatchApplied(n)
  /\ IF k > vol[n].applied /\ SnapshotDue(n)
     THEN /\ vol' = [vol EXCEPT ![n].applied = k, ![n].snap = s]
          /\ disk' = [disk EXCEPT ![n] = SaveSnap(@, s)]
          /\ cons' = [cons EXCEPT ![n].pc = "compact"]
     ELSE /\ vol' = [vol EXCEPT ![n].applied = k]
          /\ cons' = [cons EXCEPT ![n].pc = "reads"]
          /\ UNCHANGED disk
  /\ UNCHANGED <<logVars, pending, run, acked, app, exec, results, req, restarts>>

\* the rest of triggerSnapshot: the record of the snapshot, then the compaction
CompactLog(n) ==
  /\ run[n] = "up" /\ cons[n].pc = "compact"
  /\ disk' = [disk EXCEPT ![n] = SaveRecord(@, vol[n].snap.index)]
  /\ vol' = [vol EXCEPT ![n].first = CompactedAt(vol[n].applied, @)]
  /\ cons' = [cons EXCEPT ![n].pc = "reads"]
  /\ UNCHANGED <<logVars, pending, run, acked, app, exec, results, req, restarts>>

\* mutants: a read is released before its index is applied; an earlier read is never released
ReleasedAtOnce(r, n, i) ==
  IF req[r].at = n /\ req[r].st = "carried" THEN [req[r] EXCEPT !.st = "ready"] ELSE req[r]
ReleasedBySetIndex(r, n, i) ==
  IF req[r].at = n /\ req[r].st = "carried" /\ r \in cons[n].reads
  THEN [req[r] EXCEPT !.st = IF req[r].index <= i THEN "ready" ELSE "indexed"]
  ELSE req[r]

\* what setIndex and releaseUpTo make of request r once n has applied up to i
Released(r, n, i) ==
  IF req[r].at = n /\ (req[r].st = "indexed" \/ (req[r].st = "carried" /\ r \in cons[n].reads))
  THEN [req[r] EXCEPT !.st = IF req[r].index <= i THEN "ready" ELSE "indexed"]
  ELSE req[r]

\* setIndex for the read states of this Ready, releaseUpTo for the earlier ones, then Advance
ReleaseReads(n) ==
  /\ run[n] = "up" /\ cons[n].pc = "reads"
  /\ req' = [r \in Requests |-> Released(r, n, vol[n].applied)]
  /\ cons' = [cons EXCEPT ![n] = Waiting]
  /\ UNCHANGED <<logVars, pending, run, vol, disk, acked, app, exec, results, restarts>>

\* mutant: errors of the transport are ignored
NeverRefused(n, m) == FALSE /\ UNCHANGED vars

\* the transport learns from a peer that n was removed from the group, and the consumer returns
RefusedByPeer(n, m) ==
  /\ n # m /\ run[n] = "up" /\ run[m] = "up" /\ cons[n].pc = "idle" /\ n \in vol[m].group.removed
  /\ run' = [run EXCEPT ![n] = "stopped"]
  /\ UNCHANGED <<logVars, pending, cons, vol, disk, acked, app, exec, results, req, restarts>>

-----------------------------------------------------------------------------
(* processCommits and the untracking goroutines *)

\* a restored snapshot replaces the memory store
ExecuteRestore(n) ==
  /\ exec[n].kind = "restore"
  /\ app' = [app EXCEPT ![n] = exec[n].app]
  /\ exec' = [exec EXCEPT ![n] = Idle]
  /\ UNCHANGED <<logVars, pending, run, cons, vol, disk, acked, results, req, restarts>>

\* Checkpoint, Apply and, when Apply fails, Restore
AfterApply(w, state) == IF w \in Fails THEN state ELSE Append(state, w)

\* mutant: a failed Apply sends no result
ExecuteWriteSilently(n) ==
  LET w == exec[n].id IN
  /\ exec[n].kind = "entry"
  /\ app' = [app EXCEPT ![n] = AfterApply(w, @)]
  /\ results' = IF w \in Fails THEN results
                ELSE [results EXCEPT ![n] = @ \cup {[id |-> w, res |-> app[n]]}]
  /\ exec' = [exec EXCEPT ![n] = Idle]
  /\ UNCHANGED <<logVars, pending, run, cons, vol, disk, acked, req, restarts>>

ExecuteWrite(n) ==
  LET w == exec[n].id IN
  /\ exec[n].kind = "entry"
  /\ app' = [app EXCEPT ![n] = AfterApply(w, @)]
  /\ results' = [results EXCEPT ![n] = @ \cup {[id |-> w, res |-> app[n]]}]
  /\ exec' = [exec EXCEPT ![n] = Idle]
  /\ UNCHANGED <<logVars, pending, run, cons, vol, disk, acked, req, restarts>>

ExecuteRead(n) ==
  LET r == exec[n].id IN
  /\ exec[n].kind = "read"
  /\ req' = IF req[r].st # "reading" THEN req
            ELSE [req EXCEPT ![r].st = "done", ![r].res = app[n]]
  /\ exec' = [exec EXCEPT ![n] = Idle]
  /\ UNCHANGED <<logVars, pending, run, cons, vol, disk, acked, app, results, restarts>>

\* mutant: the goroutine of a proposal nobody waits for never ends
UntrackAwaited(n) == \E x \in results[n] :
  /\ TrackedAt(x.id, n)
  /\ results' = [results EXCEPT ![n] = @ \ {x}]
  /\ req' = [req EXCEPT ![x.id].st = "done", ![x.id].res = x.res]
  /\ UNCHANGED <<logVars, pending, run, cons, vol, disk, acked, app, exec, restarts>>

\* untrack: the result reaches the request if it still waits on this server
Untrack(n) == \E x \in results[n] :
  /\ results' = [results EXCEPT ![n] = @ \ {x}]
  /\ req' = IF ~TrackedAt(x.id, n) THEN req
            ELSE [req EXCEPT ![x.id].st = IF x.id \in Fails THEN "rejected" ELSE "done",
                             ![x.id].res = x.res]
  /\ UNCHANGED <<logVars, pending, run, cons, vol, disk, acked, app, exec, restarts>>

-----------------------------------------------------------------------------
\* The process ends, at any point, and starts again: NewConsensus hands the loaded snapshot over.
\* Requests at n fail.
Restart(n) ==
  LET s == LoadSnapshot(disk[n]) IN
  /\ restarts < MaxRestarts /\ restarts' = restarts + 1
  /\ run' = [run EXCEPT ![n] = "up"]
  /\ cons' = [cons EXCEPT ![n] = Waiting]
  /\ vol' = [vol EXCEPT ![n] = Recovered(s)]
  /\ app' = [app EXCEPT ![n] = <<>>]
  /\ exec' = [exec EXCEPT ![n] = IF s.index = 0 THEN Idle ELSE [kind |-> "restore", app |-> s.app]]
  /\ results' = [results EXCEPT ![n] = {}]
  /\ req' = [r \in Requests |->
               IF req[r].at = n /\ req[r].st \notin {"done", "rejected"}
               THEN [req[r] EXCEPT !.st = "failed"] ELSE req[r]]
  /\ UNCHANGED <<logVars, pending, disk, acked>>

-----------------------------------------------------------------------------
Receive(n) ==
  \/ \E k \in vol[n].applied..Len(log) : ReceiveEntries(n, k)
  \/ \E m \in Server : ReceiveSnapshot(n, m)

Consume(n) ==
  \/ RecordSnapshot(n) \/ SaveState(n) \/ HandOffSnapshot(n)
  \/ PublishWrite(n) \/ PublishEmpty(n) \/ PublishChange(n)
  \/ FinishBatch(n) \/ CompactLog(n) \/ ReleaseReads(n)

Execute(n) == ExecuteRestore(n) \/ ExecuteWrite(n) \/ ExecuteRead(n)

Library ==
  \/ \E e \in pending \cup {Empty} : Commit(e)
  \/ \E r \in Reads : AnswerRead(r)

Client ==
  \/ \E n \in Server : \/ \E w \in Writes : ProposeWrite(w, n)
                       \/ \E c \in Changes : ProposeChange(c, n)
                       \/ \E r \in Reads : AskRead(r, n)
  \/ \E r \in Reads : SubmitRead(r)
  \/ \E r \in Requests : Cancel(r)

Next ==
  \/ Client \/ Library
  \/ \E n \in Server : \/ Receive(n) \/ Consume(n) \/ Execute(n) \/ Untrack(n) \/ Restart(n)
                       \/ \E m \in Server : RefusedByPeer(n, m)

Spec == Init /\ [][Next]_vars

\* The goroutines of a running server are scheduled, the library brings the log to a member as long
\* as no server has applied its removal, and a member that hears from no leader sends its peers
\* messages they refuse; nothing obliges the library to commit or to answer a read, a context to end
\* or a process to crash.
Fairness ==
  /\ \A n \in Server :
       /\ WF_vars((\A m \in Server : n \in vol[m].conf) /\ Receive(n))
       /\ WF_vars(Consume(n)) /\ WF_vars(Execute(n)) /\ WF_vars(Untrack(n))
  /\ \A n, m \in Server : WF_vars(RefusedByPeer(n, m))
  /\ \A r \in Reads : WF_vars(SubmitRead(r))

FairSpec == Spec /\ Fairness

-----------------------------------------------------------------------------
(* Properties *)

Group == [members : SUBSET NodeID, removed : SUBSET NodeID]
Snapshot == [index : Nat, app : Seq(Writes), group : Group, conf : SUBSET NodeID]
Stages == {"new", "wait", "asked", "answered", "carried", "indexed", "ready", "reading",
           "done", "rejected", "failed"}

\* Every variable has its type: the fields of Consensus, storage and the trackers hold what the
\* code's declarations allow.
TypeOK ==
  /\ log \in Seq(Writes \cup Changes \cup {Empty}) /\ pending \subseteq Writes \cup Changes
  /\ run \in [Server -> {"up", "stopped"}]
  /\ \A n \in Server :
       /\ cons[n].pc \in {"idle", "record", "save", "handoff", "publish", "compact", "reads"}
       /\ cons[n].snap \in Snapshot /\ cons[n].upto <= Len(log) /\ cons[n].reads \subseteq Reads
       /\ vol[n] \in [applied : 0..Len(log), snap : Snapshot, first : Nat, group : Group,
                      conf : SUBSET NodeID]
       /\ disk[n].commit \in 0..Len(log) /\ disk[n].entries \subseteq 1..Len(log)
       /\ disk[n].records \subseteq DOMAIN disk[n].files
       /\ app[n] \in Seq(Writes)
       /\ \A x \in results[n] : x.id \in Writes
  /\ \A r \in Requests : req[r].st \in Stages /\ req[r].at \in Server \cup {None}

\* Between two Readys a replica is what the committed log says: its memory store holds the effects
\* of exactly the writes up to its applied index, rolled back writes excluded, and its membership
\* the accepted changes, whether it got there by entries, a received snapshot or a restart.
ReplicaMatchesLog ==
  \A n \in Server : cons[n].pc = "idle" /\ exec[n].kind # "restore" =>
    /\ app[n] = Effects(vol[n].applied)
    /\ vol[n].group = GroupAt(vol[n].applied)

\* A snapshot file holds the state and the membership at its index: publishEntries waits for the
\* batch before it encodes one.
SnapshotMatchesLog ==
  \A n \in Server : \A i \in DOMAIN disk[n].files :
    disk[n].files[i].app = Effects(i) /\ disk[n].files[i].group = GroupAt(i)

\* Whenever the process ends, what it has told its peers it holds can be rebuilt: the snapshot that
\* loadSnapshot picks and the entries of the write-ahead log leave no gap up to the commit index.
RecoveryHasNoGap ==
  \A n \in Server :
    /\ acked[n] <= disk[n].commit
    /\ LoadSnapshot(disk[n]).index + 1 .. disk[n].commit \subseteq disk[n].entries

\* HandleReadRequest is linearizable: a read returns a state no older than what was committed when
\* the request arrived.
LinearizableReads ==
  \A r \in Reads : req[r].st = "done" =>
    \E k \in req[r].floor..Len(log) : req[r].res = Effects(k)

\* a stage as the caller of the request sees it
Shown(st) == IF st \in {"new", "done", "rejected", "failed"} THEN st ELSE "open"

\* the requests as their callers see them; a read is asked after so many writes
Calls ==
  [r \in Writes \cup Reads |->
     [st |-> Shown(req[r].st), from |-> meaning.at[req[r].floor].count, res |-> req[r].res]]

Abstract == INSTANCE LinearizableStore WITH
  history <- meaning.writes,
  states <- meaning.states,
  call <- Calls

\* The group of servers implements one linearizable store: every step of the consumers, of
\* processCommits, of a crash or of the library is a step of LinearizableStore or changes nothing
\* a caller can see.
ImplementsStore == Abstract!StoreSpec

\* The voters given to the library may be ahead of the members after a received snapshot
\* (updateSnapshotConfState); once the log is applied they are the members, and an ID that a
\* server knows as removed is never one of its voters.
VotersFollowMembers ==
  \A n \in Server : cons[n].pc = "idle" =>
    /\ vol[n].applied = Len(log) => vol[n].conf = vol[n].group.members
    /\ vol[n].conf \cap vol[n].group.removed = {}

\* Every entry the group commits is applied by every server that does not stop: the consumer, the
\* commit channel and the wait group never block one another for ever.
CommittedIsApplied ==
  \A n \in Server, i \in 1..Cardinality(Requests) + MaxEmpty :
    Len(log) >= i ~> vol[n].applied >= i \/ run[n] = "stopped"

\* the server a request waits on has stopped
Abandoned(x) == \E n \in Server : req[x].at = n /\ run[n] = "stopped"

\* A read whose index is known is served without its context having to end, unless its server
\* stops: whichever of its read state and the entries it waits for comes first, it is released.
ReadsAreAnswered ==
  \A r \in Reads : req[r].st = "answered" ~> req[r].st \in {"done", "failed"} \/ Abandoned(r)

\* A write or change that is committed is answered without its context having to end, unless its
\* server stops or is given it inside a snapshot: HandleWriteRequest blocks until the proposal is
\* committed and applied.
WritesAreAnswered ==
  \A x \in Writes \cup Changes, n \in Server, i \in 1..Cardinality(Requests) + MaxEmpty :
    /\ req[x].st = "wait" /\ req[x].at = n
    /\ i \in DOMAIN log /\ log[i] = x /\ vol[n].applied < i
    ~>
      \/ req[x].st \in {"done", "rejected", "failed"} \/ Abandoned(x)
      \/ cons[n].pc = "handoff" /\ cons[n].snap.index >= i

\* A server that was removed from the group stops, even if it never receives the entry that
\* removes it: the peers that have applied it refuse its messages.
RemovedServerStops ==
  \A n, m \in Server : n \in vol[m].group.removed ~> run[n] = "stopped"
=============================================================================
