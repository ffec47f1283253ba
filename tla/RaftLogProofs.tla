--------------------------- MODULE RaftLogProofs ----------------------------
(***************************************************************************)
(* Proofs about the servers of RaftStore, for any number of servers,       *)
(* entries, requests, snapshots and crashes: recovery leaves no gap, and   *)
(* the servers are replicas of one log.                                    *)
(***************************************************************************)
EXTENDS RaftStore, TLAPS

-----------------------------------------------------------------------------
\* Recovery: whenever the process ends, the newest usable snapshot and the write-ahead log hold
\* everything the server has told its peers it holds.

IsSnapshot(s) ==
  /\ s.index \in Nat
  /\ s = [index |-> s.index, app |-> s.app, group |-> s.group, conf |-> s.conf]

\* the snapshots loadSnapshot may pick from were the commit index c
Usable(d, c) == {i \in DOMAIN d.files \cap d.records : i <= c}

HasLargest(S) == \E m \in S : \A j \in S : j <= m

\* from some usable snapshot, or from the start, the write-ahead log holds every committed entry
Rebuilds(d) == \E b \in Usable(d, d.commit) \cup {0} : b + 1 .. d.commit \subseteq d.entries

DiskInv(d) ==
  /\ d = [files |-> d.files, records |-> d.records, entries |-> d.entries, commit |-> d.commit]
  /\ d.commit \in Nat /\ d.records \subseteq Nat /\ DOMAIN d.files \subseteq Nat
  /\ \A i \in DOMAIN d.files : IsSnapshot(d.files[i]) /\ d.files[i].index = i
  /\ \A c \in Nat : Usable(d, c) = {} \/ HasLargest(Usable(d, c))
  /\ Rebuilds(d)

IsCons(c) == c = [pc |-> c.pc, snap |-> c.snap, next |-> c.next, upto |-> c.upto, reads |-> c.reads]

IsVol(v) ==
  v = [applied |-> v.applied, snap |-> v.snap, first |-> v.first, group |-> v.group, conf |-> v.conf]

VolInv(v, d) ==
  /\ IsVol(v)
  /\ v.applied \in Nat /\ v.applied <= d.commit
  /\ IsSnapshot(v.snap)

\* how much of a received snapshot is on disk at each step of its handling
ConsInv(c, d) ==
  /\ IsCons(c)
  /\ c.pc = "publish" => c.upto \in Nat /\ c.upto <= d.commit
  /\ c.pc \in {"record", "save", "handoff"} => IsSnapshot(c.snap) /\ c.snap.index \in DOMAIN d.files
  /\ c.pc \in {"save", "handoff"} => c.snap.index \in d.records
  /\ c.pc = "handoff" => c.snap.index <= d.commit

ServerInv(v, c, d, a) ==
  /\ DiskInv(d) /\ VolInv(v, d) /\ ConsInv(c, d)
  /\ a \in Nat /\ a <= d.commit

(* The inductive invariant. *)
RInv ==
  /\ log \in Seq(Writes \cup Changes \cup {Empty}) /\ pending \subseteq Writes \cup Changes
  /\ DOMAIN vol = Server /\ DOMAIN cons = Server /\ DOMAIN disk = Server /\ DOMAIN acked = Server
  /\ \A n \in Server : ServerInv(vol[n], cons[n], disk[n], acked[n])

-----------------------------------------------------------------------------
\* What is kept on disk.

(* One more snapshot leaves a largest one. *)
LEMMA LargestWithOneMore ==
  ASSUME NEW S, NEW T, NEW i \in Nat, S \subseteq Nat,
         T = S \/ T = S \cup {i}, S = {} \/ HasLargest(S)
  PROVE  T = {} \/ HasLargest(T)
<1>1. CASE T = S
  BY <1>1, Zenon
<1>2. CASE T = S \cup {i} /\ S = {}
  BY <1>2 DEF HasLargest
<1>3. CASE T = S \cup {i} /\ HasLargest(S)
  <2>1. PICK m \in S : \A j \in S : j <= m
    BY <1>3, Zenon DEF HasLargest
  <2>2. CASE i <= m
    BY <1>3, <2>1, <2>2, Zenon DEF HasLargest
  <2>3. CASE ~(i <= m)
    <3>1. \A j \in T : j <= i
      BY <1>3, <2>1, <2>3
    <3> QED BY <1>3, <3>1, Zenon DEF HasLargest
  <2> QED BY <2>2, <2>3, Zenon
<1> QED BY <1>1, <1>2, <1>3, Zenon

(* loadSnapshot picks the newest of the usable snapshots, none beyond the   *)
(* commit index.                                                            *)
LEMMA LoadsNewest ==
  ASSUME NEW d, DiskInv(d)
  PROVE  /\ IsSnapshot(LoadSnapshot(d)) /\ LoadSnapshot(d).index <= d.commit
         /\ \A b \in Usable(d, d.commit) \cup {0} : b <= LoadSnapshot(d).index
<1> DEFINE U == Usable(d, d.commit)
<1>1. LoadSnapshot(d) = IF U = {} THEN NoSnapshot ELSE d.files[CHOOSE i \in U : \A j \in U : j <= i]
  BY Zenon DEF LoadSnapshot, Usable
<1>2. CASE U = {}
  BY <1>1, <1>2 DEF NoSnapshot, IsSnapshot, DiskInv
<1>3. CASE U # {}
  <2> DEFINE m == CHOOSE i \in U : \A j \in U : j <= i
  <2>1. \E i \in U : \A j \in U : j <= i
    BY <1>3, Zenon DEF DiskInv, HasLargest
  <2>2. m \in U /\ \A j \in U : j <= m
    BY <2>1, Zenon
  <2> HIDE DEF m
  <2>3. m \in DOMAIN d.files /\ m <= d.commit /\ m \in Nat
    BY <2>2, Zenon DEF Usable, DiskInv
  <2>4. IsSnapshot(d.files[m]) /\ d.files[m].index = m
    BY <2>3, Zenon DEF DiskInv
  <2>5. LoadSnapshot(d) = d.files[m]
    BY <1>1, <1>3, Zenon DEF m
  <2>6. \A b \in U \cup {0} : b <= m
    BY <2>2, <2>3
  <2> QED BY <2>3, <2>4, <2>5, <2>6, Zenon
<1> QED BY <1>2, <1>3, Zenon

(* The fields of a disk once one or two of them are replaced. *)
LEMMA DiskFields ==
  ASSUME NEW d, d = [files |-> d.files, records |-> d.records, entries |-> d.entries, commit |-> d.commit],
         NEW x, NEW y
  PROVE  /\ [d EXCEPT !.files = x]
             = [files |-> x, records |-> d.records, entries |-> d.entries, commit |-> d.commit]
         /\ [d EXCEPT !.records = x]
             = [files |-> d.files, records |-> x, entries |-> d.entries, commit |-> d.commit]
         /\ [d EXCEPT !.commit = x, !.entries = y]
             = [files |-> d.files, records |-> d.records, entries |-> y, commit |-> x]
<1> DEFINE f == d.files
<1> DEFINE r == d.records
<1> DEFINE n == d.entries
<1> DEFINE c == d.commit
<1>1. d = [files |-> f, records |-> r, entries |-> n, commit |-> c]
  BY Zenon
<1> HIDE DEF f, r, n, c
<1>2. [d EXCEPT !.files = x] = [files |-> x, records |-> r, entries |-> n, commit |-> c]
  BY <1>1
<1>3. [d EXCEPT !.records = x] = [files |-> f, records |-> x, entries |-> n, commit |-> c]
  BY <1>1
<1>4. [d EXCEPT !.commit = x, !.entries = y] = [files |-> f, records |-> r, entries |-> y, commit |-> x]
  <2> DEFINE e == [d EXCEPT !.commit = x]
  <2>1. e = [files |-> f, records |-> r, entries |-> n, commit |-> x]
    BY <1>1
  <2>2. [d EXCEPT !.commit = x, !.entries = y] = [e EXCEPT !.entries = y]
    BY Zenon
  <2> HIDE DEF e
  <2>3. [e EXCEPT !.entries = y] = [files |-> f, records |-> r, entries |-> y, commit |-> x]
    BY <2>1
  <2> QED BY <2>2, <2>3, Zenon
<1> QED BY <1>2, <1>3, <1>4, Zenon DEF f, r, n, c

(* SaveSnap adds or replaces the file of a snapshot. *)
LEMMA SaveSnapKeeps ==
  ASSUME NEW d, DiskInv(d), NEW s, IsSnapshot(s)
  PROVE  /\ DiskInv(SaveSnap(d, s))
         /\ SaveSnap(d, s).commit = d.commit /\ SaveSnap(d, s).records = d.records
         /\ DOMAIN SaveSnap(d, s).files = DOMAIN d.files \cup {s.index}
<1> DEFINE f == [i \in DOMAIN d.files \cup {s.index} |-> IF i = s.index THEN s ELSE d.files[i]]
<1> DEFINE e == [files |-> f, records |-> d.records, entries |-> d.entries, commit |-> d.commit]
<1>1. SaveSnap(d, s) = e
  BY DiskFields, Zenon DEF SaveSnap, DiskInv
<1>2. DOMAIN f = DOMAIN d.files \cup {s.index} /\ \A i \in DOMAIN f : IsSnapshot(f[i]) /\ f[i].index = i
  BY Zenon DEF DiskInv
<1>3. /\ e.files = f /\ e.records = d.records /\ e.entries = d.entries /\ e.commit = d.commit
      /\ e = [files |-> e.files, records |-> e.records, entries |-> e.entries, commit |-> e.commit]
  BY Zenon
<1> HIDE DEF f, e
<1>4. s.index \in Nat
  BY Zenon DEF IsSnapshot
<1>5. \A c \in Nat : Usable(e, c) = {} \/ HasLargest(Usable(e, c))
  <2> SUFFICES ASSUME NEW c \in Nat PROVE Usable(e, c) = {} \/ HasLargest(Usable(e, c))
    BY Zenon
  <2>1. Usable(d, c) \subseteq Nat /\ (Usable(d, c) = {} \/ HasLargest(Usable(d, c)))
    BY Zenon DEF DiskInv, Usable
  <2>2. Usable(e, c) = Usable(d, c) \/ Usable(e, c) = Usable(d, c) \cup {s.index}
    BY <1>2, <1>3 DEF Usable
  <2> QED BY <1>4, <2>1, <2>2, LargestWithOneMore, Zenon
<1>6. Rebuilds(e)
  <2>1. Usable(d, d.commit) \subseteq Usable(e, e.commit)
    BY <1>2, <1>3, Zenon DEF Usable
  <2> QED BY <1>3, <2>1, Zenon DEF Rebuilds, DiskInv
<1> QED BY <1>1, <1>2, <1>3, <1>4, <1>5, <1>6 DEF DiskInv

(* wal.SaveSnapshot makes one more snapshot usable. *)
LEMMA SaveRecordKeeps ==
  ASSUME NEW d, DiskInv(d), NEW k \in Nat
  PROVE  /\ DiskInv(SaveRecord(d, k))
         /\ SaveRecord(d, k).commit = d.commit /\ SaveRecord(d, k).files = d.files
         /\ SaveRecord(d, k).records = d.records \cup {k}
<1> DEFINE e == [files |-> d.files, records |-> d.records \cup {k}, entries |-> d.entries, commit |-> d.commit]
<1>1. SaveRecord(d, k) = e
  BY DiskFields, Zenon DEF SaveRecord, DiskInv
<1>2. /\ e.files = d.files /\ e.records = d.records \cup {k} /\ e.entries = d.entries /\ e.commit = d.commit
      /\ e = [files |-> e.files, records |-> e.records, entries |-> e.entries, commit |-> e.commit]
  BY Zenon
<1> HIDE DEF e
<1>3. \A c \in Nat : Usable(e, c) = {} \/ HasLargest(Usable(e, c))
  <2> SUFFICES ASSUME NEW c \in Nat PROVE Usable(e, c) = {} \/ HasLargest(Usable(e, c))
    BY Zenon
  <2>1. Usable(d, c) \subseteq Nat /\ (Usable(d, c) = {} \/ HasLargest(Usable(d, c)))
    BY Zenon DEF DiskInv, Usable
  <2>2. Usable(e, c) = Usable(d, c) \/ Usable(e, c) = Usable(d, c) \cup {k}
    BY <1>2, Zenon DEF Usable
  <2> QED BY <2>1, <2>2, LargestWithOneMore, Zenon
<1>4. Rebuilds(e)
  <2>1. Usable(d, d.commit) \subseteq Usable(e, e.commit)
    BY <1>2, Zenon DEF Usable
  <2> QED BY <1>2, <2>1, Zenon DEF Rebuilds, DiskInv
<1>5. e.commit \in Nat /\ e.records \subseteq Nat /\ DOMAIN e.files \subseteq Nat
      /\ \A i \in DOMAIN e.files : IsSnapshot(e.files[i]) /\ e.files[i].index = i
  BY <1>2, Zenon DEF DiskInv
<1> QED BY <1>1, <1>2, <1>3, <1>4, <1>5, Zenon DEF DiskInv

(* wal.Save extends what can be rebuilt: the new entries follow on what is  *)
(* committed, or a usable snapshot is as new as the commit index.           *)
LEMMA SaveEntriesKeeps ==
  ASSUME NEW d, DiskInv(d), NEW from \in Nat, NEW to \in Nat,
         from <= d.commit + 1 \/ (from = to + 1 /\ to \in DOMAIN d.files \cap d.records)
  PROVE  /\ DiskInv(SaveEntries(d, from, to))
         /\ SaveEntries(d, from, to).files = d.files /\ SaveEntries(d, from, to).records = d.records
         /\ SaveEntries(d, from, to).commit \in Nat
         /\ d.commit <= SaveEntries(d, from, to).commit /\ to <= SaveEntries(d, from, to).commit
<1> DEFINE top == IF to > d.commit THEN to ELSE d.commit
<1> DEFINE e == [files |-> d.files, records |-> d.records, entries |-> d.entries \cup from..to, commit |-> top]
<1>1. SaveEntries(d, from, to) = e
  <2>1. d = [files |-> d.files, records |-> d.records, entries |-> d.entries, commit |-> d.commit]
    BY Zenon DEF DiskInv
  <2>2. SaveEntries(d, from, to) = [d EXCEPT !.commit = top, !.entries = d.entries \cup from..to]
    BY Zenon DEF SaveEntries
  <2> HIDE DEF top
  <2> QED BY <2>1, <2>2, DiskFields, Zenon
<1>2. d.commit \in Nat /\ top \in Nat /\ d.commit <= top /\ to <= top
  BY DEF DiskInv
<1>3. /\ e.files = d.files /\ e.records = d.records /\ e.entries = d.entries \cup from..to /\ e.commit = top
      /\ e = [files |-> e.files, records |-> e.records, entries |-> e.entries, commit |-> e.commit]
  BY Zenon
<1>4. top = d.commit \/ top = to
  BY Zenon
<1> HIDE DEF top, e
<1>5. \A c \in Nat : Usable(e, c) = Usable(d, c)
  BY <1>3, Zenon DEF Usable
<1>6. Rebuilds(e)
  <2>1. PICK b \in Usable(d, d.commit) \cup {0} : b + 1 .. d.commit \subseteq d.entries
    BY Zenon DEF DiskInv, Rebuilds
  <2>2. b \in Nat /\ b \in Usable(e, e.commit) \cup {0}
    BY <1>2, <1>3, <2>1 DEF Usable, DiskInv
  <2>3. CASE from <= d.commit + 1
    <3>1. b + 1 .. top \subseteq d.entries \cup from..to
      BY <1>2, <1>4, <2>1, <2>2, <2>3
    <3> QED BY <1>3, <2>2, <3>1, Zenon DEF Rebuilds
  <2>4. CASE from = to + 1 /\ to \in DOMAIN d.files \cap d.records
    <3>1. CASE top = d.commit
      BY <1>3, <2>1, <2>2, <3>1, Zenon DEF Rebuilds
    <3>2. CASE top = to
      <4>1. to \in Usable(e, e.commit)
        BY <1>3, <2>4, <3>2 DEF Usable
      <4>2. to + 1 .. e.commit \subseteq e.entries
        BY <1>3, <3>2
      <4> QED BY <4>1, <4>2, Zenon DEF Rebuilds
    <3> QED BY <1>4, <3>1, <3>2, Zenon
  <2> QED BY <2>3, <2>4, Zenon
<1>7. e.commit \in Nat /\ e.records \subseteq Nat /\ DOMAIN e.files \subseteq Nat
      /\ (\A i \in DOMAIN e.files : IsSnapshot(e.files[i]) /\ e.files[i].index = i)
      /\ \A c \in Nat : Usable(e, c) = {} \/ HasLargest(Usable(e, c))
  BY <1>2, <1>3, <1>5, Zenon DEF DiskInv
<1> QED BY <1>1, <1>2, <1>3, <1>6, <1>7, Zenon DEF DiskInv
-----------------------------------------------------------------------------
\* What is kept in memory.

(* The consumer's fields once one of them is replaced. *)
LEMMA ConsField ==
  ASSUME NEW c, IsCons(c), NEW x
  PROVE  /\ [c EXCEPT !.pc = x]
             = [pc |-> x, snap |-> c.snap, next |-> c.next, upto |-> c.upto, reads |-> c.reads]
         /\ [c EXCEPT !.snap = x]
             = [pc |-> c.pc, snap |-> x, next |-> c.next, upto |-> c.upto, reads |-> c.reads]
         /\ [c EXCEPT !.next = x]
             = [pc |-> c.pc, snap |-> c.snap, next |-> x, upto |-> c.upto, reads |-> c.reads]
         /\ [c EXCEPT !.upto = x]
             = [pc |-> c.pc, snap |-> c.snap, next |-> c.next, upto |-> x, reads |-> c.reads]
         /\ [c EXCEPT !.reads = x]
             = [pc |-> c.pc, snap |-> c.snap, next |-> c.next, upto |-> c.upto, reads |-> x]
<1> DEFINE p == c.pc
<1> DEFINE s == c.snap
<1> DEFINE n == c.next
<1> DEFINE u == c.upto
<1> DEFINE r == c.reads
<1>1. c = [pc |-> p, snap |-> s, next |-> n, upto |-> u, reads |-> r]
  BY Zenon DEF IsCons
<1> HIDE DEF p, s, n, u, r
<1>2. [c EXCEPT !.pc = x] = [pc |-> x, snap |-> s, next |-> n, upto |-> u, reads |-> r]
  BY <1>1
<1>3. [c EXCEPT !.snap = x] = [pc |-> p, snap |-> x, next |-> n, upto |-> u, reads |-> r]
  BY <1>1
<1>4. [c EXCEPT !.next = x] = [pc |-> p, snap |-> s, next |-> x, upto |-> u, reads |-> r]
  BY <1>1
<1>5. [c EXCEPT !.upto = x] = [pc |-> p, snap |-> s, next |-> n, upto |-> x, reads |-> r]
  BY <1>1
<1>6. [c EXCEPT !.reads = x] = [pc |-> p, snap |-> s, next |-> n, upto |-> u, reads |-> x]
  BY <1>1
<1> QED BY <1>2, <1>3, <1>4, <1>5, <1>6, Zenon DEF p, s, n, u, r

(* The consumer's fields once a Ready with entries is received. *)
LEMMA ConsReceives ==
  ASSUME NEW c, IsCons(c), NEW p, NEW x, NEW u, NEW r
  PROVE  [c EXCEPT !.pc = p, !.next = x, !.upto = u, !.reads = r]
           = [pc |-> p, snap |-> c.snap, next |-> x, upto |-> u, reads |-> r]
<1> DEFINE s == c.snap
<1> DEFINE c1 == [c EXCEPT !.pc = p]
<1> DEFINE c2 == [c1 EXCEPT !.next = x]
<1> DEFINE c3 == [c2 EXCEPT !.upto = u]
<1> DEFINE c4 == [c3 EXCEPT !.reads = r]
<1>0. [c EXCEPT !.pc = p, !.next = x, !.upto = u, !.reads = r] = c4
  BY Zenon
<1>1. c1 = [pc |-> p, snap |-> s, next |-> c.next, upto |-> c.upto, reads |-> c.reads]
  BY ConsField, Zenon
<1> HIDE DEF c1, s
<1>2. c2 = [pc |-> p, snap |-> s, next |-> x, upto |-> c.upto, reads |-> c.reads]
  BY <1>1
<1> HIDE DEF c2
<1>3. c3 = [pc |-> p, snap |-> s, next |-> x, upto |-> u, reads |-> c.reads]
  BY <1>2
<1> HIDE DEF c3
<1>4. c4 = [pc |-> p, snap |-> s, next |-> x, upto |-> u, reads |-> r]
  BY <1>3
<1> HIDE DEF c4
<1> QED BY <1>0, <1>4, Zenon DEF s

(* The fields of a volatile record that is written out. *)
LEMMA VolParts ==
  ASSUME NEW r, NEW a, NEW s, NEW f, NEW g, NEW c,
         r = [applied |-> a, snap |-> s, first |-> f, group |-> g, conf |-> c]
  PROVE  r.applied = a /\ r.snap = s /\ r.first = f /\ r.group = g /\ r.conf = c
BY Zenon

(* The fields of Consensus once one of them is replaced. *)
LEMMA VolField ==
  ASSUME NEW v, IsVol(v), NEW x
  PROVE  /\ [v EXCEPT !.applied = x]
             = [applied |-> x, snap |-> v.snap, first |-> v.first, group |-> v.group, conf |-> v.conf]
         /\ [v EXCEPT !.snap = x]
             = [applied |-> v.applied, snap |-> x, first |-> v.first, group |-> v.group, conf |-> v.conf]
         /\ [v EXCEPT !.first = x]
             = [applied |-> v.applied, snap |-> v.snap, first |-> x, group |-> v.group, conf |-> v.conf]
         /\ [v EXCEPT !.group = x]
             = [applied |-> v.applied, snap |-> v.snap, first |-> v.first, group |-> x, conf |-> v.conf]
         /\ [v EXCEPT !.conf = x]
             = [applied |-> v.applied, snap |-> v.snap, first |-> v.first, group |-> v.group, conf |-> x]
<1> DEFINE a == v.applied
<1> DEFINE s == v.snap
<1> DEFINE f == v.first
<1> DEFINE g == v.group
<1> DEFINE c == v.conf
<1>1. v = [applied |-> a, snap |-> s, first |-> f, group |-> g, conf |-> c]
  BY Zenon DEF IsVol
<1> HIDE DEF a, s, f, g, c
<1>2. [v EXCEPT !.applied = x] = [applied |-> x, snap |-> s, first |-> f, group |-> g, conf |-> c]
  BY <1>1
<1>3. [v EXCEPT !.snap = x] = [applied |-> a, snap |-> x, first |-> f, group |-> g, conf |-> c]
  BY <1>1
<1>4. [v EXCEPT !.first = x] = [applied |-> a, snap |-> s, first |-> x, group |-> g, conf |-> c]
  BY <1>1
<1>5. [v EXCEPT !.group = x] = [applied |-> a, snap |-> s, first |-> f, group |-> x, conf |-> c]
  BY <1>1
<1>6. [v EXCEPT !.conf = x] = [applied |-> a, snap |-> s, first |-> f, group |-> g, conf |-> x]
  BY <1>1
<1> QED BY <1>2, <1>3, <1>4, <1>5, <1>6, Zenon DEF a, s, f, g, c

(* What is true of a server in memory stays true when its disk holds more. *)
LEMMA DiskGrows ==
  ASSUME NEW v, NEW c, NEW d, NEW a, NEW e, ServerInv(v, c, d, a),
         DiskInv(e), d.commit <= e.commit, DOMAIN d.files \subseteq DOMAIN e.files, d.records \subseteq e.records
  PROVE  ServerInv(v, c, e, a)
<1>1. d.commit \in Nat /\ e.commit \in Nat
  BY Zenon DEF ServerInv, DiskInv
<1>2. VolInv(v, e)
  BY <1>1 DEF ServerInv, VolInv
<1>3. ConsInv(c, e)
  <2>1. c.pc = "publish" => c.upto \in Nat /\ c.upto <= e.commit
    BY <1>1 DEF ServerInv, ConsInv
  <2>2. c.pc = "handoff" => c.snap.index <= e.commit
    BY <1>1 DEF ServerInv, ConsInv, IsSnapshot
  <2> QED BY <2>1, <2>2, Zenon DEF ServerInv, ConsInv
<1>4. a \in Nat /\ a <= e.commit
  BY <1>1 DEF ServerInv
<1> QED BY <1>2, <1>3, <1>4, Zenon DEF ServerInv

(* Recovered starts from a snapshot not beyond the commit index. *)
LEMMA RecoveredKeeps ==
  ASSUME NEW s, NEW d, IsSnapshot(s), s.index <= d.commit
  PROVE  VolInv(Recovered(s), d)
BY Zenon DEF Recovered, VolInv, IsVol, IsSnapshot

(* A consumer that has no Ready. *)
LEMMA WaitingKeeps ==
  ASSUME NEW d
  PROVE  ConsInv(Waiting, d) /\ ConsInv([Waiting EXCEPT !.pc = "reads"], d)
BY DEF Waiting, ConsInv, IsCons

-----------------------------------------------------------------------------
\* Steps of one server and steps of none.

OnlyServer(n) ==
  /\ UNCHANGED <<log, pending>>
  /\ DOMAIN vol' = Server /\ DOMAIN cons' = Server /\ DOMAIN disk' = Server /\ DOMAIN acked' = Server
  /\ \A m \in Server \ {n} :
       vol'[m] = vol[m] /\ cons'[m] = cons[m] /\ disk'[m] = disk[m] /\ acked'[m] = acked[m]

(* A step of one server. *)
LEMMA OneServer ==
  ASSUME RInv, NEW n \in Server, OnlyServer(n), ServerInv(vol'[n], cons'[n], disk'[n], acked'[n])
  PROVE  RInv'
<1>1. ASSUME NEW m \in Server PROVE ServerInv(vol'[m], cons'[m], disk'[m], acked'[m])
  <2>1. CASE m = n
    BY <2>1, Zenon
  <2>2. CASE m # n
    <3>1. m \in Server \ {n}
      BY <2>2, Zenon
    <3>2. ServerInv(vol[m], cons[m], disk[m], acked[m])
      BY Zenon DEF RInv
    <3> QED BY <3>1, <3>2, Zenon DEF OnlyServer
  <2> QED BY <2>1, <2>2, Zenon
<1> QED BY <1>1, Zenon DEF RInv, OnlyServer

(* A step that leaves every server's log, disk and membership. *)
LEMMA NoServer ==
  ASSUME RInv, UNCHANGED <<vol, cons, disk, acked>>,
         log' \in Seq(Writes \cup Changes \cup {Empty}), pending' \subseteq Writes \cup Changes
  PROVE  RInv'
BY Zenon DEF RInv

(* Requests, the library, and the execution of commits. *)
LEMMA OutsideKeeps ==
  ASSUME RInv, Client \/ Library \/ (\E n \in Server : Execute(n) \/ Untrack(n) \/ \E m \in Server : RefusedByPeer(n, m))
  PROVE  RInv'
<1>0. log \in Seq(Writes \cup Changes \cup {Empty}) /\ pending \subseteq Writes \cup Changes
  BY Zenon DEF RInv
<1>1. ASSUME NEW n \in Server, NEW w \in Writes, ProposeWrite(w, n) PROVE RInv'
  BY <1>0, <1>1, NoServer, Zenon DEF ProposeWrite, logVars
<1>2. ASSUME NEW n \in Server, NEW c \in Changes, ProposeChange(c, n) PROVE RInv'
  BY <1>0, <1>2, NoServer, Zenon DEF ProposeChange, logVars
<1>3. ASSUME NEW n \in Server, NEW r \in Reads, AskRead(r, n) \/ SubmitRead(r) PROVE RInv'
  BY <1>0, <1>3, NoServer, Zenon DEF AskRead, SubmitRead, logVars
<1>4. ASSUME NEW r, Cancel(r) \/ AnswerRead(r) \/ SubmitRead(r) PROVE RInv'
  BY <1>0, <1>4, NoServer, Zenon DEF Cancel, AnswerRead, SubmitRead, logVars
<1>5. ASSUME NEW e \in pending \cup {Empty}, Commit(e) PROVE RInv'
  <2>1. log' = Append(log, e) /\ pending' = pending \ {e} /\ UNCHANGED <<vol, cons, disk, acked>>
    BY <1>5, Zenon DEF Commit
  <2>2. e \in Writes \cup Changes \cup {Empty}
    BY <1>0, Zenon
  <2>3. log' \in Seq(Writes \cup Changes \cup {Empty})
    BY <1>0, <2>1, <2>2
  <2> QED BY <1>0, <2>1, <2>3, NoServer, Zenon
<1>6. ASSUME NEW n \in Server, Execute(n) PROVE RInv'
  BY <1>0, <1>6, NoServer, Zenon DEF Execute, ExecuteRestore, ExecuteWrite, ExecuteRead, logVars
<1>7. ASSUME NEW n \in Server, Untrack(n) PROVE RInv'
  BY <1>0, <1>7, NoServer, Zenon DEF Untrack, logVars
<1>8. ASSUME NEW n \in Server, NEW m \in Server, RefusedByPeer(n, m) PROVE RInv'
  BY <1>0, <1>8, NoServer, Zenon DEF RefusedByPeer, logVars
<1>9. CASE Client
  BY <1>1, <1>2, <1>3, <1>4, <1>9, Zenon DEF Client
<1>10. CASE Library
  BY <1>4, <1>5, <1>10, Zenon DEF Library
<1> QED BY <1>6, <1>7, <1>8, <1>9, <1>10, Zenon
(* The server of a step, before it. *)
LEMMA ThisServer ==
  ASSUME RInv, NEW n \in Server
  PROVE  /\ ServerInv(vol[n], cons[n], disk[n], acked[n])
         /\ DiskInv(disk[n]) /\ VolInv(vol[n], disk[n]) /\ ConsInv(cons[n], disk[n])
         /\ acked[n] \in Nat /\ acked[n] <= disk[n].commit /\ IsCons(cons[n]) /\ IsVol(vol[n])
         /\ DOMAIN vol = Server /\ DOMAIN cons = Server /\ DOMAIN disk = Server /\ DOMAIN acked = Server
BY Zenon DEF RInv, ServerInv, VolInv, ConsInv

(* A Ready with entries: they follow on what is committed. *)
LEMMA ReceiveEntriesKeeps ==
  ASSUME RInv, NEW n \in Server, NEW k \in vol[n].applied..Len(log), ReceiveEntries(n, k)
  PROVE  RInv'
<1> DEFINE first == vol[n].applied + 1
<1> DEFINE e == SaveEntries(disk[n], first, k)
<1> DEFINE c == [cons[n] EXCEPT !.pc = "publish", !.next = first, !.upto = k, !.reads = AnsweredAt(n)]
<1>1. Len(log) \in Nat
  BY DEF RInv
<1>2. vol[n].applied \in Nat /\ vol[n].applied <= disk[n].commit /\ disk[n].commit \in Nat
  BY ThisServer, Zenon DEF VolInv, DiskInv
<1>3. k \in Nat /\ first \in Nat /\ first <= disk[n].commit + 1
  BY <1>1, <1>2
<1>4. /\ DiskInv(e) /\ e.files = disk[n].files /\ e.records = disk[n].records
      /\ e.commit \in Nat /\ disk[n].commit <= e.commit /\ k <= e.commit
  <2> HIDE DEF first
  <2> QED BY <1>3, ThisServer, SaveEntriesKeeps, Zenon
<1>5. c = [pc |-> "publish", snap |-> cons[n].snap, next |-> first, upto |-> k, reads |-> AnsweredAt(n)]
  <2> HIDE DEF first
  <2> QED BY ThisServer, ConsReceives, Zenon
<1>6. /\ UNCHANGED <<log, pending, vol>>
      /\ disk' = [disk EXCEPT ![n] = e] /\ acked' = [acked EXCEPT ![n] = e.commit]
      /\ cons' = [cons EXCEPT ![n] = c]
  BY Zenon DEF ReceiveEntries, logVars
<1> HIDE DEF first, e, c
<1>7. vol'[n] = vol[n] /\ cons'[n] = c /\ disk'[n] = e /\ acked'[n] = e.commit
  BY <1>6, ThisServer, Zenon
<1>8. OnlyServer(n)
  BY <1>6, ThisServer, Zenon DEF OnlyServer
<1>9. ConsInv(c, e)
  BY <1>3, <1>4, <1>5, Zenon DEF ConsInv, IsCons
<1>10. VolInv(vol[n], e)
  BY <1>2, <1>4, ThisServer DEF VolInv
<1>11. ServerInv(vol[n], c, e, e.commit)
  BY <1>4, <1>9, <1>10 DEF ServerInv
<1> QED BY <1>7, <1>8, <1>11, OneServer, Zenon

(* A Ready with a snapshot: its file is written first. *)
LEMMA ReceiveSnapshotKeeps ==
  ASSUME RInv, NEW n \in Server, NEW m \in Server, ReceiveSnapshot(n, m)
  PROVE  RInv'
<1> DEFINE s == [vol[m].snap EXCEPT !.conf = vol[m].conf]
<1> DEFINE e == SaveSnap(disk[n], s)
<1> DEFINE c == [cons[n] EXCEPT !.pc = "record", !.snap = s]
<1>1. IsSnapshot(s)
  <2> DEFINE o == vol[m].snap
  <2> DEFINE f == vol[m].conf
  <2>1. IsSnapshot(o)
    BY ThisServer, Zenon DEF VolInv
  <2> HIDE DEF o, f
  <2>2. IsSnapshot([o EXCEPT !.conf = f])
    BY <2>1 DEF IsSnapshot
  <2> QED BY <2>2, Zenon DEF o, f
<1>2. /\ UNCHANGED <<log, pending, vol, acked>>
      /\ disk' = [disk EXCEPT ![n] = e] /\ cons' = [cons EXCEPT ![n] = c]
  BY Zenon DEF ReceiveSnapshot, logVars
<1> HIDE DEF s
<1>3. DiskInv(e) /\ e.commit = disk[n].commit /\ e.records = disk[n].records
      /\ DOMAIN e.files = DOMAIN disk[n].files \cup {s.index}
  BY <1>1, ThisServer, SaveSnapKeeps, Zenon
<1> HIDE DEF e
<1>4. c = [pc |-> "record", snap |-> s, next |-> cons[n].next, upto |-> cons[n].upto, reads |-> cons[n].reads]
  <2> DEFINE b == [cons[n] EXCEPT !.pc = "record"]
  <2>1. c = [b EXCEPT !.snap = s]
    BY Zenon
  <2>2. b = [pc |-> "record", snap |-> cons[n].snap, next |-> cons[n].next,
             upto |-> cons[n].upto, reads |-> cons[n].reads]
    BY ThisServer, ConsField, Zenon
  <2> HIDE DEF b, c
  <2>3. IsCons(b)
    BY <2>2, Zenon DEF IsCons
  <2> QED BY <2>1, <2>2, <2>3, ConsField, Zenon
<1> HIDE DEF c
<1>5. ConsInv(c, e)
  BY <1>1, <1>3, <1>4, Zenon DEF ConsInv, IsCons
<1>6. ServerInv(vol[n], cons[n], e, acked[n])
  <2>1. disk[n].commit <= e.commit
    BY <1>3 DEF DiskInv
  <2> QED BY <1>3, <2>1, ThisServer, DiskGrows, Zenon
<1>7. ServerInv(vol[n], c, e, acked[n])
  BY <1>5, <1>6, Zenon DEF ServerInv
<1>8. vol'[n] = vol[n] /\ cons'[n] = c /\ disk'[n] = e /\ acked'[n] = acked[n]
  BY <1>2, ThisServer, Zenon
<1>9. OnlyServer(n)
  BY <1>2, ThisServer, Zenon DEF OnlyServer
<1> QED BY <1>7, <1>8, <1>9, OneServer, Zenon
(* The record of a received snapshot. *)
LEMMA RecordSnapshotKeeps ==
  ASSUME RInv, NEW n \in Server, RecordSnapshot(n)
  PROVE  RInv'
<1> DEFINE k == cons[n].snap.index
<1> DEFINE e == SaveRecord(disk[n], k)
<1> DEFINE c == [cons[n] EXCEPT !.pc = "save"]
<1>1. cons[n].pc = "record" /\ UNCHANGED <<log, pending, vol, acked>>
      /\ disk' = [disk EXCEPT ![n] = e] /\ cons' = [cons EXCEPT ![n] = c]
  BY Zenon DEF RecordSnapshot, logVars
<1>2. IsSnapshot(cons[n].snap) /\ k \in Nat /\ k \in DOMAIN disk[n].files
  BY <1>1, ThisServer, Zenon DEF ConsInv, IsSnapshot
<1>3. c = [pc |-> "save", snap |-> cons[n].snap, next |-> cons[n].next, upto |-> cons[n].upto,
           reads |-> cons[n].reads]
  BY ThisServer, ConsField, Zenon
<1> HIDE DEF c
<1>4. IsCons(c) /\ c.pc = "save" /\ c.snap = cons[n].snap /\ c.snap.index = k
  BY <1>3, Zenon DEF IsCons
<1> HIDE DEF k
<1>5. DiskInv(e) /\ e.commit = disk[n].commit /\ e.files = disk[n].files
      /\ e.records = disk[n].records \cup {k}
  BY <1>2, ThisServer, SaveRecordKeeps, Zenon
<1> HIDE DEF e
<1>6. ConsInv(c, e)
  BY <1>2, <1>4, <1>5, Zenon DEF ConsInv
<1>7. ServerInv(vol[n], cons[n], e, acked[n])
  <2>1. disk[n].commit <= e.commit
    BY <1>5 DEF DiskInv
  <2> QED BY <1>5, <2>1, ThisServer, DiskGrows, Zenon
<1>8. ServerInv(vol[n], c, e, acked[n])
  BY <1>6, <1>7, Zenon DEF ServerInv
<1>9. vol'[n] = vol[n] /\ cons'[n] = c /\ disk'[n] = e /\ acked'[n] = acked[n]
  BY <1>1, ThisServer, Zenon
<1>10. OnlyServer(n)
  BY <1>1, ThisServer, Zenon DEF OnlyServer
<1> QED BY <1>8, <1>9, <1>10, OneServer, Zenon

(* The hard state that comes with a received snapshot: by now it is usable. *)
LEMMA SaveStateKeeps ==
  ASSUME RInv, NEW n \in Server, SaveState(n)
  PROVE  RInv'
<1> DEFINE k == cons[n].snap.index
<1> DEFINE e == SaveEntries(disk[n], k + 1, k)
<1> DEFINE c == [cons[n] EXCEPT !.pc = "handoff"]
<1>1. cons[n].pc = "save" /\ UNCHANGED <<log, pending, vol, acked>>
      /\ disk' = [disk EXCEPT ![n] = e] /\ cons' = [cons EXCEPT ![n] = c]
  BY Zenon DEF SaveState, logVars
<1>2. IsSnapshot(cons[n].snap) /\ k \in Nat /\ k \in DOMAIN disk[n].files \cap disk[n].records
  BY <1>1, ThisServer, Zenon DEF ConsInv, IsSnapshot
<1>3. c = [pc |-> "handoff", snap |-> cons[n].snap, next |-> cons[n].next, upto |-> cons[n].upto,
           reads |-> cons[n].reads]
  BY ThisServer, ConsField, Zenon
<1> HIDE DEF c
<1>4. IsCons(c) /\ c.pc = "handoff" /\ c.snap = cons[n].snap /\ c.snap.index = k
  BY <1>3, Zenon DEF IsCons
<1> HIDE DEF k
<1>5. DiskInv(e) /\ e.files = disk[n].files /\ e.records = disk[n].records
      /\ disk[n].commit <= e.commit /\ k <= e.commit
  <2>1. k + 1 \in Nat
    BY <1>2
  <2> QED BY <1>2, <2>1, ThisServer, SaveEntriesKeeps, Zenon
<1> HIDE DEF e
<1>6. ConsInv(c, e)
  BY <1>2, <1>4, <1>5, Zenon DEF ConsInv
<1>7. ServerInv(vol[n], cons[n], e, acked[n])
  BY <1>5, ThisServer, DiskGrows, Zenon
<1>8. ServerInv(vol[n], c, e, acked[n])
  BY <1>6, <1>7, Zenon DEF ServerInv
<1>9. vol'[n] = vol[n] /\ cons'[n] = c /\ disk'[n] = e /\ acked'[n] = acked[n]
  BY <1>1, ThisServer, Zenon
<1>10. OnlyServer(n)
  BY <1>1, ThisServer, Zenon DEF OnlyServer
<1> QED BY <1>8, <1>9, <1>10, OneServer, Zenon

(* A received snapshot is handed over and acknowledged only now. *)
LEMMA HandOffKeeps ==
  ASSUME RInv, NEW n \in Server, HandOffSnapshot(n)
  PROVE  RInv'
<1> DEFINE s == cons[n].snap
<1> DEFINE c == [Waiting EXCEPT !.pc = "reads"]
<1>1. cons[n].pc = "handoff" /\ UNCHANGED <<log, pending, disk>> /\ vol' = [vol EXCEPT ![n] = Recovered(s)]
      /\ acked' = [acked EXCEPT ![n] = s.index] /\ cons' = [cons EXCEPT ![n] = c]
  BY Zenon DEF HandOffSnapshot, logVars
<1>2. IsSnapshot(s) /\ s.index <= disk[n].commit /\ s.index \in Nat
  BY <1>1, ThisServer, Zenon DEF ConsInv, IsSnapshot
<1> HIDE DEF s
<1>3. VolInv(Recovered(s), disk[n]) /\ ConsInv(c, disk[n])
  BY <1>2, RecoveredKeeps, WaitingKeeps, Zenon
<1> HIDE DEF c
<1>4. ServerInv(Recovered(s), c, disk[n], s.index)
  BY <1>2, <1>3, ThisServer, Zenon DEF ServerInv
<1>5. vol'[n] = Recovered(s) /\ cons'[n] = c /\ disk'[n] = disk[n] /\ acked'[n] = s.index
  BY <1>1, ThisServer, Zenon
<1>6. OnlyServer(n)
  BY <1>1, ThisServer, Zenon DEF OnlyServer
<1> QED BY <1>4, <1>5, <1>6, OneServer, Zenon
(* The consumer moves on in its batch, or past it. *)
LEMMA ConsMoves ==
  ASSUME NEW c, NEW d, NEW e, NEW x, ConsInv(c, d)
  PROVE  /\ ConsInv([c EXCEPT !.next = x], d)
         /\ ConsInv([c EXCEPT !.pc = "compact"], e) /\ ConsInv([c EXCEPT !.pc = "reads"], e)
<1>1. IsCons(c)
  BY Zenon DEF ConsInv
<1>2. ConsInv([c EXCEPT !.next = x], d)
  <2> DEFINE b == [c EXCEPT !.next = x]
  <2>1. b = [pc |-> c.pc, snap |-> c.snap, next |-> x, upto |-> c.upto, reads |-> c.reads]
    BY <1>1, ConsField, Zenon
  <2> HIDE DEF b
  <2>2. IsCons(b) /\ b.pc = c.pc /\ b.snap = c.snap /\ b.upto = c.upto
    BY <2>1, Zenon DEF IsCons
  <2>3. ConsInv(b, d)
    BY <2>2, Zenon DEF ConsInv
  <2> QED BY <2>3, Zenon DEF b
<1>3. ASSUME NEW p \in {"compact", "reads"} PROVE ConsInv([c EXCEPT !.pc = p], e)
  <2> DEFINE b == [c EXCEPT !.pc = p]
  <2>1. b = [pc |-> p, snap |-> c.snap, next |-> c.next, upto |-> c.upto, reads |-> c.reads]
    BY <1>1, ConsField, Zenon
  <2> HIDE DEF b
  <2>2. IsCons(b) /\ b.pc = p
    BY <2>1, Zenon DEF IsCons
  <2>3. ConsInv(b, e)
    BY <2>2, Zenon DEF ConsInv
  <2> QED BY <2>3, Zenon DEF b
<1> QED BY <1>2, <1>3, Zenon

(* Publication of an entry: the disk does not change. *)
LEMMA PublishKeeps ==
  ASSUME RInv, NEW n \in Server, PublishWrite(n) \/ PublishEmpty(n) \/ PublishChange(n)
  PROVE  RInv'
<1> DEFINE c == [cons[n] EXCEPT !.next = cons[n].next + 1]
<1>1. cons' = [cons EXCEPT ![n] = c] /\ UNCHANGED <<log, pending, disk, acked>>
  BY Zenon DEF PublishWrite, PublishEmpty, PublishChange, logVars
<1>2. ConsInv(c, disk[n])
  BY ThisServer, ConsMoves, Zenon
<1>3. VolInv(vol'[n], disk[n]) /\ DOMAIN vol' = Server /\ \A m \in Server \ {n} : vol'[m] = vol[m]
  <2>1. CASE vol' = vol
    BY <2>1, ThisServer, Zenon
  <2>2. CASE PublishChange(n) /\ vol' # vol
    <3> DEFINE g == WithChange(log[cons[n].next], vol[n].group)
    <3> DEFINE f == Reconfigure(log[cons[n].next], vol[n].conf)
    <3>1. vol' = [vol EXCEPT ![n].group = g, ![n].conf = f]
      <4>1. vol' = [vol EXCEPT ![n].group = WithChange(log[cons[n].next], @),
                               ![n].conf = Reconfigure(log[cons[n].next], @)]
        BY <2>2, Zenon DEF PublishChange
      <4> QED BY <4>1, ThisServer, Zenon
    <3> HIDE DEF g, f
    <3> DEFINE b == [vol[n] EXCEPT !.group = g]
    <3>2. vol'[n] = [b EXCEPT !.conf = f] /\ DOMAIN vol' = Server /\ \A m \in Server \ {n} : vol'[m] = vol[m]
      BY <3>1, ThisServer, Zenon
    <3>3. b = [applied |-> vol[n].applied, snap |-> vol[n].snap, first |-> vol[n].first,
               group |-> g, conf |-> vol[n].conf]
      BY ThisServer, VolField, Zenon
    <3> HIDE DEF b
    <3>4. IsVol(b) /\ b.applied = vol[n].applied /\ b.snap = vol[n].snap
      BY <3>3, Zenon DEF IsVol
    <3>5. vol'[n] = [applied |-> b.applied, snap |-> b.snap, first |-> b.first, group |-> b.group, conf |-> f]
      BY <3>2, <3>4, VolField, Zenon
    <3>6. IsVol(vol'[n]) /\ vol'[n].applied = vol[n].applied /\ vol'[n].snap = vol[n].snap
      BY <3>4, <3>5 DEF IsVol
    <3> QED BY <3>2, <3>6, ThisServer, Zenon DEF VolInv
  <2> QED BY <2>1, <2>2, Zenon DEF PublishWrite, PublishEmpty
<1> HIDE DEF c
<1>4. cons'[n] = c /\ disk'[n] = disk[n] /\ acked'[n] = acked[n]
  BY <1>1, ThisServer, Zenon
<1>5. OnlyServer(n)
  BY <1>1, <1>3, ThisServer, Zenon DEF OnlyServer
<1>6. ServerInv(vol'[n], c, disk[n], acked[n])
  BY <1>2, <1>3, ThisServer, Zenon DEF ServerInv
<1> QED BY <1>4, <1>5, <1>6, OneServer, Zenon
(* The end of a batch: applied up to what is committed, with a snapshot file *)
(* if one is due.                                                           *)
LEMMA FinishBatchKeeps ==
  ASSUME RInv, NEW n \in Server, FinishBatch(n)
  PROVE  RInv'
<1> DEFINE k == cons[n].upto
<1> DEFINE s == EncodeSnapshot(n, k)
<1> DEFINE v == [vol[n] EXCEPT !.applied = k]
<1>1. cons[n].pc = "publish" /\ UNCHANGED <<log, pending, acked>>
  BY Zenon DEF FinishBatch, logVars
<1>2. k \in Nat /\ k <= disk[n].commit /\ IsSnapshot(vol[n].snap)
  BY <1>1, ThisServer, Zenon DEF ConsInv, VolInv
<1>3. v = [applied |-> k, snap |-> vol[n].snap, first |-> vol[n].first, group |-> vol[n].group,
           conf |-> vol[n].conf]
  <2> HIDE DEF k
  <2> QED BY ThisServer, VolField, Zenon
<1>4. CASE /\ vol' = [vol EXCEPT ![n].applied = k, ![n].snap = s]
           /\ disk' = [disk EXCEPT ![n] = SaveSnap(disk[n], s)]
           /\ cons' = [cons EXCEPT ![n].pc = "compact"]
  <2> DEFINE e == SaveSnap(disk[n], s)
  <2> DEFINE c == [cons[n] EXCEPT !.pc = "compact"]
  <2>1. vol'[n] = [v EXCEPT !.snap = s] /\ cons'[n] = c /\ disk'[n] = e
    BY <1>4, ThisServer, Zenon
  <2>2. IsSnapshot(s)
    BY <1>2, Zenon DEF EncodeSnapshot, IsSnapshot
  <2>3. OnlyServer(n)
    BY <1>1, <1>4, ThisServer, Zenon DEF OnlyServer
  <2> HIDE DEF s, k, v
  <2>4. IsVol(v) /\ v.applied = k
    BY <1>3, Zenon DEF IsVol
  <2>5. vol'[n] = [applied |-> v.applied, snap |-> s, first |-> v.first, group |-> v.group, conf |-> v.conf]
    BY <2>1, <2>4, VolField, Zenon
  <2>6. IsVol(vol'[n]) /\ vol'[n].applied = k /\ vol'[n].snap = s
    BY <2>4, <2>5 DEF IsVol
  <2>7. DiskInv(e) /\ e.commit = disk[n].commit
    BY <2>2, ThisServer, SaveSnapKeeps, Zenon
  <2> HIDE DEF e
  <2>8. VolInv(vol'[n], e)
    BY <1>2, <2>2, <2>6, <2>7, Zenon DEF VolInv
  <2>9. ConsInv(c, e)
    BY ThisServer, ConsMoves, Zenon
  <2> HIDE DEF c
  <2>10. ServerInv(vol'[n], c, e, acked[n])
    BY <2>7, <2>8, <2>9, ThisServer, Zenon DEF ServerInv
  <2> QED BY <1>1, <2>1, <2>3, <2>10, OneServer, Zenon
<1>5. CASE /\ vol' = [vol EXCEPT ![n].applied = k]
           /\ cons' = [cons EXCEPT ![n].pc = "reads"] /\ UNCHANGED disk
  <2> DEFINE c == [cons[n] EXCEPT !.pc = "reads"]
  <2>1. vol'[n] = v /\ cons'[n] = c /\ disk'[n] = disk[n] /\ acked'[n] = acked[n]
    BY <1>1, <1>5, ThisServer, Zenon
  <2>2. OnlyServer(n)
    BY <1>1, <1>5, ThisServer, Zenon DEF OnlyServer
  <2> HIDE DEF k, v
  <2>3. IsVol(v) /\ v.applied = k /\ v.snap = vol[n].snap
    BY <1>3, Zenon DEF IsVol
  <2>4. VolInv(v, disk[n])
    BY <1>2, <2>3, Zenon DEF VolInv
  <2>5. ConsInv(c, disk[n])
    BY ThisServer, ConsMoves, Zenon
  <2> HIDE DEF c
  <2>6. ServerInv(v, c, disk[n], acked[n])
    BY <2>4, <2>5, ThisServer, Zenon DEF ServerInv
  <2> QED BY <2>1, <2>2, <2>6, OneServer, Zenon
<1> QED BY <1>4, <1>5, Zenon DEF FinishBatch

(* The record of a snapshot taken here, and the compaction. *)
LEMMA CompactLogKeeps ==
  ASSUME RInv, NEW n \in Server, CompactLog(n)
  PROVE  RInv'
<1> DEFINE k == vol[n].snap.index
<1> DEFINE e == SaveRecord(disk[n], k)
<1> DEFINE c == [cons[n] EXCEPT !.pc = "reads"]
<1> DEFINE first == CompactedAt(vol[n].applied, vol[n].first)
<1> DEFINE v == [vol[n] EXCEPT !.first = first]
<1>1. UNCHANGED <<log, pending, acked>> /\ vol' = [vol EXCEPT ![n] = v]
      /\ disk' = [disk EXCEPT ![n] = e] /\ cons' = [cons EXCEPT ![n] = c]
  BY Zenon DEF CompactLog, logVars
<1> HIDE DEF first
<1>2. IsSnapshot(vol[n].snap) /\ k \in Nat /\ vol[n].applied \in Nat /\ vol[n].applied <= disk[n].commit
  BY ThisServer, Zenon DEF VolInv, IsSnapshot
<1>3. v = [applied |-> vol[n].applied, snap |-> vol[n].snap, first |-> first, group |-> vol[n].group,
           conf |-> vol[n].conf]
  BY ThisServer, VolField, Zenon
<1> HIDE DEF v, k
<1>4. IsVol(v) /\ v.applied = vol[n].applied /\ v.snap = vol[n].snap
  BY <1>3, Zenon DEF IsVol
<1>5. DiskInv(e) /\ e.commit = disk[n].commit
  BY <1>2, ThisServer, SaveRecordKeeps, Zenon
<1> HIDE DEF e
<1>6. VolInv(v, e)
  BY <1>2, <1>4, <1>5, Zenon DEF VolInv
<1>7. ConsInv(c, e)
  BY ThisServer, ConsMoves, Zenon
<1> HIDE DEF c
<1>8. ServerInv(v, c, e, acked[n])
  BY <1>5, <1>6, <1>7, ThisServer, Zenon DEF ServerInv
<1>9. vol'[n] = v /\ cons'[n] = c /\ disk'[n] = e /\ acked'[n] = acked[n]
  BY <1>1, ThisServer, Zenon
<1>10. OnlyServer(n)
  BY <1>1, ThisServer, Zenon DEF OnlyServer
<1> QED BY <1>8, <1>9, <1>10, OneServer, Zenon
(* Advance: back to waiting for a Ready. *)
LEMMA ReleaseReadsKeeps ==
  ASSUME RInv, NEW n \in Server, ReleaseReads(n)
  PROVE  RInv'
<1>1. cons' = [cons EXCEPT ![n] = Waiting] /\ UNCHANGED <<log, pending, vol, disk, acked>>
  BY Zenon DEF ReleaseReads, logVars
<1>2. ServerInv(vol[n], Waiting, disk[n], acked[n])
  BY ThisServer, WaitingKeeps, Zenon DEF ServerInv
<1>3. vol'[n] = vol[n] /\ cons'[n] = Waiting /\ disk'[n] = disk[n] /\ acked'[n] = acked[n]
  BY <1>1, ThisServer, Zenon
<1>4. OnlyServer(n)
  BY <1>1, ThisServer, Zenon DEF OnlyServer
<1> QED BY <1>2, <1>3, <1>4, OneServer, Zenon

(* A crash at any step, and the restart from what is on disk. *)
LEMMA RestartKeeps ==
  ASSUME RInv, NEW n \in Server, Restart(n)
  PROVE  RInv'
<1> DEFINE s == LoadSnapshot(disk[n])
<1>1. cons' = [cons EXCEPT ![n] = Waiting] /\ vol' = [vol EXCEPT ![n] = Recovered(s)]
      /\ UNCHANGED <<log, pending, disk, acked>>
  BY Zenon DEF Restart, logVars
<1>2. VolInv(Recovered(s), disk[n])
  BY ThisServer, LoadsNewest, RecoveredKeeps, Zenon
<1> HIDE DEF s
<1>3. ServerInv(Recovered(s), Waiting, disk[n], acked[n])
  BY <1>2, ThisServer, WaitingKeeps, Zenon DEF ServerInv
<1>4. vol'[n] = Recovered(s) /\ cons'[n] = Waiting /\ disk'[n] = disk[n] /\ acked'[n] = acked[n]
  BY <1>1, ThisServer, Zenon
<1>5. OnlyServer(n)
  BY <1>1, ThisServer, Zenon DEF OnlyServer
<1> QED BY <1>3, <1>4, <1>5, OneServer, Zenon

-----------------------------------------------------------------------------
(* A new server has nothing on disk and has acknowledged nothing. *)
LEMMA InitRecovery == Init => RInv
<1> SUFFICES ASSUME Init PROVE RInv
  BY Zenon
<1> DEFINE d == [files |-> <<>>, records |-> {}, entries |-> {}, commit |-> 0]
<1>1. DiskInv(d)
  <2>1. Rebuilds(d)
    BY DEF Rebuilds
  <2>2. DOMAIN d.files = {} /\ \A c \in Nat : Usable(d, c) = {}
    BY DEF Usable
  <2> QED BY <2>1, <2>2, Zenon DEF DiskInv
<1>2. IsSnapshot(NoSnapshot) /\ NoSnapshot.index <= d.commit /\ d.commit = 0
  BY DEF NoSnapshot, IsSnapshot
<1> HIDE DEF d
<1>3. VolInv(Recovered(NoSnapshot), d)
  BY <1>2, RecoveredKeeps, Zenon
<1>4. ServerInv(Recovered(NoSnapshot), Waiting, d, 0)
  BY <1>1, <1>2, <1>3, WaitingKeeps DEF ServerInv
<1>5. /\ vol = [n \in Server |-> Recovered(NoSnapshot)] /\ cons = [n \in Server |-> Waiting]
      /\ disk = [n \in Server |-> d] /\ acked = [n \in Server |-> 0]
  BY Zenon DEF Init, d
<1>6. log \in Seq(Writes \cup Changes \cup {Empty}) /\ pending \subseteq Writes \cup Changes
  BY DEF Init
<1> QED BY <1>4, <1>5, <1>6, Zenon DEF RInv

(* Every step keeps the invariant. *)
LEMMA StepRecovery == RInv /\ [Next]_vars => RInv'
<1> SUFFICES ASSUME RInv, [Next]_vars PROVE RInv'
  BY Zenon
<1>1. CASE UNCHANGED vars
  BY <1>1, NoServer, Zenon DEF vars, RInv, logVars
<1>2. CASE Client \/ Library
  BY <1>2, OutsideKeeps, Zenon
<1>3. ASSUME NEW n \in Server, Receive(n) PROVE RInv'
  BY <1>3, ReceiveEntriesKeeps, ReceiveSnapshotKeeps, Zenon DEF Receive
<1>4. ASSUME NEW n \in Server, Consume(n) PROVE RInv'
  BY <1>4, RecordSnapshotKeeps, SaveStateKeeps, HandOffKeeps, PublishKeeps, FinishBatchKeeps,
     CompactLogKeeps, ReleaseReadsKeeps, Zenon DEF Consume
<1>5. ASSUME NEW n \in Server, Execute(n) \/ Untrack(n) \/ \E m \in Server : RefusedByPeer(n, m)
      PROVE  RInv'
  BY <1>5, OutsideKeeps, Zenon
<1>6. ASSUME NEW n \in Server, Restart(n) PROVE RInv'
  BY <1>6, RestartKeeps, Zenon
<1> QED BY <1>1, <1>2, <1>3, <1>4, <1>5, <1>6, Zenon DEF Next

(* Whenever the process ends, what it has told its peers it holds can be    *)
(* rebuilt: the snapshot that loadSnapshot picks and the entries of the     *)
(* write-ahead log leave no gap up to the commit index, at every point      *)
(* between the writes of SaveSnap, wal.SaveSnapshot and wal.Save.           *)
THEOREM RecoveryIsComplete == Spec => []RecoveryHasNoGap
<1>1. RInv => RecoveryHasNoGap
  <2> SUFFICES ASSUME RInv, NEW n \in Server
               PROVE  /\ acked[n] <= disk[n].commit
                      /\ LoadSnapshot(disk[n]).index + 1 .. disk[n].commit \subseteq disk[n].entries
    BY Zenon DEF RecoveryHasNoGap
  <2> DEFINE d == disk[n]
  <2> DEFINE s == LoadSnapshot(d)
  <2>1. DiskInv(d) /\ acked[n] <= d.commit
    BY ThisServer, Zenon
  <2> HIDE DEF d
  <2>2. s.index \in Nat /\ d.commit \in Nat /\ \A b \in Usable(d, d.commit) \cup {0} : b <= s.index
    BY <2>1, LoadsNewest, Zenon DEF IsSnapshot, DiskInv
  <2> HIDE DEF s
  <2>3. PICK b \in Usable(d, d.commit) \cup {0} : b + 1 .. d.commit \subseteq d.entries
    BY <2>1, Zenon DEF DiskInv, Rebuilds
  <2>4. b \in Nat /\ b <= s.index
    BY <2>1, <2>2 DEF Usable, DiskInv
  <2>5. s.index + 1 .. d.commit \subseteq d.entries
    BY <2>2, <2>3, <2>4
  <2> QED BY <2>1, <2>5, Zenon DEF d, s
<1> QED BY <1>1, InitRecovery, StepRecovery, PTL DEF Spec

-----------------------------------------------------------------------------
\* What the log amounts to.

\* removed IDs stay removed and no member is forgotten, from a group to a later one
LaterGroup(g, h) ==
  /\ g.removed \subseteq h.removed
  /\ g.members \subseteq h.members \cup h.removed

\* t is what the entries of l amount to
LogMeans(l, t) ==
  /\ l \in Seq(Writes \cup Changes \cup {Empty})
  /\ t.writes \in Seq(Writes) /\ t.states \in Seq(Seq(Writes)) /\ Len(t.states) = Len(t.writes) + 1
  /\ t.at[0].count = 0 /\ t.at[Len(l)].count = Len(t.writes)
  /\ StateAfter(t, 0) = <<>> /\ GroupAfter(t, 0) = Bootstrapped
  /\ \A i \in 0..Len(l) :
       /\ t.at[i].count \in 0..Len(t.writes)
       /\ GroupAfter(t, i) \in Group
       /\ GroupAfter(t, i).members \cap GroupAfter(t, i).removed = {}
  /\ \A i, j \in 0..Len(l) : i <= j =>
       t.at[i].count <= t.at[j].count /\ LaterGroup(GroupAfter(t, i), GroupAfter(t, j))
  /\ \A i \in 1..Len(l) :
       /\ StateAfter(t, i) = Effect(l[i], StateAfter(t, i - 1))
       /\ GroupAfter(t, i) = Accept(GroupAfter(t, i - 1), l[i])
       /\ l[i] \in Writes => t.writes[t.at[i - 1].count + 1] = l[i] /\ t.at[i].count = t.at[i - 1].count + 1

-----------------------------------------------------------------------------
\* What a server knows of it.

\* a voter that is no member of group i is one later, a member that is no voter is removed later
VotersAt(l, t, i, voters) ==
  /\ voters \subseteq NodeID
  /\ voters \cap GroupAfter(t, i).removed = {}
  /\ \A x \in GroupAfter(t, i).members \ voters : x \in GroupAfter(t, Len(l)).removed
  /\ \A x \in voters \ GroupAfter(t, i).members :
       x \in GroupAfter(t, Len(l)).members \cup GroupAfter(t, Len(l)).removed

SnapshotOf(l, t, s) ==
  /\ IsSnapshot(s) /\ s.index \in 0..Len(l)
  /\ s.app = StateAfter(t, s.index) /\ s.group = GroupAfter(t, s.index)
  /\ VotersAt(l, t, s.index, s.conf)

\* how many entries a server has handed to processCommits or found to need no execution
Done(v, c) == IF c.pc = "publish" THEN c.next - 1 ELSE v.applied

ConsMatches(l, t, v, c) ==
  /\ c.pc \in {"idle", "record", "save", "handoff", "publish", "compact", "reads"}
  /\ SnapshotOf(l, t, c.snap)
  /\ c.reads \subseteq Reads
  /\ c.upto \in 0..Len(l)
  /\ c.pc = "publish" => c.next \in Nat /\ v.applied < c.next /\ c.next <= c.upto + 1
  /\ c.pc \in {"record", "save", "handoff"} => v.applied < c.snap.index

VolMatches(l, t, v, c) ==
  /\ v.applied \in 0..Len(l) /\ v.first \in Nat
  /\ SnapshotOf(l, t, v.snap) /\ v.snap.index <= v.applied
  /\ v.group = GroupAfter(t, Done(v, c)) /\ VotersAt(l, t, Done(v, c), v.conf)

DiskMatches(l, t, d) ==
  /\ d.commit \in 0..Len(l) /\ d.entries \subseteq 1..Len(l)
  /\ \A i \in DOMAIN d.files : SnapshotOf(l, t, d.files[i])

\* what processCommits has and has still to do; no write is published before a restore is done
ExecMatches(l, t, v, c, x, a) ==
  \/ x.kind \in {"idle", "read"} /\ a = StateAfter(t, Done(v, c))
  \/ /\ x.kind = "entry" /\ c.pc = "publish"
     /\ \E i \in 1..Done(v, c) :
          /\ x.id = l[i] /\ l[i] \in Writes
          /\ a = StateAfter(t, i - 1) /\ StateAfter(t, Done(v, c)) = StateAfter(t, i)
  \/ /\ x.kind = "restore" /\ x.app = StateAfter(t, Done(v, c)) /\ a \in Seq(Writes)
     /\ \A i \in v.snap.index + 1 .. Done(v, c) : l[i] \notin Writes

ResultsMatch(l, t, R) ==
  \A y \in R : \E i \in 1..Len(l) : l[i] = y.id /\ y.id \in Writes /\ y.res = StateAfter(t, i - 1)

Matches(l, t, v, c, d, x, a, R) ==
  /\ ConsMatches(l, t, v, c) /\ VolMatches(l, t, v, c) /\ DiskMatches(l, t, d)
  /\ ExecMatches(l, t, v, c, x, a) /\ ResultsMatch(l, t, R)

(* The inductive invariant on the servers. *)
MInv ==
  /\ LogMeans(log, meaning)
  /\ run \in [Server -> {"up", "stopped"}]
  /\ DOMAIN exec = Server /\ DOMAIN app = Server /\ DOMAIN results = Server
  /\ \A n \in Server : Matches(log, meaning, vol[n], cons[n], disk[n], exec[n], app[n], results[n])

(* Between two writes fewer entries are committed than a snapshot covers. *)
BurstsAreShort ==
  \A i, j \in 0..Len(log) :
    (\A k \in i + 1 .. j : log[k] \notin Writes) => j < i + SnapshotInterval

-----------------------------------------------------------------------------
\* One more entry.

(* A change keeps the IDs of a group apart and forgets none. *)
LEMMA AcceptKeeps ==
  ASSUME NEW g \in Group, g.members \cap g.removed = {}, NEW e
  PROVE  /\ Accept(g, e) \in Group /\ Accept(g, e).members \cap Accept(g, e).removed = {}
         /\ LaterGroup(g, Accept(g, e))
<1>1. CASE Accept(g, e) = g
  BY <1>1, Zenon DEF LaterGroup
<1>2. CASE e \in Changes /\ ValidConfChange(e, g.members, g.removed) /\ Accept(g, e) = WithChange(e, g)
  <2>1. e.node \in NodeID /\ e.type \in {"add", "remove"}
    BY <1>2, ChangesAreChanges, Zenon
  <2>2. g.members \subseteq NodeID /\ g.removed \subseteq NodeID
    BY Zenon DEF Group
  <2>3. CASE e.type = "add"
    <3>1. WithChange(e, g) = [members |-> g.members \cup {e.node}, removed |-> g.removed]
      BY <2>3, Zenon DEF WithChange, Reconfigure
    <3> QED BY <1>2, <2>1, <2>2, <3>1 DEF LaterGroup, Group, ValidConfChange
  <2>4. CASE e.type = "remove"
    <3>1. WithChange(e, g) = [members |-> g.members \ {e.node}, removed |-> g.removed \cup {e.node}]
      BY <2>4, Zenon DEF WithChange, Reconfigure
    <3> QED BY <1>2, <2>1, <2>2, <3>1 DEF LaterGroup, Group
  <2> QED BY <2>1, <2>3, <2>4, Zenon
<1> QED BY <1>1, <1>2, Zenon DEF Accept

\* (m, u) is (l, t) with more entries
Grows(l, t, m, u) ==
  /\ Len(l) \in Nat /\ Len(m) \in Nat /\ Len(l) <= Len(m)
  /\ \A i \in 1..Len(l) : m[i] = l[i]
  /\ \A i \in 0..Len(l) : StateAfter(u, i) = StateAfter(t, i) /\ GroupAfter(u, i) = GroupAfter(t, i)
  /\ LaterGroup(GroupAfter(t, Len(l)), GroupAfter(u, Len(m)))

(* An index within a range that grows. *)
LEMMA Within ==
  ASSUME NEW b \in Nat, NEW c \in Nat, b <= c, NEW a \in 0..b
  PROVE  a \in 0..c /\ a <= c
OBVIOUS

(* The positions up to k in a log of length at least k. *)
LEMMA InPrefix ==
  ASSUME NEW n \in Nat, NEW k \in 0..n
  PROVE  \A i \in 1..k : i \in 1..n /\ i \in 0..n /\ i - 1 \in 0..n
OBVIOUS

(* The positions after b up to k in such a log. *)
LEMMA InSuffix ==
  ASSUME NEW n \in Nat, NEW k \in 0..n, NEW b \in Nat
  PROVE  \A i \in b + 1 .. k : i \in 1..n
OBVIOUS

(* The positions after b up to k + 1. *)
LEMMA SuffixGrows ==
  ASSUME NEW n \in Nat, NEW k \in 0..n, NEW b \in Nat
  PROVE  \A i \in b + 1 .. k + 1 : i \in b + 1 .. k \/ i = k + 1
OBVIOUS

(* An index no greater than one within a range. *)
LEMMA SmallerWithin ==
  ASSUME NEW n \in Nat, NEW k \in 0..n, NEW b \in Nat, b <= k
  PROVE  b \in 0..n
OBVIOUS

(* A log has a length. *)
LEMMA LogLength ==
  ASSUME NEW l, NEW t, LogMeans(l, t)
  PROVE  Len(l) \in Nat /\ 0 \in 0..Len(l)
<1>1. l \in Seq(Writes \cup Changes \cup {Empty})
  BY Zenon DEF LogMeans
<1>2. Len(l) \in Nat
  BY <1>1
<1> QED BY <1>2

(* The empty log. *)
LEMMA EmptyLogMeans == LogMeans(<<>>, Meaningless)
<1> DEFINE t == Meaningless
<1>1. t.writes = <<>> /\ t.states = << <<>> >> /\ t.at[0] = [count |-> 0, group |-> Bootstrapped]
  BY Zenon DEF Meaningless
<1> HIDE DEF t
<1>2. t.at[0].count = 0 /\ GroupAfter(t, 0) = Bootstrapped
  BY <1>1 DEF GroupAfter
<1>3. StateAfter(t, 0) = <<>>
  BY <1>1, <1>2 DEF StateAfter
<1>4. /\ GroupAfter(t, 0) \in Group /\ GroupAfter(t, 0).members \cap GroupAfter(t, 0).removed = {}
      /\ LaterGroup(GroupAfter(t, 0), GroupAfter(t, 0))
  BY <1>2, ServersArePeers DEF Bootstrapped, Group, LaterGroup
<1>5. t.writes \in Seq(Writes) /\ t.states \in Seq(Seq(Writes)) /\ Len(t.writes) = 0 /\ Len(t.states) = 1
  BY <1>1
<1> DEFINE l == <<>>
<1>6. l \in Seq(Writes \cup Changes \cup {Empty}) /\ Len(l) = 0
  OBVIOUS
<1> HIDE DEF l
<1>7. LogMeans(l, t)
  BY <1>2, <1>3, <1>4, <1>5, <1>6 DEF LogMeans
<1> QED BY <1>7, Zenon DEF l, t

(* One more entry extends what the log amounts to and keeps what it did. *)
LEMMA LogGrows ==
  ASSUME NEW l, NEW t, LogMeans(l, t), NEW e \in Writes \cup Changes \cup {Empty}
  PROVE  /\ LogMeans(Append(l, e), Extended(t, Len(l), e))
         /\ Grows(l, t, Append(l, e), Extended(t, Len(l), e))
<1> DEFINE m == Append(l, e)
<1> DEFINE u == Extended(t, Len(l), e)
<1> DEFINE k == Len(l)
<1> DEFINE b == t.at[k].count
<1> DEFINE g == t.at[k].group
<1>1. /\ l \in Seq(Writes \cup Changes \cup {Empty}) /\ k \in Nat
      /\ m \in Seq(Writes \cup Changes \cup {Empty}) /\ Len(m) = k + 1
      /\ m[k + 1] = e /\ \A i \in 1..k : m[i] = l[i]
  BY DEF LogMeans
<1>2. /\ t.writes \in Seq(Writes) /\ t.states \in Seq(Seq(Writes)) /\ Len(t.writes) \in Nat
      /\ Len(t.states) = b + 1 /\ Len(t.writes) = b /\ b \in Nat
  BY DEF LogMeans
<1>3. /\ u.writes = IF e \in Writes THEN Append(t.writes, e) ELSE t.writes
      /\ u.states = IF e \in Writes THEN Append(t.states, Effect(e, t.states[b + 1])) ELSE t.states
      /\ \A i \in 0..k : u.at[i] = t.at[i]
      /\ u.at[k + 1] = [count |-> IF e \in Writes THEN b + 1 ELSE b, group |-> Accept(g, e)]
  BY <1>1 DEF Extended
<1> HIDE DEF m, u, k, b, g
<1>4. u.at[k + 1].count = (IF e \in Writes THEN b + 1 ELSE b) /\ u.at[k + 1].group = Accept(g, e)
  BY <1>3
<1>5. t.states[b + 1] \in Seq(Writes) /\ Effect(e, t.states[b + 1]) \in Seq(Writes)
  <2>1. t.states[b + 1] \in Seq(Writes)
    BY <1>2
  <2> HIDE DEF b
  <2> QED BY <2>1 DEF Effect
<1>6. /\ u.writes \in Seq(Writes) /\ u.states \in Seq(Seq(Writes)) /\ Len(u.writes) \in Nat
      /\ Len(u.writes) = u.at[k + 1].count /\ Len(u.states) = Len(u.writes) + 1 /\ b <= Len(u.writes)
      /\ \A j \in 1..b : u.writes[j] = t.writes[j]
      /\ \A j \in 1..b + 1 : u.states[j] = t.states[j]
      /\ e \in Writes => /\ u.writes[b + 1] = e /\ u.states[b + 2] = Effect(e, t.states[b + 1])
  <2>1. CASE e \in Writes
    <3>1. u.writes = Append(t.writes, e) /\ u.states = Append(t.states, Effect(e, t.states[b + 1]))
          /\ u.at[k + 1].count = b + 1
      BY <1>3, <1>4, <2>1, Zenon
    <3> DEFINE f == Effect(e, t.states[b + 1])
    <3> HIDE DEF f
    <3>2. f \in Seq(Writes)
      BY <1>5, Zenon DEF f
    <3>3. u.states = Append(t.states, f)
      BY <3>1, Zenon DEF f
    <3>4. u.writes \in Seq(Writes) /\ Len(u.writes) = b + 1 /\ u.writes[b + 1] = e
          /\ \A j \in 1..b : u.writes[j] = t.writes[j]
      BY <1>2, <2>1, <3>1
    <3>5. u.states \in Seq(Seq(Writes)) /\ Len(u.states) = b + 2 /\ u.states[b + 2] = f
          /\ \A j \in 1..b + 1 : u.states[j] = t.states[j]
      BY <1>2, <3>2, <3>3
    <3> QED BY <1>2, <3>1, <3>4, <3>5 DEF f
  <2>2. CASE e \notin Writes
    BY <1>2, <1>3, <1>4, <2>2
  <2> QED BY <2>1, <2>2, Zenon
<1>7. \A i \in 0..k : u.at[i] = t.at[i] /\ t.at[i].count \in 0..b
  BY <1>2, <1>3, Zenon DEF LogMeans, k
<1>8. \A i \in 0..k : StateAfter(u, i) = StateAfter(t, i) /\ GroupAfter(u, i) = GroupAfter(t, i)
  <2> SUFFICES ASSUME NEW i \in 0..k
               PROVE  StateAfter(u, i) = StateAfter(t, i) /\ GroupAfter(u, i) = GroupAfter(t, i)
    BY Zenon
  <2> DEFINE c == t.at[i].count
  <2>1. u.at[i] = t.at[i] /\ c \in 0..b
    BY <1>7, Zenon
  <2>2. u.states[c + 1] = t.states[c + 1]
    <3> HIDE DEF c
    <3> QED BY <1>2, <1>6, <2>1
  <2> QED BY <2>1, <2>2, Zenon DEF StateAfter, GroupAfter
<1>9. StateAfter(u, k + 1) = Effect(e, StateAfter(u, k)) /\ GroupAfter(u, k + 1) = Accept(GroupAfter(u, k), e)
  <2>1. StateAfter(t, k) = t.states[b + 1] /\ GroupAfter(t, k) = g
    BY Zenon DEF StateAfter, GroupAfter, b, g
  <2>2. StateAfter(u, k) = t.states[b + 1] /\ GroupAfter(u, k) = g
    BY <1>1, <1>8, <2>1
  <2>3. CASE e \in Writes
    <3>1. u.at[k + 1].count + 1 = b + 2
      BY <1>2, <1>4, <2>3
    <3> QED BY <1>4, <1>6, <2>2, <2>3, <3>1, Zenon DEF StateAfter, GroupAfter
  <2>4. CASE e \notin Writes
    <3>1. u.at[k + 1].count + 1 = b + 1 /\ u.states = t.states
      BY <1>3, <1>4, <2>4, Zenon
    <3>2. Effect(e, t.states[b + 1]) = t.states[b + 1]
      BY <2>4, Zenon DEF Effect
    <3> QED BY <1>4, <2>2, <3>1, <3>2, Zenon DEF StateAfter, GroupAfter
  <2> QED BY <2>3, <2>4, Zenon
<1>10. \A i \in 0..k : /\ t.at[i].count \in 0..b /\ t.at[i].count <= b
                        /\ GroupAfter(t, i) \in Group
                        /\ GroupAfter(t, i).members \cap GroupAfter(t, i).removed = {}
                        /\ LaterGroup(GroupAfter(t, i), GroupAfter(t, k))
  BY <1>1, <1>2, <1>7 DEF LogMeans, k
<1>11. /\ GroupAfter(u, k + 1) \in Group
       /\ GroupAfter(u, k + 1).members \cap GroupAfter(u, k + 1).removed = {}
       /\ LaterGroup(GroupAfter(u, k), GroupAfter(u, k + 1))
  <2>1. k \in 0..k
    BY <1>1
  <2>2. GroupAfter(u, k) = GroupAfter(t, k)
    BY <1>8, <2>1, Zenon
  <2> QED BY <1>9, <1>10, <2>1, <2>2, AcceptKeeps, Zenon
<1>12. \A i \in 0..k : LaterGroup(GroupAfter(u, i), GroupAfter(u, k + 1))
  <2>1. GroupAfter(u, k) = GroupAfter(t, k)
    BY <1>1, <1>8
  <2> QED BY <1>8, <1>10, <1>11, <2>1, Zenon DEF LaterGroup
<1>13. \A i \in 0..k + 1 : i \in 0..k \/ i = k + 1
  BY <1>1
<1>14. \A i \in 0..k + 1 : /\ u.at[i].count \in 0..Len(u.writes)
                            /\ GroupAfter(u, i) \in Group
                            /\ GroupAfter(u, i).members \cap GroupAfter(u, i).removed = {}
  <2>1. \A i \in 0..k : u.at[i].count \in 0..Len(u.writes)
    BY <1>2, <1>6, <1>7, Within, Zenon
  <2>2. u.at[k + 1].count \in 0..Len(u.writes)
    BY <1>6
  <2> QED BY <1>8, <1>10, <1>11, <1>13, <2>1, <2>2, Zenon
<1>15. \A i, j \in 0..k + 1 : i <= j =>
         u.at[i].count <= u.at[j].count /\ LaterGroup(GroupAfter(u, i), GroupAfter(u, j))
  <2> SUFFICES ASSUME NEW i \in 0..k + 1, NEW j \in 0..k + 1, i <= j
               PROVE  u.at[i].count <= u.at[j].count /\ LaterGroup(GroupAfter(u, i), GroupAfter(u, j))
    BY Zenon
  <2>1. CASE j \in 0..k
    <3>1. i \in 0..k
      BY <1>1, <2>1
    <3>2. t.at[i].count <= t.at[j].count /\ LaterGroup(GroupAfter(t, i), GroupAfter(t, j))
      BY <2>1, <3>1, Zenon DEF LogMeans, k
    <3> QED BY <1>7, <1>8, <2>1, <3>1, <3>2, Zenon
  <2>2. CASE i \in 0..k /\ j = k + 1
    <3>1. u.at[i].count <= Len(u.writes)
      BY <1>2, <1>6, <1>7, <2>2, Within, Zenon
    <3> QED BY <1>6, <1>12, <2>2, <3>1, Zenon
  <2>3. CASE i = k + 1 /\ j = k + 1
    BY <1>6, <2>3 DEF LaterGroup
  <2> QED BY <1>13, <2>1, <2>2, <2>3, Zenon
<1>16. \A i \in 1..k + 1 :
         /\ StateAfter(u, i) = Effect(m[i], StateAfter(u, i - 1))
         /\ GroupAfter(u, i) = Accept(GroupAfter(u, i - 1), m[i])
         /\ m[i] \in Writes => u.writes[u.at[i - 1].count + 1] = m[i] /\ u.at[i].count = u.at[i - 1].count + 1
  <2> SUFFICES ASSUME NEW i \in 1..k + 1
        PROVE /\ StateAfter(u, i) = Effect(m[i], StateAfter(u, i - 1))
              /\ GroupAfter(u, i) = Accept(GroupAfter(u, i - 1), m[i])
              /\ m[i] \in Writes => u.writes[u.at[i - 1].count + 1] = m[i] /\ u.at[i].count = u.at[i - 1].count + 1
    BY Zenon
  <2>1. CASE i \in 1..k
    <3>1. i \in 0..k /\ i - 1 \in 0..k /\ m[i] = l[i]
      BY <1>1, <2>1
    <3>2. /\ StateAfter(t, i) = Effect(l[i], StateAfter(t, i - 1))
          /\ GroupAfter(t, i) = Accept(GroupAfter(t, i - 1), l[i])
          /\ l[i] \in Writes => t.writes[t.at[i - 1].count + 1] = l[i] /\ t.at[i].count = t.at[i - 1].count + 1
      BY <2>1, Zenon DEF LogMeans, k
    <3>3. u.at[i] = t.at[i] /\ u.at[i - 1] = t.at[i - 1] /\ t.at[i].count \in 0..b /\ t.at[i - 1].count \in 0..b
      BY <1>7, <3>1, Zenon
    <3>4. l[i] \in Writes => u.writes[t.at[i - 1].count + 1] = t.writes[t.at[i - 1].count + 1]
      <4> SUFFICES ASSUME l[i] \in Writes
                   PROVE  u.writes[t.at[i - 1].count + 1] = t.writes[t.at[i - 1].count + 1]
        BY Zenon
      <4>1. t.at[i - 1].count + 1 \in 1..b
        BY <1>2, <3>2, <3>3
      <4> QED BY <1>6, <4>1, Zenon
    <3> QED BY <1>8, <3>1, <3>2, <3>3, <3>4, Zenon
  <2>2. CASE i = k + 1
    <3>1. m[i] = e /\ i - 1 = k
      BY <1>1, <2>2
    <3>2. u.at[k].count = b
      BY <1>1, <1>7 DEF b
    <3> QED BY <1>4, <1>6, <1>9, <2>2, <3>1, <3>2, Zenon
  <2> QED BY <1>1, <2>1, <2>2
<1>17. u.at[0].count = 0 /\ StateAfter(u, 0) = <<>> /\ GroupAfter(u, 0) = Bootstrapped
  BY <1>1, <1>7, <1>8 DEF LogMeans
<1>18. LogMeans(m, u)
  BY <1>1, <1>6, <1>14, <1>15, <1>16, <1>17, Zenon DEF LogMeans
<1>19. Grows(l, t, m, u)
  <2>1. GroupAfter(u, k) = GroupAfter(t, k)
    BY <1>1, <1>8
  <2> QED BY <1>1, <1>8, <1>11, <2>1 DEF Grows, k
<1> QED BY <1>18, <1>19, Zenon DEF m, u, k

(* What has been handed over is between what is applied and what is committed. *)
LEMMA DoneInLog ==
  ASSUME NEW l, NEW t, NEW v, NEW c, Len(l) \in Nat, ConsMatches(l, t, v, c), VolMatches(l, t, v, c)
  PROVE  Done(v, c) \in 0..Len(l) /\ Done(v, c) \in Nat /\ v.applied \in Nat /\ v.applied <= Done(v, c)
<1> DEFINE a == v.applied
<1> DEFINE x == c.next
<1> DEFINE k == c.upto
<1> DEFINE L == Len(l)
<1>1. a \in 0..L /\ k \in 0..L /\ L \in Nat
  BY Zenon DEF ConsMatches, VolMatches
<1>2. c.pc = "publish" => x \in Nat /\ a < x /\ x <= k + 1
  BY Zenon DEF ConsMatches
<1>3. Done(v, c) = IF c.pc = "publish" THEN x - 1 ELSE a
  BY Zenon DEF Done
<1> HIDE DEF a, x, k, L
<1>4. Done(v, c) \in 0..L /\ Done(v, c) \in Nat /\ a \in Nat /\ a <= Done(v, c)
  BY <1>1, <1>2, <1>3
<1> QED BY <1>4, Zenon DEF a, L

(* Voters and snapshots stay true of a longer log. *)
LEMMA VotersGrow ==
  ASSUME NEW l, NEW t, NEW m, NEW u, Grows(l, t, m, u), NEW i \in 0..Len(l), NEW V, VotersAt(l, t, i, V)
  PROVE  VotersAt(m, u, i, V)
<1>1. GroupAfter(u, i) = GroupAfter(t, i) /\ LaterGroup(GroupAfter(t, Len(l)), GroupAfter(u, Len(m)))
  BY Zenon DEF Grows
<1> QED BY <1>1, Zenon DEF VotersAt, LaterGroup

LEMMA SnapshotGrows ==
  ASSUME NEW l, NEW t, NEW m, NEW u, Grows(l, t, m, u), NEW s, SnapshotOf(l, t, s)
  PROVE  SnapshotOf(m, u, s)
<1>1. s.index \in 0..Len(l) /\ VotersAt(l, t, s.index, s.conf)
  BY Zenon DEF SnapshotOf
<1>2. VotersAt(m, u, s.index, s.conf)
  BY <1>1, VotersGrow, Zenon
<1>3. s.index \in 0..Len(m)
  BY <1>1, Within, Zenon DEF Grows
<1>4. StateAfter(u, s.index) = StateAfter(t, s.index) /\ GroupAfter(u, s.index) = GroupAfter(t, s.index)
  BY <1>1, Zenon DEF Grows
<1> QED BY <1>2, <1>3, <1>4, Zenon DEF SnapshotOf

(* So does all that a server knows. *)
LEMMA MatchesGrow ==
  ASSUME NEW l, NEW t, NEW m, NEW u, Grows(l, t, m, u),
         NEW v, NEW c, NEW d, NEW x, NEW a, NEW R, Matches(l, t, v, c, d, x, a, R)
  PROVE  Matches(m, u, v, c, d, x, a, R)
<1>1. /\ ConsMatches(l, t, v, c) /\ VolMatches(l, t, v, c) /\ DiskMatches(l, t, d)
      /\ ExecMatches(l, t, v, c, x, a) /\ ResultsMatch(l, t, R)
  BY Zenon DEF Matches
<1>2. Len(l) \in Nat /\ Len(m) \in Nat /\ Len(l) <= Len(m) /\ \A i \in 1..Len(l) : m[i] = l[i]
  BY Zenon DEF Grows
<1>3. \A i \in 0..Len(l) : StateAfter(u, i) = StateAfter(t, i) /\ GroupAfter(u, i) = GroupAfter(t, i)
  BY Zenon DEF Grows
<1>4. Done(v, c) \in 0..Len(l) /\ Done(v, c) \in Nat
  BY <1>1, <1>2, DoneInLog, Zenon
<1>5. ConsMatches(m, u, v, c)
  <2>1. SnapshotOf(m, u, c.snap)
    BY <1>1, SnapshotGrows, Zenon DEF ConsMatches
  <2>2. c.upto \in 0..Len(m)
    BY <1>1, <1>2, Within, Zenon DEF ConsMatches
  <2> QED BY <1>1, <2>1, <2>2, Zenon DEF ConsMatches
<1>6. VolMatches(m, u, v, c)
  <2>1. SnapshotOf(m, u, v.snap) /\ v.applied \in 0..Len(m)
    BY <1>1, <1>2, SnapshotGrows, Within, Zenon DEF VolMatches
  <2>2. GroupAfter(u, Done(v, c)) = GroupAfter(t, Done(v, c)) /\ VotersAt(m, u, Done(v, c), v.conf)
    BY <1>1, <1>3, <1>4, VotersGrow, Zenon DEF VolMatches
  <2> QED BY <1>1, <2>1, <2>2, Zenon DEF VolMatches
<1>7. DiskMatches(m, u, d)
  <2>1. d.commit \in 0..Len(m)
    BY <1>1, <1>2, Within, Zenon DEF DiskMatches
  <2>2. 1..Len(l) \subseteq 1..Len(m)
    BY <1>2
  <2> QED BY <1>1, <2>1, <2>2, SnapshotGrows, Zenon DEF DiskMatches
<1>8. ExecMatches(m, u, v, c, x, a)
  <2> DEFINE k == Done(v, c)
  <2>1. StateAfter(u, k) = StateAfter(t, k)
    BY <1>3, <1>4, Zenon
  <2>2. CASE x.kind \in {"idle", "read"} /\ a = StateAfter(t, k)
    BY <2>1, <2>2, Zenon DEF ExecMatches
  <2>3. CASE /\ x.kind = "entry" /\ c.pc = "publish"
             /\ \E i \in 1..k : /\ x.id = l[i] /\ l[i] \in Writes
                                /\ a = StateAfter(t, i - 1) /\ StateAfter(t, k) = StateAfter(t, i)
    <3>1. PICK i \in 1..k : /\ x.id = l[i] /\ l[i] \in Writes
                            /\ a = StateAfter(t, i - 1) /\ StateAfter(t, k) = StateAfter(t, i)
      BY <2>3, Zenon
    <3>2. i \in 1..Len(l) /\ i \in 0..Len(l) /\ i - 1 \in 0..Len(l)
      BY <1>2, <1>4, <3>1, InPrefix, Zenon
    <3>3. m[i] = l[i] /\ StateAfter(u, i) = StateAfter(t, i) /\ StateAfter(u, i - 1) = StateAfter(t, i - 1)
      BY <1>2, <1>3, <3>2, Zenon
    <3> HIDE DEF k
    <3>4. \E j \in 1..k : /\ x.id = m[j] /\ m[j] \in Writes
                          /\ a = StateAfter(u, j - 1) /\ StateAfter(u, k) = StateAfter(u, j)
      BY <2>1, <3>1, <3>3, Zenon
    <3> QED BY <2>3, <3>4, Zenon DEF ExecMatches, k
  <2>4. CASE /\ x.kind = "restore" /\ x.app = StateAfter(t, k) /\ a \in Seq(Writes)
             /\ \A i \in v.snap.index + 1 .. k : l[i] \notin Writes
    <3>1. v.snap.index \in Nat
      BY <1>1, Zenon DEF VolMatches, SnapshotOf, IsSnapshot
    <3> DEFINE b == v.snap.index
    <3> HIDE DEF b
    <3>2. \A i \in b + 1 .. k : i \in 1..Len(l)
      BY <1>2, <1>4, <3>1, InSuffix, Zenon DEF b
    <3>3. \A i \in b + 1 .. k : m[i] \notin Writes
      BY <1>2, <2>4, <3>2, Zenon DEF b
    <3> QED BY <2>1, <2>4, <3>3, Zenon DEF ExecMatches, b
  <2> QED BY <1>1, <2>2, <2>3, <2>4, Zenon DEF ExecMatches
<1>9. ResultsMatch(m, u, R)
  <2> SUFFICES ASSUME NEW y \in R
               PROVE  \E i \in 1..Len(m) : m[i] = y.id /\ y.id \in Writes /\ y.res = StateAfter(u, i - 1)
    BY Zenon DEF ResultsMatch
  <2>1. PICK i \in 1..Len(l) : l[i] = y.id /\ y.id \in Writes /\ y.res = StateAfter(t, i - 1)
    BY <1>1, Zenon DEF ResultsMatch
  <2>2. i \in 1..Len(m) /\ i - 1 \in 0..Len(l)
    BY <1>2
  <2>3. m[i] = l[i] /\ StateAfter(u, i - 1) = StateAfter(t, i - 1)
    BY <1>2, <1>3, <2>2, Zenon
  <2> QED BY <2>1, <2>2, <2>3, Zenon
<1> QED BY <1>5, <1>6, <1>7, <1>8, <1>9, Zenon DEF Matches

-----------------------------------------------------------------------------
\* Steps of one server.

\* server m is as it was
Same(m) ==
  /\ vol'[m] = vol[m] /\ cons'[m] = cons[m] /\ disk'[m] = disk[m]
  /\ exec'[m] = exec[m] /\ app'[m] = app[m] /\ results'[m] = results[m]

(* A step that leaves the log, seen server by server. *)
LEMMA ServersMatch ==
  ASSUME MInv, UNCHANGED logVars, run' \in [Server -> {"up", "stopped"}],
         DOMAIN exec' = Server, DOMAIN app' = Server, DOMAIN results' = Server,
         \A n \in Server :
           \/ Same(n)
           \/ Matches(log, meaning, vol'[n], cons'[n], disk'[n], exec'[n], app'[n], results'[n])
  PROVE  MInv'
<1>1. log' = log /\ meaning' = meaning
  BY Zenon DEF logVars
<1>2. LogMeans(log', meaning')
  BY <1>1, Zenon DEF MInv
<1>3. ASSUME NEW n \in Server
      PROVE  Matches(log', meaning', vol'[n], cons'[n], disk'[n], exec'[n], app'[n], results'[n])
  <2>1. Matches(log, meaning, vol[n], cons[n], disk[n], exec[n], app[n], results[n])
    BY Zenon DEF MInv
  <2>2. CASE Same(n)
    BY <1>1, <2>1, <2>2, Zenon DEF Same
  <2>3. CASE Matches(log, meaning, vol'[n], cons'[n], disk'[n], exec'[n], app'[n], results'[n])
    BY <1>1, <2>3, Zenon
  <2> QED BY <2>2, <2>3, Zenon
<1> QED BY <1>2, <1>3, Zenon DEF MInv

(* The server of a step, before it. *)
LEMMA ThisMatch ==
  ASSUME MInv, NEW n \in Server
  PROVE  /\ LogMeans(log, meaning) /\ Len(log) \in Nat
         /\ log \in Seq(Writes \cup Changes \cup {Empty})
         /\ ConsMatches(log, meaning, vol[n], cons[n]) /\ VolMatches(log, meaning, vol[n], cons[n])
         /\ DiskMatches(log, meaning, disk[n])
         /\ ExecMatches(log, meaning, vol[n], cons[n], exec[n], app[n])
         /\ ResultsMatch(log, meaning, results[n])
         /\ DOMAIN exec = Server /\ DOMAIN app = Server /\ DOMAIN results = Server
         /\ run \in [Server -> {"up", "stopped"}]
<1>1. LogMeans(log, meaning) /\ Matches(log, meaning, vol[n], cons[n], disk[n], exec[n], app[n], results[n])
      /\ DOMAIN exec = Server /\ DOMAIN app = Server /\ DOMAIN results = Server
      /\ run \in [Server -> {"up", "stopped"}]
  BY Zenon DEF MInv
<1>2. log \in Seq(Writes \cup Changes \cup {Empty})
  BY <1>1, Zenon DEF LogMeans
<1>3. Len(log) \in Nat
  BY <1>2
<1> QED BY <1>1, <1>2, <1>3, Zenon DEF Matches

(* The requests, the refusals of the transport, and what leaves every server. *)
LEMMA RequestsMatch ==
  ASSUME MInv, UNCHANGED <<logVars, vol, cons, disk, exec, app, results>>,
         run' \in [Server -> {"up", "stopped"}]
  PROVE  MInv'
<1>1. \A n \in Server : Same(n)
  BY Zenon DEF Same
<1>2. DOMAIN exec' = Server /\ DOMAIN app' = Server /\ DOMAIN results' = Server
  BY Zenon DEF MInv
<1> QED BY <1>1, <1>2, ServersMatch, Zenon

(* The group commits an entry. *)
LEMMA CommitMatches ==
  ASSUME MInv, RInv, NEW e \in pending \cup {Empty}, Commit(e)
  PROVE  MInv'
<1>1. /\ log' = Append(log, e) /\ meaning' = Extended(meaning, Len(log), e)
      /\ UNCHANGED <<run, cons, vol, disk, app, exec, results>>
  BY Zenon DEF Commit
<1>2. e \in Writes \cup Changes \cup {Empty}
  BY Zenon DEF RInv
<1>3. LogMeans(log', meaning') /\ Grows(log, meaning, log', meaning')
  BY <1>1, <1>2, LogGrows, Zenon DEF MInv
<1>4. ASSUME NEW n \in Server
      PROVE  Matches(log', meaning', vol'[n], cons'[n], disk'[n], exec'[n], app'[n], results'[n])
  <2>1. Matches(log, meaning, vol[n], cons[n], disk[n], exec[n], app[n], results[n])
    BY Zenon DEF MInv
  <2>2. Matches(log', meaning', vol[n], cons[n], disk[n], exec[n], app[n], results[n])
    BY <1>3, <2>1, MatchesGrow, Zenon
  <2> QED BY <1>1, <2>2, Zenon
<1> QED BY <1>1, <1>3, <1>4, Zenon DEF MInv

(* A state of the log is a sequence of writes. *)
LEMMA StateIsWrites ==
  ASSUME NEW l, NEW t, LogMeans(l, t), NEW i \in 0..Len(l)
  PROVE  StateAfter(t, i) \in Seq(Writes)
<1> DEFINE c == t.at[i].count
<1>1. c \in 0..Len(t.writes) /\ Len(t.writes) \in Nat /\ t.states \in Seq(Seq(Writes))
      /\ Len(t.states) = Len(t.writes) + 1
  BY DEF LogMeans
<1> HIDE DEF c
<1>2. c + 1 \in 1..Len(t.states)
  BY <1>1
<1>3. t.states[c + 1] \in Seq(Writes)
  BY <1>1, <1>2
<1> QED BY <1>3, Zenon DEF StateAfter, c

(* A read is handed to processCommits. *)
LEMMA SubmitReadMatches ==
  ASSUME MInv, NEW r, SubmitRead(r)
  PROVE  MInv'
<1> DEFINE n == req[r].at
<1>1. /\ exec[n] = Idle /\ exec' = [exec EXCEPT ![n] = [kind |-> "read", id |-> r]]
      /\ UNCHANGED <<logVars, run, vol, cons, disk, app, results>>
  BY Zenon DEF SubmitRead
<1> HIDE DEF n
<1>2. DOMAIN exec' = Server /\ DOMAIN app' = Server /\ DOMAIN results' = Server
      /\ run' \in [Server -> {"up", "stopped"}]
  BY <1>1, Zenon DEF MInv
<1>3. ASSUME NEW m \in Server
      PROVE  \/ Same(m)
             \/ Matches(log, meaning, vol'[m], cons'[m], disk'[m], exec'[m], app'[m], results'[m])
  <2>1. CASE m # n
    BY <1>1, <2>1, Zenon DEF MInv, Same
  <2>2. CASE m = n
    <3>1. exec'[m] = [kind |-> "read", id |-> r]
      BY <1>1, <2>2, ThisMatch, Zenon
    <3>2. exec'[m].kind = "read"
      BY <3>1
    <3>3. exec[m].kind = "idle"
      BY <1>1, <2>2 DEF Idle
    <3>4. ExecMatches(log, meaning, vol[m], cons[m], exec'[m], app[m])
      BY <3>2, <3>3, ThisMatch, Zenon DEF ExecMatches
    <3>5. Matches(log, meaning, vol[m], cons[m], disk[m], exec'[m], app[m], results[m])
      BY <3>4, ThisMatch, Zenon DEF Matches
    <3> QED BY <1>1, <3>5, Zenon
  <2> QED BY <2>1, <2>2, Zenon
<1> QED BY <1>1, <1>2, <1>3, ServersMatch, Zenon

\* server n is the only one to take a step
Alone(n) ==
  /\ UNCHANGED logVars /\ run' \in [Server -> {"up", "stopped"}]
  /\ DOMAIN exec' = Server /\ DOMAIN app' = Server /\ DOMAIN results' = Server
  /\ \A m \in Server \ {n} : Same(m)

(* A step of one server. *)
LEMMA OneMatches ==
  ASSUME MInv, NEW n \in Server, Alone(n),
         ConsMatches(log, meaning, vol'[n], cons'[n]), VolMatches(log, meaning, vol'[n], cons'[n]),
         DiskMatches(log, meaning, disk'[n]),
         ExecMatches(log, meaning, vol'[n], cons'[n], exec'[n], app'[n]),
         ResultsMatch(log, meaning, results'[n])
  PROVE  MInv'
<1>1. Matches(log, meaning, vol'[n], cons'[n], disk'[n], exec'[n], app'[n], results'[n])
  BY Zenon DEF Matches
<1>2. \A m \in Server : m \in Server \ {n} \/ m = n
  BY Zenon
<1> QED BY <1>1, <1>2, ServersMatch, Zenon DEF Alone

(* Voters that fit a group fit the earlier ones. *)
LEMMA VotersEarlier ==
  ASSUME NEW l, NEW t, LogMeans(l, t), NEW i \in 0..Len(l), NEW j \in 0..Len(l), i <= j,
         NEW V, VotersAt(l, t, j, V)
  PROVE  VotersAt(l, t, i, V)
<1>1. LaterGroup(GroupAfter(t, i), GroupAfter(t, j))
  BY Zenon DEF LogMeans
<1>2. Len(l) \in 0..Len(l) /\ j <= Len(l)
  BY DEF LogMeans
<1>3. LaterGroup(GroupAfter(t, j), GroupAfter(t, Len(l)))
  BY <1>2, Zenon DEF LogMeans
<1> QED BY <1>1, <1>3, Zenon DEF VotersAt, LaterGroup

(* The fields of a group after a change. *)
LEMMA ChangedGroup ==
  ASSUME NEW c, NEW g, NEW V
  PROVE  /\ c.type = "add" => /\ WithChange(c, g).members = g.members \cup {c.node}
                              /\ WithChange(c, g).removed = g.removed
                              /\ Reconfigure(c, V) = V \cup {c.node}
         /\ c.type = "remove" => /\ WithChange(c, g).members = g.members \ {c.node}
                                 /\ WithChange(c, g).removed = g.removed \cup {c.node}
                                 /\ Reconfigure(c, V) = V \ {c.node}
<1>1. CASE c.type = "add"
  BY <1>1, Zenon DEF WithChange, Reconfigure
<1>2. CASE c.type = "remove"
  BY <1>2, Zenon DEF WithChange, Reconfigure
<1> QED BY <1>1, <1>2, Zenon

(* Voters follow an accepted change. *)
LEMMA VotersFollow ==
  ASSUME NEW l, NEW t, LogMeans(l, t), NEW i \in 0..Len(l), i + 1 \in 1..Len(l),
         NEW V, VotersAt(l, t, i, V)
  PROVE  LET c == l[i + 1]
             g == GroupAfter(t, i)
         IN  /\ c \in Changes /\ ValidConfChange(c, g.members, g.removed) =>
                  /\ GroupAfter(t, i + 1) = WithChange(c, g)
                  /\ VotersAt(l, t, i + 1, Reconfigure(c, V))
             /\ ~(c \in Changes /\ ValidConfChange(c, g.members, g.removed)) =>
                  GroupAfter(t, i + 1) = g /\ VotersAt(l, t, i + 1, V)
<1> DEFINE c == l[i + 1]
<1> DEFINE g == GroupAfter(t, i)
<1> DEFINE h == GroupAfter(t, i + 1)
<1>1. h = Accept(g, c)
  <2>1. (i + 1) - 1 = i
    OBVIOUS
  <2>2. GroupAfter(t, i + 1) = Accept(GroupAfter(t, (i + 1) - 1), l[i + 1])
    BY Zenon DEF LogMeans
  <2> QED BY <2>1, <2>2, Zenon
<1>2. CASE c \in Changes /\ ValidConfChange(c, g.members, g.removed)
  <2>1. h = WithChange(c, g)
    BY <1>1, <1>2, Zenon DEF Accept
  <2>2. c.node \in NodeID /\ c.type \in {"add", "remove"}
    BY <1>2, ChangesAreChanges, Zenon
  <2>3. CASE c.type = "add"
    <3>1. h.members = g.members \cup {c.node} /\ h.removed = g.removed /\ Reconfigure(c, V) = V \cup {c.node}
      <4> HIDE DEF c, g, h
      <4> QED BY <2>1, <2>3, ChangedGroup, Zenon
    <3>2. c.node \notin g.removed
      BY <1>2, Zenon DEF ValidConfChange
    <3> QED BY <1>2, <2>1, <2>2, <3>1, <3>2, Zenon DEF VotersAt
  <2>4. CASE c.type = "remove"
    <3>1. /\ h.members = g.members \ {c.node} /\ h.removed = g.removed \cup {c.node}
          /\ Reconfigure(c, V) = V \ {c.node}
      <4> HIDE DEF c, g, h
      <4> QED BY <2>1, <2>4, ChangedGroup, Zenon
    <3> QED BY <1>2, <2>1, <2>2, <3>1, Zenon DEF VotersAt
  <2> QED BY <2>2, <2>3, <2>4, Zenon
<1>3. CASE ~(c \in Changes /\ ValidConfChange(c, g.members, g.removed))
  <2>1. h = g
    BY <1>1, <1>3, Zenon DEF Accept
  <2>2. VotersAt(l, t, i + 1, V)
    BY <2>1, Zenon DEF VotersAt
  <2> QED BY <1>3, <2>1, <2>2, Zenon
<1> QED BY <1>2, <1>3, Zenon

(* An entry that is no write leaves the state. *)
LEMMA StateFollows ==
  ASSUME NEW l, NEW t, LogMeans(l, t), NEW i \in 0..Len(l), i + 1 \in 1..Len(l)
  PROVE  StateAfter(t, i + 1) = Effect(l[i + 1], StateAfter(t, i))
<1>1. (i + 1) - 1 = i
  OBVIOUS
<1>2. StateAfter(t, i + 1) = Effect(l[i + 1], StateAfter(t, (i + 1) - 1))
  BY Zenon DEF LogMeans
<1> QED BY <1>1, <1>2, Zenon

-----------------------------------------------------------------------------
\* The consumer of Ready.

(* Saved entries and their commit index are entries of the log. *)
LEMMA SaveEntriesMatches ==
  ASSUME NEW l, NEW t, NEW d, DiskInv(d), DiskMatches(l, t, d), Len(l) \in Nat,
         NEW from \in Nat \ {0}, NEW to \in 0..Len(l)
  PROVE  DiskMatches(l, t, SaveEntries(d, from, to))
<1> DEFINE top == IF to > d.commit THEN to ELSE d.commit
<1> DEFINE e == [files |-> d.files, records |-> d.records, entries |-> d.entries \cup from..to, commit |-> top]
<1>1. SaveEntries(d, from, to) = e
  <2>1. d = [files |-> d.files, records |-> d.records, entries |-> d.entries, commit |-> d.commit]
    BY Zenon DEF DiskInv
  <2>2. SaveEntries(d, from, to) = [d EXCEPT !.commit = top, !.entries = d.entries \cup from..to]
    BY Zenon DEF SaveEntries
  <2> HIDE DEF top
  <2> QED BY <2>1, <2>2, DiskFields, Zenon
<1>2. top \in 0..Len(l)
  BY Zenon DEF DiskMatches
<1>3. e.files = d.files /\ e.commit = top /\ e.entries = d.entries \cup from..to
  BY Zenon
<1> HIDE DEF top, e
<1>4. from..to \subseteq 1..Len(l) /\ d.entries \subseteq 1..Len(l)
  BY DEF DiskMatches
<1> QED BY <1>1, <1>2, <1>3, <1>4, Zenon DEF DiskMatches

(* A Ready with entries: the next one to publish follows on what is applied. *)
LEMMA ReceiveEntriesMatches ==
  ASSUME MInv, RInv, NEW n \in Server, NEW k \in vol[n].applied..Len(log), ReceiveEntries(n, k)
  PROVE  MInv'
<1> DEFINE first == vol[n].applied + 1
<1> DEFINE c == [cons[n] EXCEPT !.pc = "publish", !.next = first, !.upto = k, !.reads = AnsweredAt(n)]
<1>1. vol[n].applied \in 0..Len(log) /\ Len(log) \in Nat
  BY ThisMatch, Zenon DEF VolMatches
<1>2. k \in 0..Len(log) /\ first \in Nat \ {0} /\ first - 1 = vol[n].applied /\ vol[n].applied < first
      /\ first <= k + 1
  BY <1>1
<1>3. /\ UNCHANGED <<logVars, run, vol, app, exec, results>> /\ cons[n].pc = "idle"
      /\ disk' = [disk EXCEPT ![n] = SaveEntries(disk[n], first, k)]
      /\ cons' = [cons EXCEPT ![n] = c]
  BY Zenon DEF ReceiveEntries
<1>4. c = [pc |-> "publish", snap |-> cons[n].snap, next |-> first, upto |-> k, reads |-> AnsweredAt(n)]
  <2> HIDE DEF first
  <2> QED BY ThisServer, ConsReceives, Zenon
<1> HIDE DEF c, first
<1>5. cons'[n] = c /\ disk'[n] = SaveEntries(disk[n], first, k) /\ vol'[n] = vol[n] /\ exec'[n] = exec[n]
      /\ app'[n] = app[n] /\ results'[n] = results[n]
  BY <1>3, ThisServer, Zenon
<1>6. Alone(n)
  BY <1>3, ThisServer, ThisMatch, Zenon DEF Alone, Same
<1>7. Done(vol[n], c) = vol[n].applied /\ Done(vol[n], cons[n]) = vol[n].applied
  BY <1>2, <1>3, <1>4, Zenon DEF Done
<1>8. ConsMatches(log, meaning, vol[n], c)
  <2>1. AnsweredAt(n) \subseteq Reads
    BY Zenon DEF AnsweredAt
  <2> QED BY <1>2, <1>4, <2>1, ThisMatch, Zenon DEF ConsMatches
<1>9. VolMatches(log, meaning, vol[n], c)
  BY <1>7, ThisMatch, Zenon DEF VolMatches
<1>10. DiskMatches(log, meaning, disk'[n])
  BY <1>1, <1>2, <1>5, ThisServer, ThisMatch, SaveEntriesMatches, Zenon
<1>11. ExecMatches(log, meaning, vol[n], c, exec[n], app[n])
  BY <1>3, <1>7, ThisMatch, Zenon DEF ExecMatches
<1> QED BY <1>5, <1>6, <1>8, <1>9, <1>10, <1>11, ThisMatch, OneMatches, Zenon

(* The files on disk and one more. *)
LEMMA SaveSnapMatches ==
  ASSUME NEW l, NEW t, NEW d, DiskInv(d), DiskMatches(l, t, d), NEW s, SnapshotOf(l, t, s)
  PROVE  DiskMatches(l, t, SaveSnap(d, s))
<1> DEFINE f == [i \in DOMAIN d.files \cup {s.index} |-> IF i = s.index THEN s ELSE d.files[i]]
<1> DEFINE e == [files |-> f, records |-> d.records, entries |-> d.entries, commit |-> d.commit]
<1>1. SaveSnap(d, s) = e
  BY DiskFields, Zenon DEF SaveSnap, DiskInv
<1>2. e.files = f /\ e.commit = d.commit /\ e.entries = d.entries
  BY Zenon
<1>3. \A i \in DOMAIN f : SnapshotOf(l, t, f[i])
  BY Zenon DEF DiskMatches
<1> HIDE DEF f, e
<1> QED BY <1>1, <1>2, <1>3, Zenon DEF DiskMatches

(* The files on disk and one more record. *)
LEMMA SaveRecordMatches ==
  ASSUME NEW l, NEW t, NEW d, DiskInv(d), DiskMatches(l, t, d), NEW k
  PROVE  DiskMatches(l, t, SaveRecord(d, k))
<1> DEFINE e == [files |-> d.files, records |-> d.records \cup {k}, entries |-> d.entries, commit |-> d.commit]
<1>1. SaveRecord(d, k) = e
  BY DiskFields, Zenon DEF SaveRecord, DiskInv
<1>2. e.files = d.files /\ e.commit = d.commit /\ e.entries = d.entries
  BY Zenon
<1> HIDE DEF e
<1> QED BY <1>1, <1>2, Zenon DEF DiskMatches

(* The consumer moves on outside a batch. *)
LEMMA PcMoves ==
  ASSUME NEW l, NEW t, NEW v, NEW c, NEW x, NEW a, IsCons(c),
         ConsMatches(l, t, v, c), VolMatches(l, t, v, c), ExecMatches(l, t, v, c, x, a), c.pc # "publish",
         NEW p \in {"save", "handoff", "reads"}, p = "reads" \/ v.applied < c.snap.index
  PROVE  LET b == [c EXCEPT !.pc = p]
         IN  ConsMatches(l, t, v, b) /\ VolMatches(l, t, v, b) /\ ExecMatches(l, t, v, b, x, a)
<1> DEFINE b == [c EXCEPT !.pc = p]
<1>1. b = [pc |-> p, snap |-> c.snap, next |-> c.next, upto |-> c.upto, reads |-> c.reads]
  BY ConsField, Zenon
<1> HIDE DEF b
<1>2. b.pc = p /\ b.snap = c.snap /\ b.upto = c.upto /\ b.reads = c.reads
  BY <1>1, Zenon
<1>3. Done(v, b) = v.applied /\ Done(v, c) = v.applied
  BY <1>2, Zenon DEF Done
<1>4. ConsMatches(l, t, v, b)
  BY <1>2, Zenon DEF ConsMatches
<1>5. VolMatches(l, t, v, b)
  BY <1>3, Zenon DEF VolMatches
<1>6. ExecMatches(l, t, v, b, x, a)
  BY <1>3, Zenon DEF ExecMatches
<1> QED BY <1>4, <1>5, <1>6, Zenon DEF b

(* A snapshot received from a peer is one of the log, and ahead of it here. *)
LEMMA ReceiveSnapshotMatches ==
  ASSUME MInv, RInv, NEW n \in Server, NEW m \in Server, ReceiveSnapshot(n, m)
  PROVE  MInv'
<1> DEFINE o == vol[m].snap
<1> DEFINE f == vol[m].conf
<1> DEFINE s == [o EXCEPT !.conf = f]
<1> DEFINE c == [cons[n] EXCEPT !.pc = "record", !.snap = s]
<1>1. /\ UNCHANGED <<logVars, run, vol, app, exec, results>> /\ cons[n].pc = "idle" /\ cons[m].pc = "idle"
      /\ disk' = [disk EXCEPT ![n] = SaveSnap(disk[n], s)]
      /\ cons' = [cons EXCEPT ![n] = c] /\ disk[n].commit < s.index
  BY Zenon DEF ReceiveSnapshot
<1>2. /\ SnapshotOf(log, meaning, o) /\ o.index <= vol[m].applied /\ VotersAt(log, meaning, vol[m].applied, f)
      /\ vol[m].applied \in 0..Len(log)
  BY <1>1, ThisMatch, Zenon DEF VolMatches, Done
<1> HIDE DEF o, f
<1>3. s.index = o.index /\ s.app = o.app /\ s.group = o.group /\ s.conf = f /\ IsSnapshot(s)
  BY <1>2 DEF SnapshotOf, IsSnapshot
<1> HIDE DEF s
<1>4. SnapshotOf(log, meaning, s)
  <2>1. o.index \in 0..Len(log)
    BY <1>2, Zenon DEF SnapshotOf
  <2>2. VotersAt(log, meaning, o.index, f)
    BY <1>2, <2>1, VotersEarlier, ThisMatch, Zenon
  <2> QED BY <1>2, <1>3, <2>2, Zenon DEF SnapshotOf
<1>5. c = [pc |-> "record", snap |-> s, next |-> cons[n].next, upto |-> cons[n].upto, reads |-> cons[n].reads]
  <2> DEFINE b == [cons[n] EXCEPT !.pc = "record"]
  <2>1. c = [b EXCEPT !.snap = s]
    BY Zenon
  <2>2. b = [pc |-> "record", snap |-> cons[n].snap, next |-> cons[n].next,
             upto |-> cons[n].upto, reads |-> cons[n].reads]
    BY ThisServer, ConsField, Zenon
  <2> HIDE DEF b, c
  <2>3. IsCons(b)
    BY <2>2, Zenon DEF IsCons
  <2> QED BY <2>1, <2>2, <2>3, ConsField, Zenon
<1> HIDE DEF c
<1>6. vol[n].applied < s.index
  <2>1. vol[n].applied \in Nat /\ vol[n].applied <= disk[n].commit /\ disk[n].commit \in Nat /\ s.index \in Nat
    BY <1>3, ThisServer, Zenon DEF VolInv, DiskInv, IsSnapshot
  <2> QED BY <1>1, <2>1
<1>7. Done(vol[n], c) = vol[n].applied /\ Done(vol[n], cons[n]) = vol[n].applied
  BY <1>1, <1>5, Zenon DEF Done
<1>8. ConsMatches(log, meaning, vol[n], c)
  BY <1>4, <1>5, <1>6, ThisMatch, Zenon DEF ConsMatches
<1>9. VolMatches(log, meaning, vol[n], c) /\ ExecMatches(log, meaning, vol[n], c, exec[n], app[n])
  BY <1>1, <1>7, ThisMatch, Zenon DEF VolMatches, ExecMatches
<1>10. cons'[n] = c /\ disk'[n] = SaveSnap(disk[n], s) /\ vol'[n] = vol[n] /\ exec'[n] = exec[n]
      /\ app'[n] = app[n] /\ results'[n] = results[n]
  BY <1>1, ThisServer, Zenon
<1>11. DiskMatches(log, meaning, disk'[n])
  BY <1>4, <1>10, ThisServer, ThisMatch, SaveSnapMatches, Zenon
<1>12. Alone(n)
  BY <1>1, ThisServer, ThisMatch, Zenon DEF Alone, Same
<1> QED BY <1>8, <1>9, <1>10, <1>11, <1>12, ThisMatch, OneMatches, Zenon

(* The record and the hard state of a received snapshot. *)
LEMMA RecordAndSaveMatch ==
  ASSUME MInv, RInv, NEW n \in Server, RecordSnapshot(n) \/ SaveState(n)
  PROVE  MInv'
<1> DEFINE i == cons[n].snap.index
<1>1. PICK p \in {"save", "handoff"} :
        /\ cons' = [cons EXCEPT ![n] = [cons[n] EXCEPT !.pc = p]] /\ cons[n].pc \in {"record", "save"}
        /\ UNCHANGED <<logVars, run, vol, app, exec, results>>
        /\ \/ disk' = [disk EXCEPT ![n] = SaveRecord(disk[n], i)]
           \/ disk' = [disk EXCEPT ![n] = SaveEntries(disk[n], i + 1, i)]
  BY Zenon DEF RecordSnapshot, SaveState
<1>2. i \in 0..Len(log) /\ i \in Nat /\ i + 1 \in Nat \ {0} /\ vol[n].applied < i
  <2>1. i \in 0..Len(log) /\ vol[n].applied < i /\ Len(log) \in Nat
    BY <1>1, ThisMatch, Zenon DEF ConsMatches, SnapshotOf
  <2> HIDE DEF i
  <2> QED BY <2>1
<1> DEFINE c == [cons[n] EXCEPT !.pc = p]
<1>3. /\ ConsMatches(log, meaning, vol[n], c) /\ VolMatches(log, meaning, vol[n], c)
      /\ ExecMatches(log, meaning, vol[n], c, exec[n], app[n])
  BY <1>1, <1>2, ThisServer, ThisMatch, PcMoves, Zenon
<1> HIDE DEF c, i
<1>4. DiskMatches(log, meaning, SaveRecord(disk[n], i)) /\ DiskMatches(log, meaning, SaveEntries(disk[n], i + 1, i))
  BY <1>2, ThisServer, ThisMatch, SaveRecordMatches, SaveEntriesMatches, Zenon
<1>5. cons'[n] = c /\ vol'[n] = vol[n] /\ exec'[n] = exec[n] /\ app'[n] = app[n] /\ results'[n] = results[n]
  BY <1>1, ThisServer, Zenon DEF c
<1>6. disk'[n] = SaveRecord(disk[n], i) \/ disk'[n] = SaveEntries(disk[n], i + 1, i)
  BY <1>1, ThisServer, Zenon
<1>7. Alone(n)
  BY <1>1, ThisServer, ThisMatch, Zenon DEF Alone, Same
<1>8. DiskMatches(log, meaning, disk'[n])
  BY <1>4, <1>6, Zenon
<1> QED BY <1>3, <1>5, <1>7, <1>8, ThisMatch, OneMatches, Zenon

(* A server that has no snapshot starts from the empty log. *)
LEMMA NoSnapshotMatches ==
  ASSUME NEW l, NEW t, LogMeans(l, t)
  PROVE  SnapshotOf(l, t, NoSnapshot)
<1> DEFINE s == NoSnapshot
<1>1. s.index = 0 /\ s.app = <<>> /\ s.group = Bootstrapped /\ s.conf = Peers /\ IsSnapshot(s)
  BY Zenon DEF NoSnapshot, IsSnapshot
<1> HIDE DEF s
<1>2. StateAfter(t, 0) = <<>> /\ GroupAfter(t, 0) = Bootstrapped /\ 0 \in 0..Len(l)
  BY DEF LogMeans
<1>3. VotersAt(l, t, 0, Peers)
  BY <1>2, ServersArePeers DEF VotersAt, Bootstrapped
<1>4. SnapshotOf(l, t, s)
  BY <1>1, <1>2, <1>3, Zenon DEF SnapshotOf
<1> QED BY <1>4, Zenon DEF s

(* A server that starts from a snapshot has the membership of its index and *)
(* processCommits has its data to restore.                                  *)
LEMMA RecoveredMatches ==
  ASSUME NEW l, NEW t, LogMeans(l, t), NEW s, SnapshotOf(l, t, s), NEW p \in {"idle", "reads"}
  PROVE  LET v == Recovered(s)
             c == [Waiting EXCEPT !.pc = p]
         IN  /\ ConsMatches(l, t, v, c) /\ VolMatches(l, t, v, c) /\ Done(v, c) = s.index
             /\ \A a \in Seq(Writes) : ExecMatches(l, t, v, c, [kind |-> "restore", app |-> s.app], a)
             /\ ExecMatches(l, t, v, c, Idle, s.app)
<1> DEFINE v == Recovered(s)
<1> DEFINE c == [Waiting EXCEPT !.pc = p]
<1>1. c.pc = p /\ c.snap = NoSnapshot /\ c.next = 1 /\ c.upto = 0 /\ c.reads = {}
  BY Zenon DEF Waiting
<1>2. v.applied = s.index /\ v.snap = s /\ v.first = s.index + 1 /\ v.group = s.group /\ v.conf = s.conf
  BY Zenon DEF Recovered
<1> HIDE DEF v, c
<1>3. Done(v, c) = s.index
  BY <1>1, <1>2, Zenon DEF Done
<1>4. s.index \in 0..Len(l) /\ s.index \in Nat /\ s.index + 1 \in Nat /\ Len(l) \in Nat /\ 0 \in 0..Len(l)
      /\ s.index <= s.index
  BY LogLength DEF SnapshotOf, IsSnapshot
<1>5. ConsMatches(l, t, v, c)
  BY <1>1, <1>4, NoSnapshotMatches, Zenon DEF ConsMatches
<1>6. VolMatches(l, t, v, c)
  BY <1>2, <1>3, <1>4, Zenon DEF VolMatches, SnapshotOf
<1>7. s.app = StateAfter(t, Done(v, c))
  BY <1>3, Zenon DEF SnapshotOf
<1>8. ASSUME NEW a \in Seq(Writes)
      PROVE  ExecMatches(l, t, v, c, [kind |-> "restore", app |-> s.app], a)
  <2> DEFINE x == [kind |-> "restore", app |-> s.app]
  <2>1. x.kind = "restore" /\ x.app = s.app
    BY Zenon
  <2> HIDE DEF x
  <2>2. \A i \in v.snap.index + 1 .. Done(v, c) : l[i] \notin Writes
    BY <1>2, <1>3, <1>4
  <2>3. ExecMatches(l, t, v, c, x, a)
    BY <1>7, <2>1, <2>2, Zenon DEF ExecMatches
  <2> QED BY <2>3, Zenon DEF x
<1>9. ExecMatches(l, t, v, c, Idle, s.app)
  BY <1>7, Zenon DEF ExecMatches, Idle
<1> QED BY <1>3, <1>5, <1>6, <1>8, <1>9, Zenon DEF v, c

(* A received snapshot is handed over. *)
LEMMA HandOffMatches ==
  ASSUME MInv, RInv, NEW n \in Server, HandOffSnapshot(n)
  PROVE  MInv'
<1> DEFINE s == cons[n].snap
<1> DEFINE v == Recovered(s)
<1> DEFINE c == [Waiting EXCEPT !.pc = "reads"]
<1> DEFINE x == [kind |-> "restore", app |-> s.app]
<1>1. /\ exec[n] = Idle /\ exec' = [exec EXCEPT ![n] = x] /\ vol' = [vol EXCEPT ![n] = v]
      /\ cons' = [cons EXCEPT ![n] = c] /\ UNCHANGED <<logVars, run, disk, app, results>>
  BY Zenon DEF HandOffSnapshot
<1>2. SnapshotOf(log, meaning, s)
  BY ThisMatch, Zenon DEF ConsMatches
<1>3. app[n] \in Seq(Writes)
  <2>1. exec[n].kind = "idle"
    BY <1>1 DEF Idle
  <2>2. app[n] = StateAfter(meaning, Done(vol[n], cons[n]))
    BY <2>1, ThisMatch, Zenon DEF ExecMatches
  <2> QED BY <2>2, ThisMatch, DoneInLog, StateIsWrites, Zenon
<1>4. /\ ConsMatches(log, meaning, v, c) /\ VolMatches(log, meaning, v, c)
      /\ ExecMatches(log, meaning, v, c, x, app[n])
  BY <1>2, <1>3, ThisMatch, RecoveredMatches, Zenon
<1> HIDE DEF s, v, c, x
<1>5. cons'[n] = c /\ vol'[n] = v /\ exec'[n] = x /\ app'[n] = app[n] /\ results'[n] = results[n]
      /\ disk'[n] = disk[n]
  BY <1>1, ThisServer, ThisMatch, Zenon
<1>6. Alone(n)
  BY <1>1, ThisServer, ThisMatch, Zenon DEF Alone, Same
<1> QED BY <1>4, <1>5, <1>6, ThisMatch, OneMatches, Zenon

(* The crash of a server and its restart from the newest usable snapshot. *)
LEMMA RestartMatches ==
  ASSUME MInv, RInv, NEW n \in Server, Restart(n)
  PROVE  MInv'
<1> DEFINE s == LoadSnapshot(disk[n])
<1> DEFINE v == Recovered(s)
<1> DEFINE c == [Waiting EXCEPT !.pc = "idle"]
<1> DEFINE x == IF s.index = 0 THEN Idle ELSE [kind |-> "restore", app |-> s.app]
<1>0. c = Waiting
  BY DEF Waiting
<1>1. /\ run' = [run EXCEPT ![n] = "up"] /\ cons' = [cons EXCEPT ![n] = Waiting]
      /\ vol' = [vol EXCEPT ![n] = v] /\ app' = [app EXCEPT ![n] = <<>>]
      /\ exec' = [exec EXCEPT ![n] = x] /\ results' = [results EXCEPT ![n] = {}]
      /\ UNCHANGED <<logVars, disk>>
  BY Zenon DEF Restart, logVars
<1>2. SnapshotOf(log, meaning, s)
  <2> DEFINE d == disk[n]
  <2> DEFINE U == Usable(d, d.commit)
  <2>1. DiskInv(d) /\ \A i \in DOMAIN d.files : SnapshotOf(log, meaning, d.files[i])
    BY ThisServer, ThisMatch, Zenon DEF DiskMatches
  <2>2. LoadSnapshot(d) = IF U = {} THEN NoSnapshot ELSE d.files[CHOOSE i \in U : \A j \in U : j <= i]
    BY Zenon DEF LoadSnapshot, Usable
  <2> HIDE DEF d
  <2>3. U \subseteq DOMAIN d.files /\ (U = {} \/ \E i \in U : \A j \in U : j <= i)
    BY <2>1, Zenon DEF Usable, DiskInv, HasLargest
  <2>4. LoadSnapshot(d) = NoSnapshot \/ \E i \in DOMAIN d.files : LoadSnapshot(d) = d.files[i]
    <3> HIDE DEF U
    <3> QED BY <2>2, <2>3, Zenon
  <2>5. SnapshotOf(log, meaning, LoadSnapshot(d))
    BY <2>1, <2>4, ThisMatch, NoSnapshotMatches, Zenon
  <2> QED BY <2>5, Zenon DEF d
<1> HIDE DEF s
<1>3. <<>> \in Seq(Writes)
  OBVIOUS
<1>4. /\ ConsMatches(log, meaning, v, c) /\ VolMatches(log, meaning, v, c)
      /\ ExecMatches(log, meaning, v, c, x, <<>>)
  <2>1. s.index = 0 => s.app = <<>>
    BY <1>2, ThisMatch, Zenon DEF SnapshotOf, LogMeans
  <2> QED BY <1>2, <1>3, <2>1, ThisMatch, RecoveredMatches, Zenon
<1> HIDE DEF v, x, c
<1>5. cons'[n] = c /\ vol'[n] = v /\ exec'[n] = x /\ app'[n] = <<>> /\ results'[n] = {}
      /\ disk'[n] = disk[n]
  BY <1>0, <1>1, ThisServer, ThisMatch, Zenon
<1>6. Alone(n)
  BY <1>1, ThisServer, ThisMatch, Zenon DEF Alone, Same
<1>7. ResultsMatch(log, meaning, {})
  BY Zenon DEF ResultsMatch
<1> QED BY <1>4, <1>5, <1>6, <1>7, ThisMatch, OneMatches, Zenon

\* what an entry e makes of the membership and the voters of a server in publishEntries
Reconfigured(v, e, w) ==
  /\ w.applied = v.applied /\ w.snap = v.snap /\ w.first = v.first
  /\ IF e \in Changes /\ ValidConfChange(e, v.group.members, v.group.removed)
     THEN w.group = WithChange(e, v.group) /\ w.conf = Reconfigure(e, v.conf)
     ELSE w.group = v.group /\ w.conf = v.conf

(* The next entry of a batch is published. *)
LEMMA NextPublished ==
  ASSUME NEW l, NEW t, LogMeans(l, t), NEW v, NEW c, NEW w, IsCons(c),
         ConsMatches(l, t, v, c), VolMatches(l, t, v, c), c.pc = "publish", c.next <= c.upto,
         Reconfigured(v, l[c.next], w), NEW b, b = [c EXCEPT !.next = c.next + 1]
  PROVE  /\ ConsMatches(l, t, w, b) /\ VolMatches(l, t, w, b) /\ b.pc = "publish"
         /\ Done(v, c) \in 0..Len(l) /\ c.next = Done(v, c) + 1 /\ c.next \in 1..Len(l)
         /\ Done(w, b) = Done(v, c) + 1
<1> DEFINE x == c.next
<1> DEFINE k == Done(v, c)
<1>0. \A y : [c EXCEPT !.next = y]
              = [pc |-> c.pc, snap |-> c.snap, next |-> y, upto |-> c.upto, reads |-> c.reads]
  BY ConsField, Zenon
<1>1. b = [pc |-> "publish", snap |-> c.snap, next |-> x + 1, upto |-> c.upto, reads |-> c.reads]
  BY <1>0, Zenon
<1>2. b.pc = "publish" /\ b.snap = c.snap /\ b.next = x + 1 /\ b.upto = c.upto /\ b.reads = c.reads
  BY <1>1, Zenon
<1>3. x \in Nat /\ v.applied < x /\ v.applied \in Nat /\ x <= c.upto /\ c.upto \in 0..Len(l) /\ Len(l) \in Nat
  BY LogLength DEF ConsMatches, VolMatches
<1>4. k = x - 1
  BY Zenon DEF Done
<1>5. Done(w, b) = (x + 1) - 1
  BY <1>2, Zenon DEF Done
<1> DEFINE a == v.applied
<1> DEFINE u == c.upto
<1> HIDE DEF x, k, a, u
<1>6. /\ k \in 0..Len(l) /\ x = k + 1 /\ x \in 1..Len(l) /\ x + 1 \in Nat /\ a < x + 1
      /\ x + 1 <= u + 1 /\ (x + 1) - 1 = k + 1
  BY <1>3, <1>4 DEF a, u
<1>7. Done(w, b) = k + 1
  BY <1>5, <1>6, Zenon
<1>8. ConsMatches(l, t, w, b)
  BY <1>2, <1>6, Zenon DEF ConsMatches, Reconfigured, a, u
<1>9. v.group = GroupAfter(t, k) /\ VotersAt(l, t, k, v.conf)
  BY Zenon DEF VolMatches, k
<1>10. w.group = GroupAfter(t, k + 1) /\ VotersAt(l, t, k + 1, w.conf)
  <2>1. l[c.next] = l[k + 1] /\ k + 1 \in 1..Len(l)
    BY <1>6, Zenon DEF x
  <2> QED BY <1>6, <1>9, <2>1, VotersFollow DEF Reconfigured
<1>11. VolMatches(l, t, w, b)
  BY <1>7, <1>10, Zenon DEF VolMatches, Reconfigured
<1> QED BY <1>2, <1>6, <1>7, <1>8, <1>11, Zenon DEF x, k

(* An entry that is no write leaves what processCommits has to do. *)
LEMMA NoWritePublished ==
  ASSUME NEW l, NEW t, LogMeans(l, t), NEW v, NEW c, NEW w, NEW b, NEW x, NEW a,
         ExecMatches(l, t, v, c, x, a), c.pc = "publish", b.pc = "publish", w.snap = v.snap,
         Done(v, c) \in 0..Len(l), Done(w, b) = Done(v, c) + 1, Done(v, c) + 1 \in 1..Len(l),
         l[Done(v, c) + 1] \notin Writes, v.snap.index \in Nat
  PROVE  ExecMatches(l, t, w, b, x, a)
<1> DEFINE k == Done(v, c)
<1>1. StateAfter(t, k + 1) = StateAfter(t, k)
  BY StateFollows, Zenon DEF Effect
<1>2. k \in 0..Len(l) /\ Len(l) \in Nat /\ Done(w, b) = k + 1 /\ l[k + 1] \notin Writes
  BY LogLength, Zenon
<1> HIDE DEF k
<1>3. CASE x.kind \in {"idle", "read"} /\ a = StateAfter(t, k)
  BY <1>1, <1>2, <1>3, Zenon DEF ExecMatches
<1>4. CASE /\ x.kind = "entry"
           /\ \E i \in 1..k : /\ x.id = l[i] /\ l[i] \in Writes
                              /\ a = StateAfter(t, i - 1) /\ StateAfter(t, k) = StateAfter(t, i)
  <2>1. PICK i \in 1..k : /\ x.id = l[i] /\ l[i] \in Writes
                          /\ a = StateAfter(t, i - 1) /\ StateAfter(t, k) = StateAfter(t, i)
    BY <1>4, Zenon
  <2>2. i \in 1..k + 1
    BY <1>2
  <2>3. \E j \in 1..k + 1 : /\ x.id = l[j] /\ l[j] \in Writes
                            /\ a = StateAfter(t, j - 1) /\ StateAfter(t, k + 1) = StateAfter(t, j)
    BY <1>1, <2>1, <2>2, Zenon
  <2> QED BY <1>2, <1>4, <2>3, Zenon DEF ExecMatches
<1>5. CASE /\ x.kind = "restore" /\ x.app = StateAfter(t, k) /\ a \in Seq(Writes)
           /\ \A i \in v.snap.index + 1 .. k : l[i] \notin Writes
  <2> DEFINE s == v.snap.index
  <2> HIDE DEF s
  <2>1. \A i \in s + 1 .. k + 1 : i \in s + 1 .. k \/ i = k + 1
    BY <1>2, SuffixGrows, Zenon DEF s
  <2>2. \A i \in s + 1 .. k + 1 : l[i] \notin Writes
    BY <1>2, <1>5, <2>1, Zenon DEF s
  <2> QED BY <1>1, <1>2, <1>5, <2>2, Zenon DEF ExecMatches, s
<1> QED BY <1>3, <1>4, <1>5, Zenon DEF ExecMatches, k

(* A write is handed to processCommits once the store is up to date. *)
LEMMA PublishWriteMatches ==
  ASSUME MInv, RInv, NEW n \in Server, PublishWrite(n)
  PROVE  MInv'
<1> DEFINE c == cons[n]
<1> DEFINE v == vol[n]
<1> DEFINE b == [c EXCEPT !.next = c.next + 1]
<1> DEFINE e == log[c.next]
<1> DEFINE x == [kind |-> "entry", id |-> e]
<1> DEFINE k == Done(v, c)
<1>1. /\ c.pc = "publish" /\ c.next <= c.upto /\ e \in Writes /\ exec[n] = Idle
      /\ exec' = [exec EXCEPT ![n] = x] /\ cons' = [cons EXCEPT ![n] = b]
      /\ UNCHANGED <<logVars, run, vol, disk, app, results>>
  BY Zenon DEF PublishWrite
<1>2. Reconfigured(v, e, v)
  BY <1>1, NamesAreDistinct, Zenon DEF Reconfigured
<1>3. /\ ConsMatches(log, meaning, v, b) /\ VolMatches(log, meaning, v, b) /\ b.pc = "publish"
      /\ k \in 0..Len(log) /\ c.next = k + 1 /\ c.next \in 1..Len(log) /\ Done(v, b) = k + 1
  <2>1. IsCons(c) /\ LogMeans(log, meaning) /\ ConsMatches(log, meaning, v, c) /\ VolMatches(log, meaning, v, c)
    BY ThisServer, ThisMatch, Zenon
  <2>2. c.pc = "publish" /\ c.next <= c.upto /\ b = [c EXCEPT !.next = c.next + 1] /\ Reconfigured(v, log[c.next], v)
    BY <1>1, <1>2, Zenon
  <2> HIDE DEF c, v, b
  <2> QED BY <2>1, <2>2, NextPublished
<1>4. app[n] = StateAfter(meaning, k)
  BY <1>1, ThisMatch DEF ExecMatches, Idle
<1>5. x.kind = "entry" /\ x.id = e
  BY Zenon
<1>6. e = log[k + 1]
  BY <1>3, Zenon
<1> HIDE DEF c, v, b, e, x, k
<1>7. \E i \in 1..k + 1 : /\ x.id = log[i] /\ log[i] \in Writes
                          /\ app[n] = StateAfter(meaning, i - 1)
                          /\ StateAfter(meaning, k + 1) = StateAfter(meaning, i)
  <2>1. k + 1 \in 1..k + 1 /\ (k + 1) - 1 = k
    BY <1>3
  <2> QED BY <1>1, <1>4, <1>5, <1>6, <2>1, Zenon
<1>8. ExecMatches(log, meaning, v, b, x, app[n])
  BY <1>3, <1>5, <1>7, Zenon DEF ExecMatches
<1>9. cons'[n] = b /\ vol'[n] = v /\ exec'[n] = x /\ app'[n] = app[n] /\ results'[n] = results[n]
      /\ disk'[n] = disk[n]
  BY <1>1, ThisServer, ThisMatch, Zenon DEF v
<1>10. Alone(n)
  BY <1>1, ThisServer, ThisMatch, Zenon DEF Alone, Same
<1> QED BY <1>3, <1>8, <1>9, <1>10, ThisMatch, OneMatches, Zenon

(* An empty entry. *)
LEMMA PublishEmptyMatches ==
  ASSUME MInv, RInv, NEW n \in Server, PublishEmpty(n)
  PROVE  MInv'
<1> DEFINE c == cons[n]
<1> DEFINE v == vol[n]
<1> DEFINE b == [c EXCEPT !.next = c.next + 1]
<1>1. /\ c.pc = "publish" /\ c.next <= c.upto /\ log[c.next] = Empty
      /\ cons' = [cons EXCEPT ![n] = b]
      /\ UNCHANGED <<logVars, run, vol, disk, app, exec, results>>
  BY Zenon DEF PublishEmpty
<1>2. Reconfigured(v, log[c.next], v) /\ log[c.next] \notin Writes
  BY <1>1, NamesAreDistinct, Zenon DEF Reconfigured
<1>3. /\ IsCons(c) /\ LogMeans(log, meaning) /\ ConsMatches(log, meaning, v, c) /\ VolMatches(log, meaning, v, c)
      /\ ExecMatches(log, meaning, v, c, exec[n], app[n])
  BY ThisServer, ThisMatch, Zenon
<1>4. b = [c EXCEPT !.next = c.next + 1]
  BY Zenon
<1>5. cons'[n] = b /\ vol'[n] = v /\ exec'[n] = exec[n] /\ app'[n] = app[n] /\ results'[n] = results[n]
      /\ disk'[n] = disk[n]
  BY <1>1, ThisServer, ThisMatch, Zenon
<1>6. Alone(n)
  BY <1>1, ThisServer, ThisMatch, Zenon DEF Alone, Same
<1> HIDE DEF c, v, b
<1>7. /\ ConsMatches(log, meaning, v, b) /\ VolMatches(log, meaning, v, b) /\ b.pc = "publish"
      /\ Done(v, c) \in 0..Len(log) /\ c.next = Done(v, c) + 1 /\ c.next \in 1..Len(log)
      /\ Done(v, b) = Done(v, c) + 1
  BY <1>1, <1>2, <1>3, <1>4, NextPublished
<1>8. v.snap.index \in Nat
  BY <1>3, Zenon DEF VolMatches, SnapshotOf, IsSnapshot
<1>9. ExecMatches(log, meaning, v, b, exec[n], app[n])
  BY <1>1, <1>2, <1>3, <1>7, <1>8, NoWritePublished, Zenon
<1> QED BY <1>5, <1>6, <1>7, <1>9, ThisMatch, OneMatches, Zenon

(* A membership change, valid or not. *)
LEMMA PublishChangeMatches ==
  ASSUME MInv, RInv, NEW n \in Server, PublishChange(n)
  PROVE  MInv'
<1> DEFINE c == cons[n]
<1> DEFINE v == vol[n]
<1> DEFINE b == [c EXCEPT !.next = c.next + 1]
<1> DEFINE e == log[c.next]
<1> DEFINE valid == ValidConfChange(e, v.group.members, v.group.removed)
<1>1. /\ c.pc = "publish" /\ c.next <= c.upto /\ e \in Changes
      /\ vol' = (IF ~valid THEN vol
                 ELSE [vol EXCEPT ![n].group = WithChange(e, vol[n].group), ![n].conf = Reconfigure(e, vol[n].conf)])
      /\ cons' = [cons EXCEPT ![n] = b]
      /\ UNCHANGED <<logVars, disk, app, exec, results>>
  <2>1. DOMAIN vol = Server
    BY ThisServer, Zenon
  <2> QED BY <2>1, Zenon DEF PublishChange, Validates
<1>2. run' \in [Server -> {"up", "stopped"}]
  <2>1. run' = run \/ run' = [run EXCEPT ![n] = "stopped"]
    BY Zenon DEF PublishChange
  <2> QED BY <2>1, ThisMatch, Zenon
<1>3. Reconfigured(v, e, vol'[n]) /\ \A m \in Server \ {n} : vol'[m] = vol[m]
  <2>1. CASE ~valid
    BY <1>1, <2>1, Zenon DEF Reconfigured
  <2>2. CASE valid
    <3> DEFINE g == WithChange(e, vol[n].group)
    <3> DEFINE f == Reconfigure(e, vol[n].conf)
    <3>1. vol' = [vol EXCEPT ![n].group = g, ![n].conf = f]
      BY <1>1, <2>2, Zenon
    <3> HIDE DEF g, f
    <3> DEFINE q == [vol[n] EXCEPT !.group = g]
    <3>2. vol'[n] = [q EXCEPT !.conf = f] /\ \A m \in Server \ {n} : vol'[m] = vol[m]
      BY <3>1, ThisServer, Zenon
    <3>3. q = [applied |-> vol[n].applied, snap |-> vol[n].snap, first |-> vol[n].first,
               group |-> g, conf |-> vol[n].conf]
      BY ThisServer, VolField, Zenon
    <3> HIDE DEF q
    <3>4. IsVol(q) /\ q.applied = vol[n].applied /\ q.snap = vol[n].snap /\ q.first = vol[n].first /\ q.group = g
      BY <3>3, Zenon DEF IsVol
    <3>5. vol'[n] = [applied |-> q.applied, snap |-> q.snap, first |-> q.first, group |-> q.group, conf |-> f]
      BY <3>2, <3>4, VolField, Zenon
    <3> DEFINE r == vol'[n]
    <3> HIDE DEF r
    <3>6. r = [applied |-> q.applied, snap |-> q.snap, first |-> q.first, group |-> q.group, conf |-> f]
      BY <3>5, Zenon DEF r
    <3>7. r.applied = q.applied /\ r.snap = q.snap /\ r.first = q.first /\ r.group = q.group /\ r.conf = f
      BY <3>6, VolParts, Zenon
    <3>8. /\ vol'[n].applied = vol[n].applied /\ vol'[n].snap = vol[n].snap /\ vol'[n].first = vol[n].first
          /\ vol'[n].group = g /\ vol'[n].conf = f
      BY <3>4, <3>7, Zenon DEF r
    <3>9. e \in Changes /\ valid
      BY <1>1, <2>2, Zenon
    <3> QED BY <3>2, <3>8, <3>9, Zenon DEF Reconfigured, g, f
  <2> QED BY <2>1, <2>2, Zenon
<1>4. log[c.next] \notin Writes
  BY <1>1, NamesAreDistinct, Zenon
<1>5. /\ IsCons(c) /\ LogMeans(log, meaning) /\ ConsMatches(log, meaning, v, c) /\ VolMatches(log, meaning, v, c)
      /\ ExecMatches(log, meaning, v, c, exec[n], app[n])
  BY ThisServer, ThisMatch, Zenon
<1>6. b = [c EXCEPT !.next = c.next + 1] /\ e = log[c.next]
  BY Zenon
<1>7. cons'[n] = b /\ exec'[n] = exec[n] /\ app'[n] = app[n] /\ results'[n] = results[n] /\ disk'[n] = disk[n]
  BY <1>1, ThisServer, ThisMatch, Zenon
<1>8. Alone(n)
  BY <1>1, <1>2, <1>3, ThisServer, ThisMatch, Zenon DEF Alone, Same
<1> DEFINE w == vol'[n]
<1> HIDE DEF c, v, b, e, valid, w
<1>9. Reconfigured(v, log[c.next], w)
  BY <1>3, <1>6, Zenon DEF w
<1>10. /\ ConsMatches(log, meaning, w, b) /\ VolMatches(log, meaning, w, b) /\ b.pc = "publish"
      /\ Done(v, c) \in 0..Len(log) /\ c.next = Done(v, c) + 1 /\ c.next \in 1..Len(log)
      /\ Done(w, b) = Done(v, c) + 1
  BY <1>1, <1>5, <1>6, <1>9, NextPublished
<1>11. v.snap.index \in Nat /\ w.snap = v.snap
  BY <1>5, <1>9, Zenon DEF VolMatches, SnapshotOf, IsSnapshot, Reconfigured
<1>12. ExecMatches(log, meaning, w, b, exec[n], app[n])
  BY <1>1, <1>4, <1>5, <1>10, <1>11, NoWritePublished, Zenon
<1> QED BY <1>7, <1>8, <1>10, <1>12, ThisMatch, OneMatches, Zenon DEF w

(* The end of a batch: all of it has been handed over. *)
LEMMA BatchEnds ==
  ASSUME NEW l, NEW t, LogMeans(l, t), NEW v, NEW c,
         ConsMatches(l, t, v, c), VolMatches(l, t, v, c), c.pc = "publish", c.next > c.upto
  PROVE  /\ Done(v, c) = c.upto /\ c.upto \in 0..Len(l) /\ c.upto \in Nat
         /\ v.snap.index \in Nat /\ v.snap.index <= c.upto
<1> DEFINE a == v.applied
<1> DEFINE x == c.next
<1> DEFINE u == c.upto
<1> DEFINE i == v.snap.index
<1>1. x \in Nat /\ a < x /\ a \in 0..Len(l) /\ x <= u + 1 /\ x > u /\ u \in 0..Len(l) /\ Len(l) \in Nat
      /\ i \in Nat /\ i <= a /\ Done(v, c) = x - 1
  BY LogLength, Zenon DEF ConsMatches, VolMatches, SnapshotOf, IsSnapshot, Done
<1> HIDE DEF a, x, u, i
<1>2. Done(v, c) = u /\ u \in 0..Len(l) /\ u \in Nat /\ i \in Nat /\ i <= u
  BY <1>1
<1> QED BY <1>2, Zenon DEF u, i

(* After it what was handed over is what is applied. *)
LEMMA BatchFinished ==
  ASSUME NEW l, NEW t, LogMeans(l, t), NEW v, NEW c, NEW w, NEW b, NEW x, NEW a,
         ConsMatches(l, t, v, c), VolMatches(l, t, v, c), ExecMatches(l, t, v, c, x, a),
         c.pc = "publish", c.next > c.upto, x.kind # "entry",
         b.snap = c.snap, b.upto = c.upto, b.reads = c.reads, b.pc \in {"compact", "reads"},
         w.applied = c.upto, w.first = v.first, w.group = v.group, w.conf = v.conf,
         SnapshotOf(l, t, w.snap), w.snap.index <= c.upto,
         w.snap = v.snap \/ x.kind \in {"idle", "read"}
  PROVE  ConsMatches(l, t, w, b) /\ VolMatches(l, t, w, b) /\ ExecMatches(l, t, w, b, x, a)
<1>1. Done(v, c) = c.upto /\ c.upto \in 0..Len(l)
  BY BatchEnds, Zenon
<1>2. Done(w, b) = c.upto
  BY Zenon DEF Done
<1>3. ConsMatches(l, t, w, b)
  BY Zenon DEF ConsMatches
<1>4. VolMatches(l, t, w, b)
  BY <1>1, <1>2, Zenon DEF VolMatches
<1>5. ExecMatches(l, t, w, b, x, a)
  BY <1>1, <1>2, Zenon DEF ExecMatches
<1> QED BY <1>3, <1>4, <1>5, Zenon

(* No snapshot is due while one is still to be restored. *)
LEMMA NoneDueBeforeRestore ==
  ASSUME BurstsAreShort, NEW v, NEW c, NEW x, NEW a, LogMeans(log, meaning),
         ConsMatches(log, meaning, v, c), VolMatches(log, meaning, v, c),
         ExecMatches(log, meaning, v, c, x, a), c.pc = "publish", c.next > c.upto, x.kind # "entry",
         c.upto - v.snap.index >= SnapshotInterval
  PROVE  x.kind \in {"idle", "read"} /\ a = StateAfter(meaning, c.upto)
<1> DEFINE u == c.upto
<1> DEFINE i == v.snap.index
<1>1. Done(v, c) = u /\ u \in 0..Len(log) /\ u \in Nat /\ i \in Nat /\ i <= u /\ u - i >= SnapshotInterval
  BY BatchEnds, Zenon
<1>2. Len(log) \in Nat /\ SnapshotInterval \in Nat
  BY LogLength, CountsAreNaturals, Zenon
<1> SUFFICES ASSUME x.kind = "restore" PROVE FALSE
  BY <1>1, Zenon DEF ExecMatches
<1>3. \A j \in i + 1 .. u : log[j] \notin Writes
  BY <1>1, Zenon DEF ExecMatches
<1> HIDE DEF u, i
<1>4. i \in 0..Len(log)
  BY <1>1, <1>2, SmallerWithin, Zenon
<1>5. u < i + SnapshotInterval
  BY <1>1, <1>3, <1>4, Zenon DEF BurstsAreShort
<1> QED BY <1>1, <1>2, <1>5

(* The end of a batch, with a snapshot if one is due. *)
LEMMA FinishBatchMatches ==
  ASSUME MInv, RInv, BurstsAreShort, NEW n \in Server, FinishBatch(n)
  PROVE  MInv'
<1> DEFINE c == cons[n]
<1> DEFINE v == vol[n]
<1> DEFINE k == c.upto
<1> DEFINE s == EncodeSnapshot(n, k)
<1> DEFINE q == [v EXCEPT !.applied = k]
<1>0. /\ LogMeans(log, meaning) /\ ConsMatches(log, meaning, v, c) /\ VolMatches(log, meaning, v, c)
      /\ ExecMatches(log, meaning, v, c, exec[n], app[n]) /\ IsCons(c) /\ IsVol(v)
      /\ DiskInv(disk[n]) /\ DiskMatches(log, meaning, disk[n]) /\ ResultsMatch(log, meaning, results[n])
  BY ThisServer, ThisMatch, Zenon
<1>1. /\ c.pc = "publish" /\ c.next > c.upto /\ exec[n].kind # "entry"
      /\ UNCHANGED <<logVars, run, app, exec, results>>
  BY Zenon DEF FinishBatch, BatchApplied
<1>2. q = [applied |-> k, snap |-> v.snap, first |-> v.first, group |-> v.group, conf |-> v.conf]
  <2> HIDE DEF k
  <2> QED BY ThisServer, VolField, Zenon
<1>3. ASSUME NEW p \in {"compact", "reads"}, NEW b, b = [c EXCEPT !.pc = p]
      PROVE  b.pc = p /\ b.snap = c.snap /\ b.upto = c.upto /\ b.reads = c.reads
  <2>1. b = [pc |-> p, snap |-> c.snap, next |-> c.next, upto |-> c.upto, reads |-> c.reads]
    BY <1>3, ThisServer, ConsField, Zenon
  <2> QED BY <2>1, Zenon
<1>4. CASE /\ SnapshotDue(n) /\ vol' = [vol EXCEPT ![n].applied = k, ![n].snap = s]
           /\ disk' = [disk EXCEPT ![n] = SaveSnap(disk[n], s)]
           /\ cons' = [cons EXCEPT ![n].pc = "compact"]
  <2> DEFINE b == [c EXCEPT !.pc = "compact"]
  <2> DEFINE w == [q EXCEPT !.snap = s]
  <2>1. vol'[n] = w /\ cons'[n] = b /\ disk'[n] = SaveSnap(disk[n], s) /\ exec'[n] = exec[n]
        /\ app'[n] = app[n] /\ results'[n] = results[n]
    BY <1>1, <1>4, ThisServer, Zenon
  <2>2. Alone(n)
    BY <1>1, <1>4, ThisServer, ThisMatch, Zenon DEF Alone, Same
  <2>3. exec[n].kind \in {"idle", "read"} /\ app[n] = StateAfter(meaning, k)
    <3>1. c.upto - v.snap.index >= SnapshotInterval
      BY <1>4, Zenon DEF SnapshotDue
    <3> HIDE DEF c, v
    <3> QED BY <1>0, <1>1, <3>1, NoneDueBeforeRestore, Zenon
  <2>4. s.index = k /\ s.app = app[n] /\ s.group = v.group /\ s.conf = v.conf
        /\ s = [index |-> s.index, app |-> s.app, group |-> s.group, conf |-> s.conf]
    BY Zenon DEF EncodeSnapshot
  <2>5. b.pc = "compact" /\ b.snap = c.snap /\ b.upto = c.upto /\ b.reads = c.reads
    BY <1>3, Zenon
  <2> HIDE DEF s, q
  <2>6. w.applied = k /\ w.snap = s /\ w.first = v.first /\ w.group = v.group /\ w.conf = v.conf
    <3>1. IsVol(q) /\ q.applied = k /\ q.first = v.first /\ q.group = v.group /\ q.conf = v.conf
      BY <1>2, Zenon DEF IsVol
    <3>2. w = [applied |-> q.applied, snap |-> s, first |-> q.first, group |-> q.group, conf |-> q.conf]
      BY <3>1, VolField, Zenon
    <3> HIDE DEF w
    <3> QED BY <3>1, <3>2, Zenon
  <2> HIDE DEF w, b, c, v
  <2>7. Done(v, c) = k /\ k \in 0..Len(log) /\ k \in Nat /\ k <= k
    <3>1. Done(v, c) = k /\ k \in 0..Len(log) /\ k \in Nat
      BY <1>0, <1>1, BatchEnds, Zenon
    <3> HIDE DEF k
    <3> QED BY <3>1
  <2>8. SnapshotOf(log, meaning, s)
    <3>1. v.group = GroupAfter(meaning, k) /\ VotersAt(log, meaning, k, v.conf)
      BY <1>0, <2>7, Zenon DEF VolMatches
    <3> HIDE DEF k
    <3> QED BY <2>3, <2>4, <2>7, <3>1, Zenon DEF SnapshotOf, IsSnapshot
  <2>9. DiskMatches(log, meaning, SaveSnap(disk[n], s))
    BY <1>0, <2>8, SaveSnapMatches, Zenon
  <2>10. ConsMatches(log, meaning, w, b) /\ VolMatches(log, meaning, w, b)
         /\ ExecMatches(log, meaning, w, b, exec[n], app[n])
    BY <1>0, <1>1, <2>3, <2>4, <2>5, <2>6, <2>7, <2>8, BatchFinished, Zenon
  <2> QED BY <1>0, <2>1, <2>2, <2>9, <2>10, OneMatches, Zenon
<1>5. CASE /\ vol' = [vol EXCEPT ![n].applied = k]
           /\ cons' = [cons EXCEPT ![n].pc = "reads"] /\ UNCHANGED disk
  <2> DEFINE b == [c EXCEPT !.pc = "reads"]
  <2>1. vol'[n] = q /\ cons'[n] = b /\ disk'[n] = disk[n] /\ exec'[n] = exec[n]
        /\ app'[n] = app[n] /\ results'[n] = results[n]
    BY <1>1, <1>5, ThisServer, Zenon
  <2>2. Alone(n)
    BY <1>1, <1>5, ThisServer, ThisMatch, Zenon DEF Alone, Same
  <2>3. b.pc = "reads" /\ b.snap = c.snap /\ b.upto = c.upto /\ b.reads = c.reads
    BY <1>3, Zenon
  <2> HIDE DEF q
  <2>4. q.applied = k /\ q.snap = v.snap /\ q.first = v.first /\ q.group = v.group /\ q.conf = v.conf
    BY <1>2, Zenon
  <2> HIDE DEF b, c, v
  <2>5. SnapshotOf(log, meaning, q.snap) /\ q.snap.index <= k
    BY <1>0, <1>1, <2>4, BatchEnds, Zenon DEF VolMatches
  <2>6. ConsMatches(log, meaning, q, b) /\ VolMatches(log, meaning, q, b)
         /\ ExecMatches(log, meaning, q, b, exec[n], app[n])
    BY <1>0, <1>1, <2>3, <2>4, <2>5, BatchFinished, Zenon
  <2> QED BY <1>0, <2>1, <2>2, <2>6, OneMatches, Zenon
<1> QED BY <1>4, <1>5, Zenon DEF FinishBatch

(* The record of a snapshot taken here, and the compaction. *)
LEMMA CompactLogMatches ==
  ASSUME MInv, RInv, NEW n \in Server, CompactLog(n)
  PROVE  MInv'
<1> DEFINE c == cons[n]
<1> DEFINE v == vol[n]
<1> DEFINE b == [c EXCEPT !.pc = "reads"]
<1> DEFINE first == CompactedAt(v.applied, v.first)
<1> DEFINE w == [v EXCEPT !.first = first]
<1>0. /\ LogMeans(log, meaning) /\ ConsMatches(log, meaning, v, c) /\ VolMatches(log, meaning, v, c)
      /\ ExecMatches(log, meaning, v, c, exec[n], app[n]) /\ IsCons(c) /\ IsVol(v)
      /\ DiskInv(disk[n]) /\ DiskMatches(log, meaning, disk[n]) /\ ResultsMatch(log, meaning, results[n])
  BY ThisServer, ThisMatch, Zenon
<1>1. /\ c.pc = "compact" /\ vol' = [vol EXCEPT ![n] = w] /\ cons' = [cons EXCEPT ![n] = b]
      /\ disk' = [disk EXCEPT ![n] = SaveRecord(disk[n], v.snap.index)]
      /\ UNCHANGED <<logVars, run, app, exec, results>>
  BY Zenon DEF CompactLog
<1>2. first \in Nat
  <2> DEFINE a == v.applied
  <2> DEFINE f == v.first
  <2>1. a \in Nat /\ f \in Nat /\ SnapshotCatchUp \in Nat
    <3>1. Len(log) \in Nat
      BY <1>0, LogLength, Zenon
    <3>2. a \in 0..Len(log) /\ f \in Nat
      BY <1>0, Zenon DEF VolMatches
    <3> HIDE DEF a, f
    <3> QED BY <3>1, <3>2, CountsAreNaturals
  <2> HIDE DEF a, f
  <2>2. CompactedAt(a, f) \in Nat
    BY <2>1 DEF CompactedAt
  <2> QED BY <2>2, Zenon DEF a, f
<1>3. vol'[n] = w /\ cons'[n] = b /\ disk'[n] = SaveRecord(disk[n], v.snap.index) /\ exec'[n] = exec[n]
      /\ app'[n] = app[n] /\ results'[n] = results[n]
  BY <1>1, ThisServer, Zenon
<1>4. Alone(n)
  BY <1>1, ThisServer, ThisMatch, Zenon DEF Alone, Same
<1> HIDE DEF first
<1>5. w = [applied |-> v.applied, snap |-> v.snap, first |-> first, group |-> v.group, conf |-> v.conf]
  BY ThisServer, VolField, Zenon
<1>6. b = [pc |-> "reads", snap |-> c.snap, next |-> c.next, upto |-> c.upto, reads |-> c.reads]
  BY ThisServer, ConsField, Zenon
<1> HIDE DEF w, b, c, v
<1>7. w.applied = v.applied /\ w.snap = v.snap /\ w.first = first /\ w.group = v.group /\ w.conf = v.conf
  BY <1>5, Zenon
<1>8. b.pc = "reads" /\ b.snap = c.snap /\ b.upto = c.upto /\ b.reads = c.reads
  BY <1>6, Zenon
<1>9. Done(w, b) = v.applied /\ Done(v, c) = v.applied
  BY <1>1, <1>7, <1>8, Zenon DEF Done
<1>10. ConsMatches(log, meaning, w, b)
  BY <1>0, <1>7, <1>8, Zenon DEF ConsMatches
<1>11. VolMatches(log, meaning, w, b)
  BY <1>0, <1>2, <1>7, <1>9, Zenon DEF VolMatches
<1>12. ExecMatches(log, meaning, w, b, exec[n], app[n])
  BY <1>0, <1>1, <1>7, <1>9, Zenon DEF ExecMatches
<1>13. DiskMatches(log, meaning, SaveRecord(disk[n], v.snap.index))
  BY <1>0, SaveRecordMatches, Zenon
<1> QED BY <1>0, <1>3, <1>4, <1>10, <1>11, <1>12, <1>13, OneMatches, Zenon

(* Advance: back to waiting for a Ready. *)
LEMMA ReleaseReadsMatches ==
  ASSUME MInv, RInv, NEW n \in Server, ReleaseReads(n)
  PROVE  MInv'
<1> DEFINE v == vol[n]
<1> DEFINE b == Waiting
<1>1. /\ cons[n].pc = "reads" /\ cons' = [cons EXCEPT ![n] = b]
      /\ UNCHANGED <<logVars, run, vol, disk, app, exec, results>>
  BY Zenon DEF ReleaseReads
<1>2. b.pc = "idle" /\ b.snap = NoSnapshot /\ b.upto = 0 /\ b.reads = {}
  BY Zenon DEF Waiting
<1>3. vol'[n] = v /\ cons'[n] = b /\ disk'[n] = disk[n] /\ exec'[n] = exec[n]
      /\ app'[n] = app[n] /\ results'[n] = results[n]
  BY <1>1, ThisServer, Zenon
<1>4. Alone(n)
  BY <1>1, ThisServer, ThisMatch, Zenon DEF Alone, Same
<1> HIDE DEF b
<1>5. Done(v, b) = v.applied /\ Done(v, cons[n]) = v.applied
  BY <1>1, <1>2, Zenon DEF Done
<1>6. ConsMatches(log, meaning, v, b)
  <2>1. LogMeans(log, meaning)
    BY ThisMatch, Zenon
  <2>2. SnapshotOf(log, meaning, NoSnapshot) /\ 0 \in 0..Len(log)
    BY <2>1, NoSnapshotMatches, LogLength, Zenon
  <2> QED BY <1>2, <2>2, Zenon DEF ConsMatches
<1>7. VolMatches(log, meaning, v, b)
  BY <1>5, ThisMatch, Zenon DEF VolMatches
<1>8. ExecMatches(log, meaning, v, b, exec[n], app[n])
  BY <1>1, <1>5, ThisMatch, Zenon DEF ExecMatches
<1> QED BY <1>3, <1>4, <1>6, <1>7, <1>8, ThisMatch, OneMatches, Zenon

-----------------------------------------------------------------------------
\* processCommits and the untracking goroutines.

(* A restored snapshot or an executed commit brings the memory store to what *)
(* has been handed over.                                                     *)
LEMMA ExecuteMatches ==
  ASSUME MInv, RInv, NEW n \in Server, Execute(n)
  PROVE  MInv'
<1> DEFINE c == cons[n]
<1> DEFINE v == vol[n]
<1> DEFINE x == exec[n]
<1> DEFINE k == Done(v, c)
<1>0. /\ UNCHANGED <<logVars, run, vol, cons, disk>> /\ exec' = [exec EXCEPT ![n] = Idle]
      /\ DOMAIN app' = Server /\ DOMAIN results' = Server
      /\ \A m \in Server \ {n} : app'[m] = app[m] /\ results'[m] = results[m]
  <2>1. CASE ExecuteRestore(n)
    BY <2>1, ThisMatch, Zenon DEF ExecuteRestore
  <2>2. CASE ExecuteWrite(n)
    BY <2>2, ThisMatch, Zenon DEF ExecuteWrite
  <2>3. CASE ExecuteRead(n)
    BY <2>3, ThisMatch, Zenon DEF ExecuteRead
  <2> QED BY <2>1, <2>2, <2>3, Zenon DEF Execute
<1>1. Alone(n)
  BY <1>0, ThisMatch, Zenon DEF Alone, Same
<1>2. vol'[n] = v /\ cons'[n] = c /\ disk'[n] = disk[n] /\ exec'[n] = Idle
  BY <1>0, ThisMatch, Zenon
<1>3. k \in 0..Len(log) /\ Len(log) \in Nat
  BY ThisMatch, DoneInLog, Zenon
<1>4. ExecMatches(log, meaning, v, c, x, app[n]) /\ LogMeans(log, meaning)
  BY ThisMatch, Zenon
<1>5. app'[n] = StateAfter(meaning, k) /\ ResultsMatch(log, meaning, results'[n])
  <2>1. CASE ExecuteRestore(n)
    <3>1. app'[n] = x.app /\ x.kind = "restore" /\ results'[n] = results[n]
      BY <2>1, ThisMatch, Zenon DEF ExecuteRestore
    <3> QED BY <1>4, <3>1, ThisMatch, Zenon DEF ExecMatches
  <2>2. CASE ExecuteWrite(n)
    <3> DEFINE y == [id |-> x.id, res |-> app[n]]
    <3>1. app'[n] = AfterApply(x.id, app[n]) /\ x.kind = "entry" /\ results'[n] = results[n] \cup {y}
      BY <2>2, ThisMatch, Zenon DEF ExecuteWrite
    <3>2. \E j \in 1..k : /\ x.id = log[j] /\ log[j] \in Writes
                          /\ app[n] = StateAfter(meaning, j - 1) /\ StateAfter(meaning, k) = StateAfter(meaning, j)
      BY <1>4, <3>1, Zenon DEF ExecMatches
    <3>3. y.id = x.id /\ y.res = app[n]
      BY Zenon
    <3> HIDE DEF k, y, x
    <3>4. PICK j \in 1..k : /\ x.id = log[j] /\ log[j] \in Writes
                            /\ app[n] = StateAfter(meaning, j - 1) /\ StateAfter(meaning, k) = StateAfter(meaning, j)
      BY <3>2, Zenon
    <3>5. j \in 1..Len(log)
      BY <1>3
    <3>6. StateAfter(meaning, j) = Effect(log[j], StateAfter(meaning, j - 1))
      BY <1>4, <3>5, Zenon DEF LogMeans
    <3>7. AfterApply(x.id, app[n]) = StateAfter(meaning, k)
      BY <3>4, <3>6, Zenon DEF AfterApply, Effect
    <3>8. ResultsMatch(log, meaning, results[n] \cup {y})
      BY <3>3, <3>4, <3>5, ThisMatch, Zenon DEF ResultsMatch
    <3> QED BY <3>1, <3>7, <3>8, Zenon
  <2>3. CASE ExecuteRead(n)
    <3>1. app'[n] = app[n] /\ x.kind = "read" /\ results'[n] = results[n]
      BY <2>3, ThisMatch, Zenon DEF ExecuteRead
    <3> QED BY <1>4, <3>1, ThisMatch, Zenon DEF ExecMatches
  <2> QED BY <2>1, <2>2, <2>3, Zenon DEF Execute
<1>6. ExecMatches(log, meaning, v, c, Idle, app'[n])
  BY <1>5, Zenon DEF ExecMatches, Idle
<1> QED BY <1>1, <1>2, <1>5, <1>6, ThisMatch, OneMatches, Zenon

(* A result is delivered or dropped. *)
LEMMA UntrackMatches ==
  ASSUME MInv, RInv, NEW n \in Server, Untrack(n)
  PROVE  MInv'
<1>1. PICK x \in results[n] :
        results' = [results EXCEPT ![n] = @ \ {x}] /\ UNCHANGED <<logVars, run, vol, cons, disk, app, exec>>
  BY Zenon DEF Untrack
<1>2. results'[n] = results[n] \ {x}
  BY <1>1, ThisMatch, Zenon
<1>3. Alone(n)
  BY <1>1, ThisMatch, Zenon DEF Alone, Same
<1>4. ResultsMatch(log, meaning, results'[n])
  BY <1>2, ThisMatch, Zenon DEF ResultsMatch
<1> QED BY <1>1, <1>3, <1>4, ThisMatch, OneMatches, Zenon

-----------------------------------------------------------------------------
\* All of it.

(* At the start nothing is committed and every server has the bootstrapped  *)
(* group.                                                                   *)
LEMMA InitMatches == Init => MInv
<1> SUFFICES ASSUME Init PROVE MInv
  BY Zenon
<1> DEFINE d == [files |-> <<>>, records |-> {}, entries |-> {}, commit |-> 0]
<1>1. /\ log = <<>> /\ meaning = Meaningless /\ run = [n \in Server |-> "up"]
      /\ vol = [n \in Server |-> Recovered(NoSnapshot)] /\ cons = [n \in Server |-> Waiting]
      /\ disk = [n \in Server |-> d] /\ app = [n \in Server |-> <<>>] /\ exec = [n \in Server |-> Idle]
      /\ results = [n \in Server |-> {}]
  BY Zenon DEF Init, d
<1>2. LogMeans(log, meaning)
  BY <1>1, EmptyLogMeans, Zenon
<1>3. SnapshotOf(log, meaning, NoSnapshot)
  BY <1>2, NoSnapshotMatches, Zenon
<1>4. [Waiting EXCEPT !.pc = "idle"] = Waiting /\ NoSnapshot.app = <<>>
  <2>1. [Waiting EXCEPT !.pc = "idle"] = Waiting
    BY DEF Waiting
  <2>2. NoSnapshot.app = <<>>
    BY Zenon DEF NoSnapshot
  <2> QED BY <2>1, <2>2, Zenon
<1> DEFINE v == Recovered(NoSnapshot)
<1>5. /\ ConsMatches(log, meaning, v, Waiting) /\ VolMatches(log, meaning, v, Waiting)
      /\ ExecMatches(log, meaning, v, Waiting, Idle, <<>>)
  <2> DEFINE s == NoSnapshot
  <2>1. SnapshotOf(log, meaning, s) /\ s.app = <<>>
    BY <1>3, <1>4, Zenon
  <2> HIDE DEF s
  <2>2. LET u == Recovered(s)
            c == [Waiting EXCEPT !.pc = "idle"]
        IN  ConsMatches(log, meaning, u, c) /\ VolMatches(log, meaning, u, c)
            /\ ExecMatches(log, meaning, u, c, Idle, s.app)
    BY <1>2, <2>1, RecoveredMatches, Zenon
  <2> QED BY <1>4, <2>1, <2>2, Zenon DEF s
<1>6. DiskMatches(log, meaning, d)
  <2>1. d.commit = 0 /\ d.entries = {} /\ DOMAIN d.files = {} /\ 0 \in 0..Len(log)
    BY <1>2, LogLength
  <2> HIDE DEF d
  <2> QED BY <2>1, Zenon DEF DiskMatches
<1>7. ResultsMatch(log, meaning, {})
  BY Zenon DEF ResultsMatch
<1> HIDE DEF d, v
<1>8. Matches(log, meaning, v, Waiting, d, Idle, <<>>, {})
  BY <1>5, <1>6, <1>7, Zenon DEF Matches
<1>9. ASSUME NEW n \in Server
      PROVE  Matches(log, meaning, vol[n], cons[n], disk[n], exec[n], app[n], results[n])
  <2>1. vol[n] = v /\ cons[n] = Waiting /\ disk[n] = d /\ exec[n] = Idle /\ app[n] = <<>> /\ results[n] = {}
    BY <1>1, Zenon DEF v
  <2> QED BY <1>8, <2>1, Zenon
<1>10. run \in [Server -> {"up", "stopped"}] /\ DOMAIN exec = Server /\ DOMAIN app = Server /\ DOMAIN results = Server
  BY <1>1, Zenon
<1> QED BY <1>2, <1>9, <1>10, Zenon DEF MInv

(* The clients and the library. *)
LEMMA OutsideMatches ==
  ASSUME MInv, RInv, Client \/ Library
  PROVE  MInv'
<1>0. run \in [Server -> {"up", "stopped"}]
  BY Zenon DEF MInv
<1>1. ASSUME NEW n \in Server, NEW w \in Writes, ProposeWrite(w, n) PROVE MInv'
  BY <1>0, <1>1, RequestsMatch, Zenon DEF ProposeWrite
<1>2. ASSUME NEW n \in Server, NEW c \in Changes, ProposeChange(c, n) PROVE MInv'
  BY <1>0, <1>2, RequestsMatch, Zenon DEF ProposeChange
<1>3. ASSUME NEW n \in Server, NEW r \in Reads, AskRead(r, n) PROVE MInv'
  BY <1>0, <1>3, RequestsMatch, Zenon DEF AskRead
<1>4. ASSUME NEW r, Cancel(r) \/ AnswerRead(r) PROVE MInv'
  BY <1>0, <1>4, RequestsMatch, Zenon DEF Cancel, AnswerRead
<1>5. ASSUME NEW r, SubmitRead(r) PROVE MInv'
  BY <1>5, SubmitReadMatches, Zenon
<1>6. ASSUME NEW e \in pending \cup {Empty}, Commit(e) PROVE MInv'
  BY <1>6, CommitMatches, Zenon
<1>7. CASE Client
  BY <1>1, <1>2, <1>3, <1>4, <1>5, <1>7, Zenon DEF Client
<1>8. CASE Library
  BY <1>4, <1>6, <1>8, Zenon DEF Library
<1> QED BY <1>7, <1>8, Zenon

(* Every step keeps the servers replicas of the log. *)
LEMMA StepMatches == RInv /\ MInv /\ BurstsAreShort /\ [Next]_vars => MInv'
<1> SUFFICES ASSUME RInv, MInv, BurstsAreShort, [Next]_vars PROVE MInv'
  BY Zenon
<1>0. run \in [Server -> {"up", "stopped"}]
  BY Zenon DEF MInv
<1>1. CASE UNCHANGED vars
  BY <1>0, <1>1, RequestsMatch, Zenon DEF vars
<1>2. CASE Client \/ Library
  BY <1>2, OutsideMatches, Zenon
<1>3. ASSUME NEW n \in Server, Receive(n) PROVE MInv'
  BY <1>3, ReceiveEntriesMatches, ReceiveSnapshotMatches, Zenon DEF Receive
<1>4. ASSUME NEW n \in Server, Consume(n) PROVE MInv'
  BY <1>4, RecordAndSaveMatch, HandOffMatches, PublishWriteMatches, PublishEmptyMatches, PublishChangeMatches,
     FinishBatchMatches, CompactLogMatches, ReleaseReadsMatches, Zenon DEF Consume
<1>5. ASSUME NEW n \in Server, Execute(n) \/ Untrack(n) \/ Restart(n) PROVE MInv'
  BY <1>5, ExecuteMatches, UntrackMatches, RestartMatches, Zenon
<1>6. ASSUME NEW n \in Server, NEW m \in Server, RefusedByPeer(n, m) PROVE MInv'
  BY <1>0, <1>6, RequestsMatch, Zenon DEF RefusedByPeer
<1> QED BY <1>1, <1>2, <1>3, <1>4, <1>5, <1>6, Zenon DEF Next

(* Servers are replicas of the log as long as the hypothesis holds. *)
LEMMA ServersMatchLog == Spec /\ []BurstsAreShort => [](RInv /\ MInv)
BY InitRecovery, StepRecovery, InitMatches, StepMatches, PTL DEF Spec

(* Between two Readys the memory store and the membership of a server are    *)
(* what the committed log says up to its applied index, whether the server  *)
(* got there by entries, a received snapshot or a restart, whatever the     *)
(* interleaving of its consumer, processCommits and the crashes.            *)
THEOREM ReplicasMatchTheLog == Spec /\ []BurstsAreShort => []ReplicaMatchesLog
<1>1. MInv => ReplicaMatchesLog
  <2> SUFFICES ASSUME MInv, NEW n \in Server, cons[n].pc = "idle", exec[n].kind # "restore"
               PROVE  app[n] = Effects(vol[n].applied) /\ vol[n].group = GroupAt(vol[n].applied)
    BY Zenon DEF ReplicaMatchesLog
  <2>1. Done(vol[n], cons[n]) = vol[n].applied
    BY Zenon DEF Done
  <2>2. vol[n].group = GroupAfter(meaning, vol[n].applied)
    BY <2>1, ThisMatch, Zenon DEF VolMatches
  <2>3. app[n] = StateAfter(meaning, vol[n].applied)
    BY <2>1, ThisMatch, Zenon DEF ExecMatches
  <2> QED BY <2>2, <2>3, Zenon DEF Effects, GroupAt
<1> QED BY <1>1, ServersMatchLog, PTL

(* A snapshot file, taken here or received, holds the state and the          *)
(* membership at its index.                                                 *)
THEOREM SnapshotsMatchTheLog == Spec /\ []BurstsAreShort => []SnapshotMatchesLog
<1>1. RInv /\ MInv => SnapshotMatchesLog
  <2> SUFFICES ASSUME RInv, MInv, NEW n \in Server, NEW i \in DOMAIN disk[n].files
               PROVE  disk[n].files[i].app = Effects(i) /\ disk[n].files[i].group = GroupAt(i)
    BY Zenon DEF SnapshotMatchesLog
  <2>1. SnapshotOf(log, meaning, disk[n].files[i])
    BY ThisMatch, Zenon DEF DiskMatches
  <2>2. disk[n].files[i].index = i
    BY ThisServer, Zenon DEF DiskInv
  <2> QED BY <2>1, <2>2, Zenon DEF SnapshotOf, Effects, GroupAt
<1> QED BY <1>1, ServersMatchLog, PTL

(* Once the log is applied the voters given to the library are the members,  *)
(* and an ID that a server knows as removed is never one of its voters,      *)
(* although a received snapshot brings the voters of a later moment.         *)
THEOREM VotersAreMembers == Spec /\ []BurstsAreShort => []VotersFollowMembers
<1>1. MInv => VotersFollowMembers
  <2> SUFFICES ASSUME MInv, NEW n \in Server, cons[n].pc = "idle"
               PROVE  /\ vol[n].applied = Len(log) => vol[n].conf = vol[n].group.members
                      /\ vol[n].conf \cap vol[n].group.removed = {}
    BY Zenon DEF VotersFollowMembers
  <2> DEFINE a == vol[n].applied
  <2>1. Done(vol[n], cons[n]) = a
    BY Zenon DEF Done
  <2>2. vol[n].group = GroupAfter(meaning, a) /\ VotersAt(log, meaning, a, vol[n].conf) /\ a \in 0..Len(log)
    BY <2>1, ThisMatch, Zenon DEF VolMatches
  <2>3. GroupAfter(meaning, a).members \cap GroupAfter(meaning, a).removed = {}
    BY <2>2, ThisMatch, Zenon DEF LogMeans
  <2> HIDE DEF a
  <2>4. a = Len(log) => vol[n].conf = GroupAfter(meaning, a).members
    BY <2>2, <2>3, Zenon DEF VotersAt
  <2> QED BY <2>2, <2>4, Zenon DEF VotersAt, a
<1> QED BY <1>1, ServersMatchLog, PTL
=============================================================================
