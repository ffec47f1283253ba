-------------------------------- MODULE Scd --------------------------------
(***************************************************************************)
(* Strategic conflict detection: operational intent references (OIRs),     *)
(* the subscriptions they are attached to, constraints and USS             *)
(* availability, as pkg/scd/operations changes them in a repository.       *)
(*                                                                         *)
(* One action is one operation that the store accepts.  Every store runs   *)
(* an operation atomically (a serializable transaction in sqlstore, the    *)
(* application of one log entry with roll-back on error in raftstore), so  *)
(* a refused request changes nothing and is a stuttering step.  A request  *)
(* that must present the current OVN or version of what it changes is      *)
(* taken to present it; one that does not is refused.                      *)
(*                                                                         *)
(* now is the coarse clock requests are validated against, seq the fine    *)
(* one that stamps writes: two writes never carry the same timestamp.      *)
(***************************************************************************)
EXTENDS Volumes, FiniteSets

CONSTANTS OIRs, Subs, Constraints, Managers,
          None,            \* an absent ID, time or OVN suffix
          OIRVolumes,      \* the volumes requests ask for: cells, alts, start, end
          SubVolumes,      \* the same for subscriptions, all but cells may be None
          States,          \* the OIR states requests ask for
          Availabilities,  \* the USS availabilities requests set
          Suffixes,        \* OVN suffixes a USS may request,
          SuffixTime,      \* and the time encoded in each
          Skew,            \* maxClockSkew, five minutes
          MaxDuration,     \* maxSubscriptionDuration, one day
          TTL,             \* age at which db-manager evicts an entity
          MaxResultLimit,  \* most rows a search returns
          Backend,         \* "sql" (sqlstore) or "mem" (memstore, under raftstore)
          MaxNow, MaxSeq   \* bounds of the model

ASSUME ScdAssumption ==
  /\ None \notin OIRs \cup Subs \cup Constraints \cup Managers \cup Suffixes \cup Int
  /\ OIRVolumes \subseteq [cells : SUBSET Leaf, alts : SUBSET Int, start : Int, end : Int]
  /\ \A v \in OIRVolumes : v.cells # {} /\ v.alts # {} /\ v.start <= v.end
  /\ SubVolumes \subseteq [cells : SUBSET Leaf, alts : {None} \cup SUBSET Int,
                           start : {None} \cup Int, end : {None} \cup Int]
  /\ States \subseteq {"Accepted", "Activated", "Nonconforming", "Contingent"}
  /\ Availabilities \subseteq {"Unknown", "Normal", "Down"}
  /\ SuffixTime \in [Suffixes -> Int]
  /\ Skew \in Nat /\ MaxDuration \in Nat /\ TTL \in Nat /\ MaxResultLimit \in Nat
  /\ MaxNow \in Nat /\ MaxSeq \in Nat
  /\ Backend \in {"sql", "mem"}

VARIABLES oirs,   \* OIRs by ID
          subs,   \* subscriptions by ID
          cons,   \* constraints by ID
          avail,  \* availability by USS, for those that were given one
          keys,   \* history: what the last write of each OIR knew
          given,  \* history: the OVNs OIRs were given on request, and when
          now, seq

vars == <<oirs, subs, cons, avail, keys, given, now, seq>>

OIRStates == {"Accepted", "Activated", "Nonconforming", "Contingent"}
AvailabilityStates == {"Unknown", "Normal", "Down"}
IDs == OIRs \cup Constraints
OVNs == IDs \X (Int \cup Suffixes)

OIRRecords ==
  [manager : Managers, state : OIRStates, sub : Subs \cup {None},
   cells : SUBSET Leaf, alts : SUBSET Int, start : Int, end : Int,
   requested : Suffixes \cup {None}, past : SUBSET OVNs, updatedAt : Nat]

SubRecords ==
  [manager : Managers, index : Nat, notifyOps : BOOLEAN, notifyCons : BOOLEAN,
   implicit : BOOLEAN, cells : CellUnions, start : Int, end : Int]

ConstraintRecords ==
  [manager : Managers, cells : SUBSET Leaf, start : Int, end : Int, updatedAt : Nat]

IsMap(f, K, V) == DOMAIN f \subseteq K /\ f \in [DOMAIN f -> V]
Put(f, k, v) == [x \in DOMAIN f \cup {k} |-> IF x = k THEN v ELSE f[x]]
Without(f, K) == [x \in DOMAIN f \ K |-> f[x]]

Init ==
  /\ oirs = [x \in {} |-> {}] /\ subs = [x \in {} |-> {}]
  /\ cons = [x \in {} |-> {}] /\ avail = [x \in {} |-> {}]
  /\ keys = [x \in {} |-> {}] /\ given = {}
  /\ now = 0 /\ seq = 0

-----------------------------------------------------------------------------
(* Reading the repository.                                                 *)

Availability(m) == IF m \in DOMAIN avail THEN avail[m] ELSE "Unknown"

\* The OVN of a stored OIR: the requested one, or one derived from its ID and
\* the time of its last update (which NewOVNFromTime hashes).
OVN(o) == <<o, IF oirs[o].requested # None THEN oirs[o].requested ELSE oirs[o].updatedAt>>

ConstraintOVN(c) == <<c, cons[c].updatedAt>>

Intersects(r, v) == Overlaps(r.cells, v.cells) /\ OverlapsTime(r, v)

MatchingOIRs(v) ==
  {o \in DOMAIN oirs : Intersects(oirs[o], v) /\ oirs[o].alts \cap v.alts # {}}

MatchingConstraints(v) == {c \in DOMAIN cons : Intersects(cons[c], v)}

\* What a search may return: all matches, or any MaxResultLimit of them (the
\* order of rows, and of a Go map, is arbitrary).
SearchResults(matches) ==
  {found \in SUBSET matches : \/ found = matches /\ Cardinality(matches) <= MaxResultLimit
                              \/ Cardinality(found) = MaxResultLimit}

Dependents(i) == {o \in DOMAIN oirs : oirs[o].sub = i}

ImplicitAndOnlyAttachedTo(i, o) == subs[i].implicit /\ Dependents(i) = {o}

\* mutant: an OIR of a Down USS never requires its OVN in a key
KeyUnlessDown(o) == Availability(oirs[o].manager) # "Down"

OIRRequiresKey(o) == Availability(oirs[o].manager) # "Down" \/ oirs[o].state # "Accepted"

StateRequiresKey(st) == st \notin {"Nonconforming", "Contingent"}

\* The CHECK constraints of the SQL schema on the interval of an entity.
StoreAcceptsTimes(start, end) == Backend = "sql" => start < end

-----------------------------------------------------------------------------
(* Notifications.                                                          *)

NotifiedForOps(m, v) ==
  [i \in DOMAIN m |-> IF m[i].notifyOps /\ Intersects(m[i], v)
                      THEN [m[i] EXCEPT !.index = @ + 1] ELSE m[i]]

NotifiedForConstraints(m, v) ==
  [i \in DOMAIN m |-> IF m[i].notifyCons /\ Intersects(m[i], v)
                      THEN [m[i] EXCEPT !.index = @ + 1] ELSE m[i]]

-----------------------------------------------------------------------------
(* Operational intents.  A request names the subscription sub to attach,   *)
(* asks for a new implicit one (sub is then its fresh ID), or neither.     *)

\* mutant: a suffix of the past is let pass
ValidUnlessAhead(o, st, v, sub, sfx) ==
  /\ v.end >= now
  /\ o \notin DOMAIN oirs => st = "Accepted"
  /\ st # "Accepted" => sub # None
  /\ sfx # None => SuffixTime[sfx] <= now + Skew

ValidOIRParams(o, st, v, sub, sfx) ==
  /\ v.end >= now
  /\ o \notin DOMAIN oirs => st = "Accepted"
  /\ st # "Accepted" => sub # None
  /\ sfx # None => SuffixTime[sfx] \in (now - Skew)..(now + Skew)

\* mutant: the manager is left out
ImplicitWithoutManager(m, v, forCons) ==
  [manager |-> None, index |-> 0, notifyOps |-> TRUE, notifyCons |-> forCons,
   implicit |-> TRUE, cells |-> v.cells, start |-> v.start, end |-> v.end]

NewImplicitSubscription(m, v, forCons) ==
  [manager |-> m, index |-> 0, notifyOps |-> TRUE, notifyCons |-> forCons,
   implicit |-> TRUE, cells |-> v.cells, start |-> v.start, end |-> v.end]

Covers(s, v) == s.start <= v.start /\ s.end >= v.end /\ Contains(s.cells, v.cells)

\* mutant: the end is not extended
ExtendedWithoutEnd(s, v) ==
  [s EXCEPT !.start = Earlier(@, v.start),
            !.cells = IF Contains(@, v.cells) THEN @ ELSE CellUnionFromUnion(@, v.cells)]

\* ensureSubscriptionCoversOIR on an implicit subscription: it grows, never shrinks.
Extended(s, v) ==
  [s EXCEPT !.start = Earlier(@, v.start),
            !.end   = Later(@, v.end),
            !.cells = IF Contains(@, v.cells) THEN @ ELSE CellUnionFromUnion(@, v.cells)]

CanAttach(m, v, sub, implicit) ==
  IF implicit THEN sub \in Subs \ DOMAIN subs
  ELSE sub # None => /\ sub \in DOMAIN subs
                     /\ subs[sub].manager = m
                     /\ subs[sub].implicit \/ Covers(subs[sub], v)

\* The subscriptions once the attached one is created or extended.
Attached(m, v, sub, implicit, forCons) ==
  IF sub = None THEN subs
  ELSE Put(subs, sub, IF implicit THEN NewImplicitSubscription(m, v, forCons)
                                  ELSE Extended(subs[sub], v))

\* mutants: the previous subscription is deleted although o keeps it; it is never deleted
ReplacedEvenIfKept(o, sub) ==
  {i \in DOMAIN subs : o \in DOMAIN oirs /\ oirs[o].sub = i /\ ImplicitAndOnlyAttachedTo(i, o)}
NeverReplaced(o, sub) == {}

\* The previous subscription of o, when it is implicit, replaced and then unused.
Replaced(o, sub) ==
  {i \in DOMAIN subs : /\ o \in DOMAIN oirs /\ oirs[o].sub = i /\ sub # i
                       /\ ImplicitAndOnlyAttachedTo(i, o)}

\* mutant: constraints are forgotten
KeyHasOIRs(o, foundOps, foundCons, key) ==
  \A x \in foundOps \ {o} : OIRRequiresKey(x) => OVN(x) \in key

KeyIsComplete(o, foundOps, foundCons, key) ==
  /\ \A x \in foundOps \ {o} : OIRRequiresKey(x) => OVN(x) \in key
  /\ \A c \in foundCons : ConstraintOVN(c) \in key

\* The OVNs an OIR had before; the SQL schema forbids requesting one of them again.
PastOVNs(o) == IF o \in DOMAIN oirs THEN oirs[o].past \cup {OVN(o)} ELSE {}

StoreAcceptsOVN(o, sfx) == Backend = "sql" /\ sfx # None => <<o, sfx>> \notin PastOVNs(o)

\* mutant: the volume the OIR leaves is not notified
NewVolumeOnly(o, v) == v

NotifyVolume(o, v) == IF o \in DOMAIN oirs THEN UnionVolume(v, oirs[o]) ELSE v

MayUpsertOIR(o, m) == o \in DOMAIN oirs => oirs[o].manager = m

PutOIR(o, m, st, v, sub, implicit, forCons, sfx, key) ==
  /\ forCons => implicit
  /\ ValidOIRParams(o, st, v, sub, sfx)
  /\ MayUpsertOIR(o, m)
  /\ Availability(m) = "Down" => st \notin {"Accepted", "Activated"}
  /\ CanAttach(m, v, sub, implicit)
  /\ LET attached  == Attached(m, v, sub, implicit, forCons)
         needsCons == sub # None /\ attached[sub].notifyCons
     IN  /\ StateRequiresKey(st) =>
              \E foundOps  \in SearchResults(MatchingOIRs(v)),
                 foundCons \in SearchResults(MatchingConstraints(v)) :
                KeyIsComplete(o, foundOps, IF needsCons THEN foundCons ELSE {}, key)
         /\ StoreAcceptsTimes(v.start, v.end)
         /\ StoreAcceptsOVN(o, sfx)
         /\ subs' = NotifiedForOps(Without(attached, Replaced(o, sub)), NotifyVolume(o, v))
  /\ oirs' = Put(oirs, o, [manager |-> m, state |-> st, sub |-> sub, cells |-> v.cells,
                           alts |-> v.alts, start |-> v.start, end |-> v.end,
                           requested |-> sfx, past |-> PastOVNs(o), updatedAt |-> seq + 1])
  /\ keys' = Put(keys, o, [ovns |-> key, down |-> {x \in Managers : Availability(x) = "Down"}])
  /\ given' = IF sfx = None THEN given ELSE given \cup {[ovn |-> <<o, sfx>>, at |-> now]}
  /\ seq' = seq + 1
  /\ UNCHANGED <<cons, avail, now>>

DeleteOIR(o) ==
  /\ seq < MaxSeq
  /\ o \in DOMAIN oirs
  /\ Availability(oirs[o].manager) # "Down"
  /\ oirs[o].sub # None => oirs[o].sub \in DOMAIN subs
  /\ subs' = Without(NotifiedForOps(subs, oirs[o]), Replaced(o, None))
  /\ oirs' = Without(oirs, {o})
  /\ keys' = Without(keys, {o})
  /\ seq' = seq + 1
  /\ UNCHANGED <<cons, avail, given, now>>

-----------------------------------------------------------------------------
(* Subscriptions.                                                          *)

\* A subscription must ask for something.
ValidSubRequest(forOps, forCons) == forOps \/ forCons

AdjustedStart(i, v) ==
  IF v.start # None THEN v.start ELSE IF i \in DOMAIN subs THEN subs[i].start ELSE now

AdjustedEnd(i, v) ==
  IF v.end # None THEN v.end
  ELSE IF i \in DOMAIN subs THEN subs[i].end ELSE AdjustedStart(i, v) + MaxDuration

ValidTimeRange(v, start, end) ==
  /\ v.start # None => now - v.start <= Skew
  /\ end - start \in 0..MaxDuration

\* mutant: the end of the subscription is not compared
CoversAreaAndStart(s, oir) == Contains(s.cells, oir.cells) /\ s.start - oir.start <= Skew

\* ValidateDependentOp: area and time, with its tolerance on the start, and the
\* altitudes of the request.  These are not stored.  A request without them makes
\* the comparison panic: no state changes in the repository.
CoversDependent(s, oir) ==
  /\ Contains(s.cells, oir.cells)
  /\ s.start - oir.start <= Skew
  /\ s.end >= oir.end

CoversAltitudes(v, oir) == v.alts # None /\ oir.alts \subseteq v.alts

\* mutant: an update starts the notifications again
NoIndex(i) == 0

KeptIndex(i) == IF i \in DOMAIN subs THEN subs[i].index ELSE 0

PutSub(i, m, v, forOps, forCons) ==
  LET start == AdjustedStart(i, v)
      end   == AdjustedEnd(i, v)
      s     == [manager |-> m, index |-> KeptIndex(i),
                notifyOps |-> forOps, notifyCons |-> forCons, implicit |-> FALSE,
                cells |-> v.cells, start |-> start, end |-> end]
  IN  /\ seq < MaxSeq
      /\ ValidSubRequest(forOps, forCons)
      /\ ValidTimeRange(v, start, end)
      /\ i \in DOMAIN subs => /\ subs[i].manager = m
                              /\ \A o \in Dependents(i) : /\ CoversDependent(s, oirs[o])
                                                         /\ CoversAltitudes(v, oirs[o])
      /\ StoreAcceptsTimes(start, end)
      /\ subs' = Put(subs, i, s)
      /\ seq' = seq + 1
      /\ UNCHANGED <<oirs, cons, avail, keys, given, now>>

DeleteSub(i) ==
  /\ seq < MaxSeq
  /\ i \in DOMAIN subs
  /\ Dependents(i) = {}
  /\ subs' = Without(subs, {i})
  /\ seq' = seq + 1
  /\ UNCHANGED <<oirs, cons, avail, keys, given, now>>

-----------------------------------------------------------------------------
(* Constraints and availability.                                           *)

ValidConstraintRequest(v) == v.end >= now

PutConstraint(c, m, v) ==
  /\ seq < MaxSeq
  /\ ValidConstraintRequest(v)
  /\ c \in DOMAIN cons => cons[c].manager = m
  /\ StoreAcceptsTimes(v.start, v.end)
  /\ cons' = Put(cons, c, [manager |-> m, cells |-> v.cells, start |-> v.start,
                           end |-> v.end, updatedAt |-> seq + 1])
  /\ subs' = NotifiedForConstraints(
               subs, IF c \in DOMAIN cons THEN UnionVolume(v, cons[c]) ELSE v)
  /\ seq' = seq + 1
  /\ UNCHANGED <<oirs, avail, keys, given, now>>

DeleteConstraint(c) ==
  /\ seq < MaxSeq
  /\ c \in DOMAIN cons
  /\ cons' = Without(cons, {c})
  /\ subs' = NotifiedForConstraints(subs, cons[c])
  /\ seq' = seq + 1
  /\ UNCHANGED <<oirs, avail, keys, given, now>>

SetAvailability(m, a) ==
  /\ seq < MaxSeq
  /\ avail' = Put(avail, m, a)
  /\ seq' = seq + 1
  /\ UNCHANGED <<oirs, subs, cons, keys, given, now>>

-----------------------------------------------------------------------------
(* Eviction: db-manager deletes, in two separate statements, up to a limit *)
(* of the entities that ended before its threshold.  Only sqlstore has it; *)
(* deleting a subscription cascades to the OIRs that refer to it.          *)

Expired(r) == r.end <= now - TTL

EvictOIRs(batch) ==
  /\ Backend = "sql"
  /\ batch # {} /\ \A o \in batch : Expired(oirs[o])
  /\ oirs' = Without(oirs, batch)
  /\ keys' = Without(keys, batch)
  /\ UNCHANGED <<subs, cons, avail, given, now, seq>>

\* mutant: no cascade
EvictSubsOnly(batch) ==
  /\ Backend = "sql"
  /\ batch # {} /\ \A i \in batch : Expired(subs[i])
  /\ subs' = Without(subs, batch)
  /\ UNCHANGED <<oirs, cons, avail, keys, given, now, seq>>

EvictSubs(batch) ==
  /\ Backend = "sql"
  /\ batch # {} /\ \A i \in batch : Expired(subs[i])
  /\ subs' = Without(subs, batch)
  /\ oirs' = Without(oirs, {o \in DOMAIN oirs : oirs[o].sub \in batch})
  /\ keys' = Without(keys, {o \in DOMAIN oirs : oirs[o].sub \in batch})
  /\ UNCHANGED <<cons, avail, given, now, seq>>

Tick == /\ now < MaxNow
        /\ now' = now + 1
        /\ UNCHANGED <<oirs, subs, cons, avail, keys, given, seq>>

-----------------------------------------------------------------------------

\* A key holds some of the OVNs that matter for o in v; any other has no effect.
RelevantOVNs(o, v) == {OVN(x) : x \in MatchingOIRs(v) \ {o}}
                      \cup {ConstraintOVN(c) : c \in MatchingConstraints(v)}

\* The requests: a handler of pkg/scd reads one, refuses it if it is malformed
\* or incomplete, and runs its operation in one transaction of the store.
PutSomeOIR ==
  /\ seq < MaxSeq
  /\ \E o \in OIRs, m \in Managers, st \in States, v \in OIRVolumes,
        sub \in Subs \cup {None}, implicit, forCons \in BOOLEAN, sfx \in Suffixes \cup {None} :
       \E key \in SUBSET RelevantOVNs(o, v) :
         PutOIR(o, m, st, v, sub, implicit, forCons, sfx, key)

DeleteSomeOIR == \E o \in OIRs : DeleteOIR(o)

PutSomeSub ==
  \E i \in Subs, m \in Managers, v \in SubVolumes, forOps, forCons \in BOOLEAN :
    PutSub(i, m, v, forOps, forCons)

DeleteSomeSub == \E i \in Subs : DeleteSub(i)

PutSomeConstraint ==
  \E c \in Constraints, m \in Managers, v \in OIRVolumes : PutConstraint(c, m, v)

DeleteSomeConstraint == \E c \in Constraints : DeleteConstraint(c)

OIRStep == PutSomeOIR \/ DeleteSomeOIR
SubStep == PutSomeSub \/ DeleteSomeSub
ConstraintStep == PutSomeConstraint \/ DeleteSomeConstraint

AvailabilityStep == \E m \in Managers, a \in Availabilities : SetAvailability(m, a)

EvictionStep ==
  \/ \E batch \in SUBSET DOMAIN oirs : EvictOIRs(batch)
  \/ \E batch \in SUBSET DOMAIN subs : EvictSubs(batch)

Next == OIRStep \/ SubStep \/ ConstraintStep \/ AvailabilityStep \/ EvictionStep \/ Tick

Spec == Init /\ [][Next]_vars

-----------------------------------------------------------------------------
(* Properties.                                                             *)

KeyRecords == [ovns : SUBSET OVNs, down : SUBSET Managers]

\* The repository holds well-formed records, and a key for each OIR.
TypeOK ==
  /\ IsMap(oirs, OIRs, OIRRecords)
  /\ IsMap(subs, Subs, SubRecords)
  /\ IsMap(cons, Constraints, ConstraintRecords)
  /\ IsMap(avail, Managers, AvailabilityStates)
  /\ IsMap(keys, OIRs, KeyRecords) /\ DOMAIN keys = DOMAIN oirs
  /\ given \subseteq [ovn : OIRs \X Suffixes, at : Nat]
  /\ now \in Nat /\ seq \in Nat

\* The subscription an OIR refers to exists, and an OIR beyond Accepted has one:
\* deleting or replacing subscriptions never leaves a dangling reference (with
\* which executeDeleteOperationalIntentReference could never delete the OIR).
AttachedSubscriptionExists ==
  \A o \in DOMAIN oirs : /\ oirs[o].sub # None => oirs[o].sub \in DOMAIN subs
                         /\ oirs[o].state # "Accepted" => oirs[o].sub # None

\* The subscription of an OIR belongs to its manager and covers it in area and
\* time, whatever OIR writes, subscription writes and extensions came after
\* (the start within the tolerance of ValidateDependentOp).
AttachedSubscriptionCovers ==
  \A o \in DOMAIN oirs : oirs[o].sub # None =>
    /\ subs[oirs[o].sub].manager = oirs[o].manager
    /\ CoversDependent(subs[oirs[o].sub], oirs[o])

\* Without eviction an implicit subscription lives exactly as long as some OIR
\* uses it: SubscriptionIsImplicitAndOnlyAttachedToOIR never meets one without
\* dependents, and none is leaked.
ImplicitSubscriptionInUse ==
  Backend = "mem" => \A i \in DOMAIN subs : subs[i].implicit => Dependents(i) # {}

\* Of two intersecting OIRs, the one written last, if its state required a key,
\* presented the current OVN of the other, unless that one was merely Accepted
\* and its USS Down at the time (validateKeyAndProvideConflictResponse).
LaterWriterIsAware ==
  \A o1, o2 \in DOMAIN oirs :
    /\ oirs[o1].updatedAt < oirs[o2].updatedAt
    /\ StateRequiresKey(oirs[o2].state)
    /\ o1 \in MatchingOIRs(oirs[o2])
    /\ oirs[o1].state # "Accepted" \/ oirs[o1].manager \notin keys[o2].down
    => OVN(o1) \in keys[o2].ovns

\* An OIR whose implicit subscription asks for constraints was last written, if
\* its state required a key, with the OVNs of the constraints already in its volume.
ConstraintProcessorIsAware ==
  \A o \in DOMAIN oirs, c \in DOMAIN cons :
    /\ oirs[o].sub # None /\ subs[oirs[o].sub].implicit /\ subs[oirs[o].sub].notifyCons
    /\ cons[c].updatedAt < oirs[o].updatedAt
    /\ StateRequiresKey(oirs[o].state)
    /\ c \in MatchingConstraints(oirs[o])
    => ConstraintOVN(c) \in keys[o].ovns

\* An OVN a USS asked for comes back, if at all, soon: an OIR is given it again,
\* also after it was deleted or evicted and created anew, within twice the clock
\* skew of any other time it was given it.  A key or a fencing token older than
\* that is never taken for one of a later version, whatever the store refuses
\* (the time in requested_ovn_suffix is compared with the clock).
OVNComesBackSoon ==
  \A g, h \in given : g.ovn = h.ovn => g.at - h.at <= 2 * Skew

\* Whether the areas and times of a subscription and an entity really meet.
Concerns(s, r) == Levelify(s.cells) \cap Levelify(r.cells) # {} /\ OverlapsTime(s, r)

Versions(f, k) == IF k \in DOMAIN f THEN {f[k]} ELSE {}

\* A step that writes entities (not an eviction) advances the notification index
\* of every subscription, interested in such entities, that meets the entity as
\* it was or as it becomes (IncrementNotificationIndicesFor...).
EverySubscriberNotified ==
  [][seq' # seq =>
       \A i \in DOMAIN subs' :
         LET before == IF i \in DOMAIN subs THEN subs[i].index ELSE 0
         IN  \/ subs'[i].index > before
             \/ /\ \A o \in OIRs : Versions(oirs, o) # Versions(oirs', o) /\ subs'[i].notifyOps =>
                     \A r \in Versions(oirs, o) \cup Versions(oirs', o) : ~ Concerns(subs'[i], r)
                /\ \A c \in Constraints : Versions(cons, c) # Versions(cons', c) /\ subs'[i].notifyCons =>
                     \A r \in Versions(cons, c) \cup Versions(cons', c) : ~ Concerns(subs'[i], r)]_vars

\* The notification index of a live subscription never goes back, so a USS can
\* tell that it missed a notification (executePutSubscription keeps the index).
IndexNeverDecreases ==
  [][\A i \in DOMAIN subs \cap DOMAIN subs' : subs'[i].index >= subs[i].index]_vars

\* Eviction deletes only OIRs that are expired themselves, although the database
\* also deletes the OIRs of each subscription it evicts.
EvictionSparesLiveOIRs ==
  [][seq' = seq => \A o \in DOMAIN oirs \ DOMAIN oirs' : Expired(oirs[o])]_vars
=============================================================================
