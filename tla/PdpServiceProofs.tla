-------------------------- MODULE PdpServiceProofs --------------------------
(***************************************************************************)
(* Pdp implements DecisionService, for any tables, conditions and requests *)
(* and any number of concurrent checks and edits, with calls that fail     *)
(* anywhere, as long as Redis keeps its data.                              *)
(***************************************************************************)
EXTENDS PdpHistory, PdpProofs

(* What a check reads comes from tables that its answer may rest on.       *)
ReadFrom(r, f) == \E v \in past[r] : seen[r][f] = v[f]

(* A decision made from what a check has read. *)
MadeBy(r, d) ==
  /\ \A f \in Field : ReadFrom(r, f)
  /\ d \in Outcomes(catalog, seen[r], call[r])

HistoryTypes ==
  /\ recent \in [Tenant -> SUBSET Rows]
  /\ past \in [Req -> SUBSET Rows]
  /\ \A r \in Req : pc[r] = "idle" => past[r] = {}

SeenKeyed == \A r \in Req : Keyed(seen[r])

(* The tables of now are among those a waiting check may be answered from. *)
NowCounts ==
  /\ \A t \in Tenant : rows[t] \in recent[t]
  /\ \A r \in Req : Running(r) => rows[TenantOf(r)] \in past[r]

(* Between checks that read the same epoch, what came before one of them   *)
(* counts for every other that is still waiting.                           *)
PastIsRecent ==
  \A r \in Req :
    pc[r] # "idle" /\ version[r] = epoch[TenantOf(r)] => past[r] \subseteq recent[TenantOf(r)]

RecentIsPast ==
  \A r \in Req :
    Running(r) /\ version[r] = epoch[TenantOf(r)] => recent[TenantOf(r)] \subseteq past[r]

SharedPast ==
  \A q, r \in Req :
    /\ pc[q] # "idle" /\ Running(r)
    /\ TenantOf(q) = TenantOf(r) /\ version[q] = version[r]
    => past[q] \subseteq past[r]

(* What checks have read, hold and have stored. *)
ReadsCount == \A r \in Req : \A f \in ReadAt(pc[r]) : ReadFrom(r, f)

HeldCounts == \A r \in Req : pc[r] = "store" => MadeBy(r, answer[r].decision)

EntriesCount ==
  \A e \in cache :
    /\ pc[e.id] = "done"
    /\ version[e.id] = e.key.epoch
    /\ MadeBy(e.id, e.decision)

Unanswered ==
  \A r \in Req : pc[r] \in {"idle", "lookup", "commit"} \cup Field => answer[r] = NoAnswer

HInv ==
  /\ IInv /\ OnRecord
  /\ HistoryTypes /\ SeenKeyed /\ NowCounts
  /\ PastIsRecent /\ RecentIsPast /\ SharedPast
  /\ ReadsCount /\ HeldCounts /\ EntriesCount /\ Unanswered

----------------------------------------------------------------------------
(* The history variables *)

LEMMA TenantsKnown == TypeOK => \A r \in Req : TenantOf(r) \in Tenant
  BY DEF TypeOK, TenantOf, Call, Subject

LEMMA NoIncr == ASSUME TypeOK, UNCHANGED epoch, NEW t \in Tenant PROVE ~Acknowledged(t)
<1> SUFFICES ASSUME NEW o \in Op, op[o].tenant = t, Bump(o) PROVE FALSE
  BY DEF Acknowledged
<1>1. epoch'[t] = epoch[t] + 1 /\ epoch[t] \in Nat
  BY DEF Bump, TypeOK
<1>2. QED
  BY <1>1

LEMMA RecentStays ==
  ASSUME HInv, HistoryNext, UNCHANGED <<rows, epoch>>
  PROVE  recent' = recent
<1>1. recent' = [t \in Tenant |->
                   IF Acknowledged(t) THEN {rows[t]'} ELSE recent[t] \cup {rows[t]'}]
  BY DEF HistoryNext
<1>2. \A t \in Tenant : ~Acknowledged(t) /\ rows'[t] \in recent[t]
  BY NoIncr DEF HInv, IInv, NowCounts
<1>3. \A t \in Tenant : recent'[t] = recent[t]
  BY <1>1, <1>2
<1>4. QED
  BY <1>1, <1>3 DEF HInv, HistoryTypes

LEMMA PastStays ==
  ASSUME HInv, HistoryNext, UNCHANGED <<rows, call>>, NEW q \in Req,
         pc[q] # "idle" \/ ~Running(q)'
  PROVE  past'[q] = past[q]
<1>1. TenantOf(q)' = TenantOf(q)
  BY DEF TenantOf
<1>2. Running(q) => rows'[TenantOf(q)] \in past[q]
  BY DEF HInv, NowCounts
<1>3. QED
  BY <1>1, <1>2 DEF HistoryNext

LEMMA PastIsPicked ==
  ASSUME HInv, HistoryNext
  PROVE  past' = [r \in Req |-> past'[r]]
BY DEF HistoryNext

LEMMA HistoryTypesStep == HInv /\ IInv' /\ HistoryNext => HistoryTypes'
<1> SUFFICES ASSUME HInv, IInv', HistoryNext PROVE HistoryTypes'
  OBVIOUS
<1>1. rows' \in [Tenant -> Rows] /\ \A r \in Req : TenantOf(r)' \in Tenant
  BY DEF IInv, TypeOK, TenantOf, Call, Subject
<1>2. \A r \in Req : TenantOf(r)' = TenantOf(r)
  <2>1. call' = call
    <3>1. ASSUME NEW o \in Op, Edit(o) PROVE call' = call
      BY <3>1, EditShape DEF HInv, IInv, CreatePermission, Commit, check
    <3>2. QED
      BY <3>1 DEF HistoryNext, Next, CheckStep, CheckFails, ReadEpoch, Hit, Miss, Select, Decide,
         Raise, Store, EditStep, EditFails, Bump, AuditAdmin, Expire, Flush, check
  <2>2. QED
    BY <2>1 DEF TenantOf
<1>3. recent' \in [Tenant -> SUBSET Rows]
  BY <1>1 DEF HistoryNext, HInv, HistoryTypes
<1>4. \A r \in Req : past'[r] \in SUBSET Rows
  BY <1>1, <1>2 DEF HistoryNext, HInv, HistoryTypes
<1>5. \A r \in Req : pc'[r] = "idle" => pc[r] = "idle"
  <2>1. \A f \in Field : After(f) # "idle"
    BY DEF After, Field
  <2>2. ASSUME NEW o \in Op, Edit(o) PROVE pc' = pc
    BY <2>2, EditShape DEF HInv, IInv, CreatePermission, Commit, check
  <2>3. ASSUME NEW q \in Req, CheckStep(q) \/ CheckFails(q)
        PROVE  pc'[q] # "idle" /\ \A r \in Req : r # q => pc'[r] = pc[r]
    BY <2>1, <2>3 DEF CheckStep, CheckFails, ReadEpoch, Hit, Miss, Select, Decide, Raise, Store,
       HInv, IInv, TypeOK
  <2>4. QED
    BY <2>2, <2>3 DEF HistoryNext, Next, EditStep, EditFails, Bump, AuditAdmin, Expire, Flush, check
<1>6. \A r \in Req : pc'[r] = "idle" => past'[r] = {}
  BY <1>5 DEF HistoryNext, Running, HInv, HistoryTypes
<1>7. QED
  BY <1>3, <1>4, <1>6, PastIsPicked DEF HistoryTypes

(* What a check's step changes, for the check itself and the others.       *)
LEMMA CheckChanges ==
  ASSUME HInv, HistoryNext, NEW r \in Req, CheckStep(r) \/ CheckFails(r)
  PROVE  /\ UNCHANGED <<catalog, rows, epoch, call, recent>>
         /\ \A q \in Req : TenantOf(q)' = TenantOf(q)
         /\ \A q \in Req : q # r =>
              UNCHANGED <<pc[q], version[q], seen[q], answer[q], past[q]>>
         /\ \/ /\ ReadEpoch(r)
               /\ past'[r] = recent[TenantOf(r)] /\ version'[r] = epoch[TenantOf(r)]
               /\ UNCHANGED seen[r]
            \/ /\ ~ReadEpoch(r)
               /\ UNCHANGED <<past[r], version[r]>>
               /\ Running(r)' => Running(r)
<1>1. UNCHANGED <<catalog, rows, epoch, call>>
  BY DEF CheckStep, CheckFails, ReadEpoch, Hit, Miss, Select, Decide, Raise, Store, db
<1>2. recent' = recent
  BY <1>1, RecentStays
<1>3. \A q \in Req : TenantOf(q)' = TenantOf(q)
  BY <1>1 DEF TenantOf
<1>4. \A q \in Req : q # r => UNCHANGED <<pc[q], version[q], seen[q], answer[q]>>
  BY DEF CheckStep, CheckFails, ReadEpoch, Hit, Miss, Select, Decide, Raise, Store,
     HInv, IInv, TypeOK
<1>5. \A q \in Req : q # r => past'[q] = past[q]
  <2>1. \A q \in Req : q # r => pc[q] # "idle" \/ ~Running(q)'
    BY <1>4 DEF Running
  <2>2. QED
    BY <1>1, <2>1, PastStays
<1>6. CASE ReadEpoch(r)
  <2>1. pc[r] = "idle" /\ Running(r)' /\ version'[r] = epoch[TenantOf(r)] /\ UNCHANGED seen
    BY <1>6 DEF ReadEpoch, Running, HInv, IInv, TypeOK
  <2>2. past'[r] = recent[TenantOf(r)]
    <3>1. past'[r] = CASE pc[r] = "idle" /\ Running(r)' -> recent[TenantOf(r)]
                       [] Running(r) /\ Running(r)'     -> past[r] \cup {rows[TenantOf(r)]'}
                       [] OTHER                         -> past[r]
      BY DEF HistoryNext
    <3>2. ~Running(r)
      BY <2>1 DEF Running
    <3>3. QED
      BY <2>1, <3>1, <3>2
  <2>3. QED
    BY <1>1, <1>2, <1>3, <1>4, <1>5, <1>6, <2>1, <2>2
<1>7. CASE ~ReadEpoch(r)
  <2>1. CASE CheckFails(r)
    <3>1. version' = version /\ ~Running(r)'
      BY <2>1 DEF CheckFails, Running, HInv, IInv, TypeOK
    <3>2. past'[r] = past[r]
      BY <3>1, <1>1, PastStays
    <3>3. QED
      BY <1>1, <1>2, <1>3, <1>4, <1>5, <1>7, <3>1, <3>2
  <2>2. CASE CheckStep(r)
    <3>1. version' = version /\ Running(r)
      BY <1>7, <2>2 DEF CheckStep, Hit, Miss, Select, Decide, Raise, Store, Running, Field
    <3>2. past'[r] = past[r]
      BY <3>1, <1>1, PastStays DEF Running
    <3>3. QED
      BY <1>1, <1>2, <1>3, <1>4, <1>5, <1>7, <3>1, <3>2
  <2>3. QED
    BY <2>1, <2>2
<1>8. QED
  BY <1>6, <1>7

LEMMA CheckKeepsPast ==
  ASSUME HInv, HistoryNext, NEW r \in Req, CheckStep(r) \/ CheckFails(r)
  PROVE  NowCounts' /\ PastIsRecent' /\ RecentIsPast' /\ SharedPast'
<1> USE CheckChanges
<1>1. \A q \in Req : TenantOf(q) \in Tenant
  BY TenantsKnown DEF HInv, IInv
<1>2. NowCounts'
  <2>1. \A t \in Tenant : rows[t] \in recent[t]
    BY DEF HInv, NowCounts
  <2>2. \A q \in Req : Running(q)' => rows[TenantOf(q)] \in past'[q]
    BY <1>1, <2>1 DEF HInv, NowCounts, Running
  <2>3. QED
    BY <2>1, <2>2 DEF NowCounts
<1>3. PastIsRecent'
  <2>1. ASSUME NEW q \in Req, pc'[q] # "idle", version'[q] = epoch[TenantOf(q)]
        PROVE  past'[q] \subseteq recent[TenantOf(q)]
    <3>1. CASE q = r /\ pc[r] = "idle" /\ ~ReadEpoch(r)
      BY <3>1 DEF HInv, HistoryTypes
    <3>2. CASE q = r /\ ReadEpoch(r)
      BY <3>2
    <3>3. CASE pc[q] # "idle" /\ (q # r \/ ~ReadEpoch(r))
      BY <2>1, <3>3 DEF HInv, PastIsRecent
    <3>4. QED
      BY <2>1, <3>1, <3>2, <3>3
  <2>2. QED
    BY <2>1 DEF PastIsRecent
<1>4. RecentIsPast'
  BY DEF HInv, RecentIsPast, Running
<1>5. SharedPast'
  <2>1. ASSUME NEW p \in Req, NEW q \in Req, pc'[p] # "idle", Running(q)',
               TenantOf(p) = TenantOf(q), version'[p] = version'[q]
        PROVE  past'[p] \subseteq past'[q]
    <3>1. CASE q = r /\ ReadEpoch(r)
      BY <1>3, <2>1, <3>1 DEF PastIsRecent
    <3>2. CASE p = r /\ ReadEpoch(r)
      BY <1>4, <2>1, <3>2 DEF RecentIsPast
    <3>3. CASE ~ReadEpoch(r) \/ (p # r /\ q # r)
      <4>1. past'[p] = past[p] /\ past'[q] = past[q] /\ version[p] = version[q] /\ Running(q)
        BY <2>1, <3>3 DEF Running
      <4>2. CASE pc[p] = "idle"
        BY <4>1, <4>2 DEF HInv, HistoryTypes
      <4>3. CASE pc[p] # "idle"
        BY <2>1, <4>1, <4>3 DEF HInv, SharedPast
      <4>4. QED
        BY <4>2, <4>3
    <3>4. QED
      BY <3>1, <3>2, <3>3
  <2>2. QED
    BY <2>1 DEF SharedPast
<1>6. QED
  BY <1>2, <1>3, <1>4, <1>5

----------------------------------------------------------------------------
(* What checks have read *)

(* A decision that was made stays one that could have been made, as long   *)
(* as the check has read no more and nothing it rests on is forgotten.     *)
LEMMA MadeStays ==
  ASSUME HInv, NEW r \in Req, NEW d, MadeBy(r, d),
         catalog \subseteq catalog', past[r] \subseteq past'[r],
         UNCHANGED <<call[r], seen[r]>>
  PROVE  MadeBy(r, d)'
<1>1. seen[r] \in Rows /\ Keyed(seen[r])
  BY DEF HInv, IInv, TypeOK, SeenKeyed
<1>2. Outcomes(catalog', seen[r], call[r]) = Outcomes(catalog, seen[r], call[r])
  BY <1>1, CatalogIrrelevant
<1>3. QED
  BY <1>2 DEF MadeBy, ReadFrom

LEMMA CheckKeepsReads ==
  ASSUME HInv, HistoryNext, NEW r \in Req, CheckStep(r) \/ CheckFails(r)
  PROVE  SeenKeyed' /\ ReadsCount'
<1>1. /\ UNCHANGED <<catalog, rows, call>>
      /\ \A q \in Req : TenantOf(q)' = TenantOf(q) /\ TenantOf(q) \in Tenant
      /\ \A q \in Req : q # r => UNCHANGED <<pc[q], seen[q], past[q]>>
  BY CheckChanges, TenantsKnown DEF HInv, IInv
<1>2. CASE \E f \in Field : Select(r, f)
  <2>1. PICK f \in Field : Select(r, f)
    BY <1>2
  <2>2. /\ pc[r] = f /\ pc'[r] = After(f)
        /\ seen'[r] = [seen[r] EXCEPT ![f] = rows[TenantOf(r)][f]]
    BY <2>1 DEF Select, HInv, IInv, TypeOK
  <2>3. DOMAIN seen[r] = Field
    BY DEF HInv, IInv, TypeOK, Rows, Field
  <2>4. past'[r] = past[r] /\ rows[TenantOf(r)] \in past[r]
    <3>1. Running(r) /\ ~ReadEpoch(r)
      BY <2>2 DEF Running, ReadEpoch, Field
    <3>2. QED
      BY <3>1, CheckChanges DEF HInv, NowCounts
  <2>5. Keyed(seen'[r])
    <3>1. Keyed(seen[r]) /\ Keyed(rows[TenantOf(r)])
      BY <1>1 DEF HInv, IInv, ForeignKeys, SeenKeyed
    <3>2. /\ seen'[r].grants \in {seen[r].grants, rows[TenantOf(r)].grants}
          /\ seen'[r].direct \in {seen[r].direct, rows[TenantOf(r)].direct}
      BY <2>2, <2>3 DEF Field
    <3>3. QED
      BY <3>1, <3>2 DEF Keyed
  <2>6. ASSUME NEW g \in ReadAt(pc'[r]) PROVE \E v \in past[r] : seen'[r][g] = v[g]
    <3>1. CASE g = f
      BY <2>2, <2>3, <2>4, <3>1
    <3>2. CASE g # f
      <4>1. g \in ReadAt(pc[r]) /\ g \in Field
        BY <2>2, <3>2 DEF ReadAt, After, Field
      <4>2. seen'[r][g] = seen[r][g]
        BY <2>2, <2>3, <3>2, <4>1
      <4>3. QED
        BY <4>1, <4>2 DEF HInv, ReadsCount, ReadFrom
    <3>3. QED
      BY <3>1, <3>2
  <2>7. SeenKeyed'
    BY <1>1, <2>5 DEF HInv, SeenKeyed, Keyed
  <2>8. ReadsCount'
    BY <1>1, <2>4, <2>6 DEF HInv, ReadsCount, ReadFrom
  <2>9. QED
    BY <2>7, <2>8
<1>3. CASE ~\E f \in Field : Select(r, f)
  <2>1. seen'[r] = seen[r]
    BY <1>3 DEF CheckStep, CheckFails, ReadEpoch, Hit, Miss, Decide, Raise, Store
  <2>2. ReadAt(pc'[r]) = {}
    <3>1. pc'[r] \in {"lookup", "roles", "failed", "done", "store"}
      BY <1>3 DEF CheckStep, ReadEpoch, Miss, Raise, Store, CheckFails, Hit, Decide, HInv, IInv,
         TypeOK
    <3>2. QED
      BY <3>1 DEF ReadAt
  <2>3. QED
    BY <1>1, <2>1, <2>2 DEF HInv, SeenKeyed, Keyed, ReadsCount, ReadFrom
<1>4. QED
  BY <1>2, <1>3

LEMMA CheckKeepsDecisions ==
  ASSUME HInv, HistoryNext, NEW r \in Req, CheckStep(r) \/ CheckFails(r)
  PROVE  HeldCounts' /\ EntriesCount' /\ Unanswered'
<1>1. /\ UNCHANGED <<catalog, call>>
      /\ \A q \in Req : q # r => UNCHANGED <<pc[q], version[q], seen[q], answer[q], past[q]>>
      /\ pc[r] # "idle" => UNCHANGED <<version[r], past[r]>>
  BY CheckChanges DEF ReadEpoch
<1>2. ASSUME NEW q \in Req, q # r, NEW d, MadeBy(q, d) PROVE MadeBy(q, d)'
  BY <1>1, <1>2, MadeStays
<1>3. HeldCounts'
  <2>1. ASSUME pc'[r] = "store" PROVE MadeBy(r, answer[r].decision)'
    <3>1. Decide(r)
      <4>1. ASSUME NEW g \in Field, Select(r, g) PROVE FALSE
        BY <4>1, <2>1 DEF Select, After, Field, HInv, IInv, TypeOK
      <4>2. QED
        BY <2>1, <4>1 DEF CheckStep, CheckFails, ReadEpoch, Hit, Miss, Raise, Store, HInv, IInv,
           TypeOK
    <3>2. PICK d \in Outcomes(catalog, seen[r], call[r]) :
            answer' = [answer EXCEPT ![r] = [decision |-> d, id |-> r]]
      BY <3>1 DEF Decide
    <3>3. answer'[r].decision = d
      BY <3>2 DEF HInv, IInv, TypeOK
    <3>4. ReadAt(pc[r]) = Field /\ UNCHANGED <<seen[r], past[r], call[r], catalog>>
      BY <1>1, <3>1 DEF Decide, ReadAt
    <3>5. QED
      BY <3>2, <3>3, <3>4 DEF HInv, ReadsCount, MadeBy, ReadFrom
  <2>2. QED
    BY <1>1, <1>2, <2>1 DEF HInv, HeldCounts
<1>4. EntriesCount'
  <2>1. ASSUME NEW e \in cache
        PROVE  pc'[e.id] = "done" /\ version'[e.id] = e.key.epoch /\ MadeBy(e.id, e.decision)'
    <3>1. /\ e.id \in Req /\ pc[e.id] = "done" /\ version[e.id] = e.key.epoch
          /\ MadeBy(e.id, e.decision)
      BY DEF HInv, IInv, TypeOK, Entry, EntriesCount
    <3>2. e.id # r
      BY <3>1 DEF CheckStep, CheckFails, ReadEpoch, Hit, Miss, Select, Decide, Raise, Store, Field
    <3>3. QED
      BY <1>1, <1>2, <3>1, <3>2
  <2>2. CASE Store(r)
    <3>1. PICK new : new = [key |-> KeyOf(r), decision |-> answer[r].decision, id |-> r]
      OBVIOUS
    <3>2. cache' \subseteq cache \cup {new} /\ pc[r] = "store" /\ pc'[r] = "done"
      BY <2>2, <3>1 DEF Store, HInv, IInv, TypeOK
    <3>3. UNCHANGED <<seen[r], call[r], past[r], version[r], catalog>>
      BY <1>1, <2>2, <3>2 DEF Store
    <3>4. MadeBy(r, new.decision)
      BY <3>1, <3>2 DEF HInv, HeldCounts
    <3>5. \A d : MadeBy(r, d) => MadeBy(r, d)'
      BY <3>3, MadeStays
    <3>6. new.key.epoch = version'[r] /\ new.id = r
      BY <3>1, <3>3 DEF KeyOf, DecisionKey
    <3>7. ASSUME NEW e \in cache'
          PROVE  pc'[e.id] = "done" /\ version'[e.id] = e.key.epoch /\ MadeBy(e.id, e.decision)'
      <4>1. CASE e = new
        <5>1. MadeBy(e.id, e.decision)'
          BY <3>4, <3>5, <3>6, <4>1
        <5>2. QED
          BY <3>2, <3>6, <4>1, <5>1
      <4>2. CASE e \in cache
        BY <2>1, <4>2
      <4>3. QED
        BY <3>2, <4>1, <4>2
    <3>8. QED
      BY <3>7 DEF EntriesCount
  <2>3. CASE ~Store(r)
    <3>1. cache' = cache
      BY <2>3 DEF CheckStep, CheckFails, ReadEpoch, Hit, Miss, Select, Decide, Raise
    <3>2. QED
      BY <2>1, <3>1 DEF EntriesCount
  <2>4. QED
    BY <2>2, <2>3
<1>5. Unanswered'
  <2>1. ASSUME NEW f \in Field, Select(r, f)
        PROVE  answer'[r] = NoAnswer
    BY <2>1 DEF Select, HInv, Unanswered
  <2>2. ASSUME ReadEpoch(r) \/ Miss(r) PROVE answer'[r] = NoAnswer
    BY <2>2 DEF ReadEpoch, Miss, HInv, Unanswered
  <2>3. ASSUME CheckFails(r) \/ (\E e \in cache : Hit(r, e)) \/ Decide(r) \/ Raise(r) \/ Store(r)
        PROVE  pc'[r] \notin {"idle", "lookup", "commit"} \cup Field
    <3>1. pc'[r] \in {"failed", "done", "store"}
      BY <2>3 DEF CheckFails, Hit, Decide, Raise, Store, HInv, IInv, TypeOK
    <3>2. QED
      BY <3>1 DEF Field
  <2>4. pc'[r] \in {"idle", "lookup", "commit"} \cup Field => answer'[r] = NoAnswer
    BY <2>1, <2>2, <2>3 DEF CheckStep
  <2>5. QED
    BY <1>1, <2>4 DEF HInv, Unanswered
<1>6. QED
  BY <1>3, <1>4, <1>5

----------------------------------------------------------------------------
(* The other steps *)

(* A step of an edit or of Redis that leaves the epochs alone.             *)
LEMMA OthersKeep ==
  ASSUME HInv, HistoryNext, UNCHANGED <<epoch, pc, call, version, seen, answer>>,
         catalog \subseteq catalog', cache' \subseteq cache
  PROVE  /\ \A t \in Tenant : recent'[t] = recent[t] \cup {rows'[t]}
         /\ \A r \in Req : past'[r] = IF Running(r) THEN past[r] \cup {rows'[TenantOf(r)]}
                                                    ELSE past[r]
         /\ SeenKeyed' /\ NowCounts' /\ PastIsRecent' /\ RecentIsPast' /\ SharedPast'
         /\ ReadsCount' /\ HeldCounts' /\ EntriesCount' /\ Unanswered'
<1>1. \A r \in Req : /\ TenantOf(r)' = TenantOf(r) /\ TenantOf(r) \in Tenant
                     /\ Running(r)' = Running(r)
  BY TenantsKnown DEF TenantOf, Running, HInv, IInv
<1>2. \A t \in Tenant : recent'[t] = recent[t] \cup {rows'[t]}
  <2>1. \A t \in Tenant : ~Acknowledged(t)
    BY NoIncr DEF HInv, IInv
  <2>2. QED
    BY <2>1 DEF HistoryNext
<1>3. \A r \in Req : past'[r] = IF Running(r) THEN past[r] \cup {rows'[TenantOf(r)]}
                                              ELSE past[r]
  BY <1>1 DEF HistoryNext, Running
<1>4. NowCounts' /\ PastIsRecent' /\ RecentIsPast' /\ SharedPast'
  <2>1. NowCounts'
    BY <1>1, <1>2, <1>3 DEF NowCounts
  <2>2. PastIsRecent'
    BY <1>1, <1>2, <1>3 DEF HInv, PastIsRecent
  <2>3. RecentIsPast'
    BY <1>1, <1>2, <1>3 DEF HInv, RecentIsPast
  <2>4. ASSUME NEW p \in Req, NEW q \in Req, pc[p] # "idle", Running(q),
               TenantOf(p) = TenantOf(q), version[p] = version[q]
        PROVE  past'[p] \subseteq past'[q]
    <3>1. past[p] \subseteq past[q]
      BY <2>4 DEF HInv, SharedPast
    <3>2. QED
      BY <1>3, <2>4, <3>1
  <2>5. SharedPast'
    <3>1. \A p, q \in Req : pc'[p] # "idle" /\ Running(q)' /\ TenantOf(p)' = TenantOf(q)'
                             /\ version'[p] = version'[q] => past'[p] \subseteq past'[q]
      BY <1>1, <2>4
    <3>2. QED
      BY <3>1 DEF SharedPast
  <2>6. QED
    BY <2>1, <2>2, <2>3, <2>5
<1>5. SeenKeyed' /\ Unanswered'
  BY DEF HInv, SeenKeyed, Keyed, Unanswered
<1>6. \A r \in Req : past[r] \subseteq past'[r]
  BY <1>3
<1>7. ReadsCount'
  BY <1>6 DEF HInv, ReadsCount, ReadFrom
<1>8. ASSUME NEW r \in Req, NEW d, MadeBy(r, d) PROVE MadeBy(r, d)'
  BY <1>6, <1>8, MadeStays
<1>9. HeldCounts'
  BY <1>8 DEF HInv, HeldCounts
<1>10. EntriesCount'
  <2>1. \A e \in cache : e.id \in Req
    BY DEF HInv, IInv, TypeOK, Entry
  <2>2. \A e \in cache' : MadeBy(e.id, e.decision)'
    BY <1>8, <2>1 DEF HInv, EntriesCount
  <2>3. QED
    BY <2>2 DEF HInv, EntriesCount
<1>11. QED
  BY <1>2, <1>3, <1>4, <1>5, <1>7, <1>9, <1>10

(* After an INCR no check has read the epoch, and none has been stored     *)
(* under it, so that the older tables can be forgotten.                    *)
LEMMA BumpKeeps ==
  ASSUME HInv, HistoryNext, NEW o \in Op, Bump(o)
  PROVE  /\ recent' = [recent EXCEPT ![op[o].tenant] = {rows[op[o].tenant]}]
         /\ \A r \in Req : past'[r] = past[r]
         /\ SeenKeyed' /\ NowCounts' /\ PastIsRecent' /\ RecentIsPast' /\ SharedPast'
         /\ ReadsCount' /\ HeldCounts' /\ EntriesCount' /\ Unanswered'
<1> DEFINE t == op[o].tenant
<1>1. /\ UNCHANGED <<catalog, rows, cache, pc, call, version, seen, answer>>
      /\ op[o].pc = "bump" /\ t \in Tenant
      /\ epoch'[t] = epoch[t] + 1 /\ epoch \in [Tenant -> Nat]
      /\ \A u \in Tenant : u # t => epoch'[u] = epoch[u]
  BY DEF Bump, check, HInv, IInv, TypeOK, OpState
<1>2. \A r \in Req : /\ TenantOf(r)' = TenantOf(r) /\ TenantOf(r) \in Tenant
                     /\ Running(r)' = Running(r) /\ version[r] <= epoch[TenantOf(r)]
                     /\ version[r] \in Nat
  BY <1>1, TenantsKnown DEF TenantOf, Running, HInv, IInv, Coherence, NotAhead, TypeOK
<1>3. \A u \in Tenant : Acknowledged(u) <=> u = t
  <2>1. ASSUME NEW u \in Tenant, u # t, NEW p \in Op, op[p].tenant = u, Bump(p) PROVE FALSE
    <3>1. epoch'[u] = epoch[u] + 1
      BY <2>1 DEF Bump, HInv, IInv, TypeOK
    <3>2. QED
      BY <1>1, <2>1, <3>1
  <2>2. QED
    BY <1>1, <2>1 DEF Acknowledged
<1>4. \A u \in Tenant : recent'[u] = IF u = t THEN {rows[t]} ELSE recent[u]
  BY <1>1, <1>3 DEF HistoryNext, HInv, NowCounts
<1>5. recent' = [recent EXCEPT ![t] = {rows[t]}]
  <2>1. recent' = [u \in Tenant |-> recent'[u]]
    BY DEF HistoryNext
  <2>2. recent = [u \in Tenant |-> recent[u]]
    BY DEF HInv, HistoryTypes
  <2>3. QED
    BY <1>4, <2>1, <2>2
<1>6. \A r \in Req : past'[r] = past[r]
  BY <1>1, <1>2, PastStays DEF Running
<1>7. NowCounts' /\ SharedPast'
  BY <1>1, <1>2, <1>4, <1>6 DEF HInv, NowCounts, SharedPast
<1>8. \A r \in Req : version[r] = epoch'[TenantOf(r)] =>
                       /\ version[r] = epoch[TenantOf(r)]
                       /\ recent'[TenantOf(r)] = recent[TenantOf(r)]
  BY <1>1, <1>2, <1>4
<1>9. PastIsRecent' /\ RecentIsPast'
  BY <1>1, <1>2, <1>6, <1>8 DEF HInv, PastIsRecent, RecentIsPast
<1>10. SeenKeyed' /\ Unanswered' /\ ReadsCount'
  BY <1>1, <1>6 DEF HInv, SeenKeyed, Keyed, Unanswered, ReadsCount, ReadFrom
<1>11. ASSUME NEW r \in Req, NEW d, MadeBy(r, d) PROVE MadeBy(r, d)'
  BY <1>1, <1>6, <1>11, MadeStays
<1>12. HeldCounts' /\ EntriesCount'
  <2>1. \A e \in cache : e.id \in Req
    BY DEF HInv, IInv, TypeOK, Entry
  <2>2. QED
    BY <1>1, <1>11, <2>1 DEF HInv, HeldCounts, EntriesCount
<1>13. QED
  BY <1>5, <1>6, <1>7, <1>9, <1>10, <1>12

(* The catalog grows, tables are committed, or neither changes.            *)
LEMMA OtherSteps ==
  ASSUME HInv, NEW o \in Op, Edit(o) \/ AuditAdmin(o) \/ EditFails(o)
  PROVE  /\ UNCHANGED <<epoch, cache, pc, call, version, seen, answer>>
         /\ catalog \subseteq catalog'
BY EditShape DEF CreatePermission, Commit, AuditAdmin, EditFails, check, db, HInv, IInv

LEMMA HInvStep == "flush" \notin Faults /\ HInv /\ [HistoryNext]_<<vars, history>> => HInv'
<1> SUFFICES ASSUME "flush" \notin Faults, HInv, [HistoryNext]_<<vars, history>> PROVE HInv'
  OBVIOUS
<1>1. IInv' /\ OnRecord'
  <2>1. [Next]_vars
    BY DEF HistoryNext
  <2>2. QED
    BY <2>1, InvStep, RecordStep DEF HInv, IInv
<1>2. CASE HistoryNext
  <2>1. HistoryTypes'
    BY <1>1, <1>2, HistoryTypesStep
  <2>2. ASSUME NEW r \in Req, CheckStep(r) \/ CheckFails(r) PROVE HInv'
    BY <1>1, <1>2, <2>1, <2>2, CheckKeepsPast, CheckKeepsReads, CheckKeepsDecisions DEF HInv
  <2>3. ASSUME NEW o \in Op, Bump(o) PROVE HInv'
    BY <1>1, <1>2, <2>1, <2>3, BumpKeeps DEF HInv
  <2>4. ASSUME NEW o \in Op, Edit(o) \/ AuditAdmin(o) \/ EditFails(o) PROVE HInv'
    BY <1>1, <1>2, <2>1, <2>4, OtherSteps, OthersKeep DEF HInv
  <2>5. ASSUME NEW e \in cache, Expire(e) PROVE HInv'
    <3>1. UNCHANGED <<epoch, pc, call, version, seen, answer, catalog>> /\ cache' \subseteq cache
      BY <2>5 DEF Expire, check, db
    <3>2. QED
      BY <1>1, <1>2, <2>1, <3>1, OthersKeep DEF HInv
  <2>6. ~Flush
    BY DEF Flush
  <2>7. QED
    BY <1>2, <2>2, <2>3, <2>4, <2>5, <2>6 DEF HistoryNext, Next, EditStep
<1>3. CASE UNCHANGED <<vars, history>>
  <2>1. UNCHANGED <<catalog, rows, epoch, cache, pc, call, version, seen, answer, recent, past>>
    BY <1>3 DEF vars, db, check, history
  <2>2. \A r \in Req : TenantOf(r)' = TenantOf(r)
    BY <2>1 DEF TenantOf
  <2>3. HistoryTypes' /\ SeenKeyed' /\ NowCounts' /\ PastIsRecent' /\ RecentIsPast' /\ SharedPast'
    BY <2>1, <2>2 DEF HInv, HistoryTypes, SeenKeyed, Keyed, NowCounts, PastIsRecent, RecentIsPast,
       SharedPast, Running
  <2>4. ReadsCount' /\ HeldCounts' /\ EntriesCount' /\ Unanswered'
    BY <2>1 DEF HInv, ReadsCount, HeldCounts, EntriesCount, Unanswered, ReadFrom, MadeBy
  <2>5. QED
    BY <1>1, <2>3, <2>4 DEF HInv
<1>4. QED
  BY <1>2, <1>3

LEMMA HInvInit == HistoryInit => HInv
<1> SUFFICES ASSUME HistoryInit PROVE HInv
  OBVIOUS
<1>1. Init /\ IInv /\ OnRecord
  BY InitTypes, InitCoherence DEF HistoryInit, IInv, Init, OnRecord
<1>2. \A t \in Tenant : rows[t] \in Rows
  BY <1>1 DEF IInv, TypeOK
<1>3. HistoryTypes /\ NowCounts
  BY <1>1, <1>2 DEF HistoryInit, HistoryTypes, Init, NowCounts, Running
<1>4. SeenKeyed
  BY <1>1 DEF Init, SeenKeyed, Keyed, EmptyRows, Field
<1>5. ReadsCount
  <2>1. \A r \in Req : ReadAt(pc[r]) = {}
    BY <1>1 DEF Init, ReadAt
  <2>2. QED
    BY <2>1 DEF ReadsCount
<1>6. PastIsRecent /\ RecentIsPast /\ SharedPast /\ HeldCounts /\ EntriesCount /\ Unanswered
  BY <1>1 DEF Init, PastIsRecent, RecentIsPast, SharedPast, HeldCounts, EntriesCount, Unanswered,
     Running
<1>7. QED
  BY <1>1, <1>3, <1>4, <1>5, <1>6 DEF HInv

----------------------------------------------------------------------------
(* The refinement *)

(* The decisions on record. *)
LEMMA RecordStays ==
  ASSUME TypeOK, UNCHANGED audit PROVE (audit \cap Decided)' = audit \cap Decided
OBVIOUS

(* A check's step changes what its question shows, and no other question.  *)
LEMMA StateChanges ==
  ASSUME HInv, HistoryNext, NEW r \in Req, CheckStep(r) \/ CheckFails(r)
  PROVE  /\ [q \in Req |-> StateOf(q)]'
              = [[q \in Req |-> StateOf(q)] EXCEPT ![r] = StateOf(r)']
         /\ past' = [past EXCEPT ![r] = past'[r]]
         /\ ~ReadEpoch(r) => past' = past
         /\ UNCHANGED <<catalog, rows, recent, call>>
<1>1. /\ \A q \in Req : q # r => UNCHANGED <<pc[q], past[q]>>
      /\ UNCHANGED <<catalog, rows, recent, call>>
  BY CheckChanges
<1>2. \A q \in Req : q # r => StateOf(q)' = StateOf(q)
  BY <1>1 DEF StateOf
<1>3. past = [q \in Req |-> past[q]] /\ past' = [q \in Req |-> past'[q]]
  BY PastIsPicked DEF HInv, HistoryTypes
<1>4. ~ReadEpoch(r) => past' = past
  <2>1. ~ReadEpoch(r) => \A q \in Req : past'[q] = past[q]
    BY CheckChanges
  <2>2. QED
    BY <1>3, <2>1
<1>5. QED
  BY <1>1, <1>2, <1>3, <1>4

LEMMA ReadEpochAsks ==
  ASSUME HInv, HistoryNext, NEW r \in Req, ReadEpoch(r)
  PROVE  Promise!Ask(r)
<1>1. CheckStep(r)
  BY DEF CheckStep
<1>2. past'[r] = recent[TenantOf(r)]
  BY <1>1, CheckChanges
<1>3. StateOf(r) = "idle" /\ StateOf(r)' = "asked"
  BY DEF ReadEpoch, StateOf, HInv, IInv, TypeOK
<1>4. UNCHANGED <<audit, answer>>
  BY DEF ReadEpoch
<1>5. QED
  BY <1>1, <1>2, <1>3, <1>4, StateChanges DEF Promise!Ask, Promise!tables, Promise!TenantOf, TenantOf

LEMMA QuietCheck ==
  ASSUME HInv, HistoryNext, NEW r \in Req, Miss(r) \/ \E f \in Field : Select(r, f)
  PROVE  UNCHANGED Promise!vars
<1>1. CheckStep(r) /\ ~ReadEpoch(r)
  BY DEF CheckStep, Miss, Select, ReadEpoch, Field
<1>2. StateOf(r) = "asked" /\ StateOf(r)' = "asked"
  BY DEF Miss, Select, StateOf, After, Field, HInv, IInv, TypeOK
<1>3. [q \in Req |-> StateOf(q)]' = [q \in Req |-> StateOf(q)]
  BY <1>1, <1>2, StateChanges
<1>4. UNCHANGED <<audit, answer>>
  BY DEF Miss, Select
<1>5. QED
  BY <1>1, <1>3, <1>4, StateChanges DEF Promise!vars, Promise!tables, Promise!questions

(* What a check reads table by table is a pick from its past.              *)
LEMMA MadeRests ==
  ASSUME HInv, NEW r \in Req, NEW d, MadeBy(r, d), NEW given, past[r] \subseteq given
  PROVE  Promise!RestsOn(d, call[r], given)
<1>1. \A f \in Field : \E v \in given : seen[r][f] = v[f]
  BY DEF MadeBy, ReadFrom
<1> DEFINE pick == [f \in Field |-> CHOOSE v \in given : seen[r][f] = v[f]]
<1>2. \A f \in Field : pick[f] \in given /\ seen[r][f] = pick[f][f]
  BY <1>1
<1>3. seen[r] = [f \in Field |-> pick[f][f]]
  BY <1>2 DEF HInv, IInv, TypeOK, Rows, Field
<1>4. pick \in [Field -> given]
  BY <1>2
<1>5. QED
  BY <1>3, <1>4 DEF Promise!RestsOn, MadeBy

LEMMA DecideDecides ==
  ASSUME HInv, HistoryNext, NEW r \in Req, Decide(r)
  PROVE  \E d \in Effect : Promise!Decide(r, d)
<1>1. CheckStep(r) /\ ~ReadEpoch(r)
  BY DEF CheckStep, Decide, ReadEpoch
<1>2. PICK d \in Outcomes(catalog, seen[r], call[r]) \cap Effect :
        /\ answer' = [answer EXCEPT ![r] = [decision |-> d, id |-> r]]
        /\ audit' = audit \cup {Promise!Record(call[r], d, r)}
  BY DEF Decide, Promise!Record, TenantOf
<1>3. MadeBy(r, d)
  <2>1. ReadAt(pc[r]) = Field
    BY DEF Decide, ReadAt
  <2>2. QED
    BY <1>2, <2>1 DEF HInv, ReadsCount, MadeBy
<1>4. Promise!RestsOn(d, call[r], past[r])
  BY <1>3, MadeRests
<1>5. Promise!Record(call[r], d, r) \in Decided
  <2>1. call[r] \in Call /\ TenantOf(r) \in Tenant
    BY TenantsKnown DEF HInv, IInv, TypeOK
  <2>2. QED
    BY <1>2, <2>1 DEF Promise!Record, Decided, Call, Subject, TenantOf
<1>6. (audit \cap Decided)' = (audit \cap Decided) \cup {Promise!Record(call[r], d, r)}
  BY <1>2, <1>5
<1>7. StateOf(r) = "asked" /\ StateOf(r)' = "decided"
  BY DEF Decide, StateOf, HInv, IInv, TypeOK
<1>8. past' = past
  BY <1>1, StateChanges
<1>9. QED
  BY <1>1, <1>2, <1>4, <1>6, <1>7, <1>8, StateChanges DEF Promise!Decide, Promise!tables

LEMMA StoreAnswers ==
  ASSUME HInv, HistoryNext, NEW r \in Req, Store(r)
  PROVE  Promise!Answer(r)
<1>1. CheckStep(r) /\ ~ReadEpoch(r)
  BY DEF CheckStep, Store, ReadEpoch
<1>2. StateOf(r) = "decided" /\ StateOf(r)' = "answered"
  BY DEF Store, StateOf, HInv, IInv, TypeOK
<1>3. past' = past
  BY <1>1, StateChanges
<1>4. UNCHANGED <<audit, answer>>
  BY DEF Store
<1>5. QED
  BY <1>1, <1>2, <1>3, <1>4, StateChanges DEF Promise!Answer, Promise!tables

(* The check that made a cached decision read the same epoch, so what its  *)
(* answer rested on, the answer of the check that is served may rest on.   *)
LEMMA HitRepeats ==
  ASSUME HInv, HistoryNext, NEW r \in Req, NEW e \in cache, Hit(r, e)
  PROVE  e.id \in Req /\ Promise!Repeat(r, e.id, e.decision)
<1>1. CheckStep(r) /\ ~ReadEpoch(r) /\ pc[r] = "lookup" /\ e.key = KeyOf(r)
  BY DEF CheckStep, Hit, ReadEpoch
<1>2. /\ e \in Entry /\ e.id \in Req
      /\ pc[e.id] = "done" /\ version[e.id] = version[r] /\ MadeBy(e.id, e.decision)
      /\ TenantOf(e.id) = TenantOf(r)
  BY <1>1 DEF HInv, IInv, TypeOK, Entry, EntriesCount, KeyOf, DecisionKey, TenantOf, Coherence,
     EntryTenant
<1>3. past[e.id] \subseteq past[r]
  BY <1>1, <1>2 DEF HInv, SharedPast, Running
<1>4. Promise!RestsOn(e.decision, call[e.id], past[r])
  BY <1>2, <1>3, MadeRests
<1>5. Promise!Record(call[r], e.decision, e.id) \in audit \cap Decided
  <2>1. KeyRecord(e.key, e.decision, e.id) = Promise!Record(call[r], e.decision, e.id)
    BY <1>1 DEF KeyRecord, Promise!Record, KeyOf, DecisionKey
  <2>2. KeyRecord(e.key, e.decision, e.id) \in Decided
    BY <1>2 DEF KeyRecord, Decided, Entry, Key
  <2>3. QED
    BY <2>1, <2>2 DEF HInv, OnRecord
<1>6. StateOf(r) = "asked" /\ StateOf(r)' = "answered"
  BY DEF Hit, StateOf, HInv, IInv, TypeOK
<1>7. past' = past
  BY <1>1, StateChanges
<1>8. UNCHANGED audit /\ answer' = [answer EXCEPT ![r] = [decision |-> e.decision, id |-> e.id]]
  BY DEF Hit
<1>9. QED
  BY <1>1, <1>2, <1>4, <1>5, <1>6, <1>7, <1>8, StateChanges
  DEF Promise!Repeat, Promise!tables

LEMMA FailureFails ==
  ASSUME HInv, HistoryNext, NEW r \in Req, Raise(r) \/ CheckFails(r)
  PROVE  Promise!Fail(r)
<1>1. (CheckStep(r) \/ CheckFails(r)) /\ ~ReadEpoch(r)
  BY DEF CheckStep, Raise, CheckFails, ReadEpoch, HInv, IInv, TypeOK
<1>2. StateOf(r) \in {"idle", "asked", "decided"} /\ StateOf(r)' = "failed"
  BY DEF Raise, CheckFails, StateOf, HInv, IInv, TypeOK
<1>3. past' = past
  BY <1>1, StateChanges
<1>4. answer' = [answer EXCEPT ![r] = NoAnswer] /\ UNCHANGED audit
  BY DEF Raise, CheckFails, HInv, Unanswered, IInv, TypeOK
<1>5. QED
  BY <1>1, <1>2, <1>3, <1>4, StateChanges DEF Promise!Fail, Promise!tables

(* A step that leaves the tables and the checks alone changes no history.  *)
LEMMA HistoryStays ==
  ASSUME HInv, HistoryNext, UNCHANGED <<rows, epoch, pc, call>>
  PROVE  UNCHANGED <<recent, past>> /\ [r \in Req |-> StateOf(r)]' = [r \in Req |-> StateOf(r)]
<1>1. \A r \in Req : past'[r] = past[r]
  <2>1. \A r \in Req : pc[r] # "idle" \/ ~Running(r)'
    BY DEF Running
  <2>2. QED
    BY <2>1, PastStays
<1>2. past' = past
  BY <1>1, PastIsPicked DEF HInv, HistoryTypes
<1>3. QED
  BY <1>2, RecentStays DEF StateOf

LEMMA CommitEdits ==
  ASSUME HInv, TypeOK', HistoryNext, NEW o \in Op, NEW t \in Tenant, NEW new, Commit(o, t, new)
  PROVE  Promise!Edit(t)
<1>1. /\ rows' = [rows EXCEPT ![t] = new]
      /\ UNCHANGED <<catalog, epoch, cache, audit, pc, call, version, seen, answer>>
  BY DEF Commit, check
<1>2. /\ rows' \in [Tenant -> Rows]
      /\ \A u \in Tenant \ {t} : rows'[u] = rows[u]
  BY <1>1 DEF TypeOK
<1>3. /\ \A u \in Tenant : recent'[u] = recent[u] \cup {rows'[u]}
      /\ \A r \in Req : past'[r] = IF Running(r) THEN past[r] \cup {rows'[TenantOf(r)]}
                                                 ELSE past[r]
  BY <1>1, OthersKeep
<1>4. recent' = [recent EXCEPT ![t] = @ \cup {rows'[t]}]
  <2>1. ASSUME NEW u \in Tenant \ {t} PROVE recent'[u] = recent[u]
    <3>1. rows'[u] \in recent[u]
      BY <1>2 DEF HInv, NowCounts
    <3>2. QED
      BY <1>3, <3>1
  <2>2. recent = [u \in Tenant |-> recent[u]] /\ recent' = [u \in Tenant |-> recent'[u]]
    BY DEF HInv, HistoryTypes, HistoryNext
  <2>3. QED
    BY <1>3, <2>1, <2>2
<1>5. \A r \in Req : /\ TenantOf(r) \in Tenant
                     /\ StateOf(r) \in {"asked", "decided"} <=> Running(r)
  BY TenantsKnown DEF HInv, IInv, TypeOK, StateOf, Running
<1>6. past' = [r \in Req |-> IF StateOf(r) \in {"asked", "decided"} /\ TenantOf(r) = t
                             THEN past[r] \cup {rows'[t]} ELSE past[r]]
  <2>1. \A r \in Req : TenantOf(r) # t /\ Running(r) => rows'[TenantOf(r)] \in past[r]
    BY <1>2, <1>5 DEF HInv, NowCounts
  <2>2. \A r \in Req : past'[r] = IF StateOf(r) \in {"asked", "decided"} /\ TenantOf(r) = t
                                  THEN past[r] \cup {rows'[t]} ELSE past[r]
    BY <1>3, <1>5, <2>1
  <2>3. QED
    BY <2>2, PastIsPicked
<1>7. [r \in Req |-> StateOf(r)]' = [r \in Req |-> StateOf(r)]
  BY <1>1 DEF StateOf
<1>8. QED
  BY <1>1, <1>2, <1>4, <1>6, <1>7 DEF Promise!Edit, Promise!Waiting, Promise!TenantOf, TenantOf

LEMMA CatalogExtends ==
  ASSUME HInv, HistoryNext, NEW o \in Op, NEW p \in Perm, CreatePermission(o, p)
  PROVE  Promise!Extend(p)
BY HistoryStays DEF CreatePermission, check, Promise!Extend, Promise!questions

LEMMA BumpAcknowledges ==
  ASSUME HInv, HistoryNext, NEW o \in Op, Bump(o)
  PROVE  op[o].tenant \in Tenant /\ Promise!Acknowledge(op[o].tenant)
<1>1. op[o].tenant \in Tenant
  BY DEF Bump, HInv, IInv, TypeOK, OpState
<1>2. UNCHANGED <<catalog, rows, audit, pc, call, answer>>
  BY DEF Bump, check
<1>3. /\ recent' = [recent EXCEPT ![op[o].tenant] = {rows[op[o].tenant]}]
      /\ \A r \in Req : past'[r] = past[r]
  BY BumpKeeps
<1>4. past' = past
  BY <1>3, PastIsPicked DEF HInv, HistoryTypes
<1>5. [r \in Req |-> StateOf(r)]' = [r \in Req |-> StateOf(r)]
  BY <1>2 DEF StateOf
<1>6. QED
  BY <1>1, <1>2, <1>3, <1>4, <1>5 DEF Promise!Acknowledge, Promise!questions

LEMMA QuietOthers ==
  ASSUME HInv, HistoryNext, UNCHANGED <<db, epoch, check>>,
         (audit \cap Decided)' = audit \cap Decided
  PROVE  UNCHANGED Promise!vars
BY HistoryStays DEF db, check, Promise!vars, Promise!tables, Promise!questions

LEMMA PromiseStep ==
  "flush" \notin Faults /\ HInv /\ TypeOK' /\ [HistoryNext]_<<vars, history>>
    => [Promise!Next]_(Promise!vars)
<1> SUFFICES ASSUME "flush" \notin Faults, HInv, TypeOK', HistoryNext
             PROVE  [Promise!Next]_(Promise!vars)
  <2>1. UNCHANGED <<vars, history>> => UNCHANGED Promise!vars
    BY DEF vars, db, check, history, Promise!vars, Promise!tables, Promise!questions, StateOf
  <2>2. QED
    BY <2>1
<1>1. ASSUME NEW r \in Req, CheckStep(r) \/ CheckFails(r) PROVE [Promise!Next]_(Promise!vars)
  <2>1. CASE ReadEpoch(r)
    BY <2>1, ReadEpochAsks DEF Promise!Next
  <2>2. ASSUME NEW e \in cache, Hit(r, e) PROVE [Promise!Next]_(Promise!vars)
    <3>1. e.id \in Req /\ e.decision \in Effect /\ Promise!Repeat(r, e.id, e.decision)
      BY <2>2, HitRepeats DEF HInv, IInv, TypeOK, Entry
    <3>2. QED
      BY <3>1 DEF Promise!Next
  <2>3. CASE Miss(r) \/ \E f \in Field : Select(r, f)
    BY <2>3, QuietCheck
  <2>4. CASE Decide(r)
    BY <2>4, DecideDecides DEF Promise!Next
  <2>5. CASE Raise(r) \/ CheckFails(r)
    BY <2>5, FailureFails DEF Promise!Next
  <2>6. CASE Store(r)
    BY <2>6, StoreAnswers DEF Promise!Next
  <2>7. QED
    BY <1>1, <2>1, <2>2, <2>3, <2>4, <2>5, <2>6 DEF CheckStep
<1>2. ASSUME NEW o \in Op, Edit(o) PROVE [Promise!Next]_(Promise!vars)
  <2>1. ASSUME NEW p \in Perm, CreatePermission(o, p) PROVE [Promise!Next]_(Promise!vars)
    BY <2>1, CatalogExtends DEF Promise!Next
  <2>2. ASSUME NEW t \in Tenant, NEW new \in Rows, Commit(o, t, new)
        PROVE  [Promise!Next]_(Promise!vars)
    BY <2>2, CommitEdits DEF Promise!Next
  <2>3. QED
    BY <1>2, <2>1, <2>2, EditShape DEF HInv, IInv
<1>3. ASSUME NEW o \in Op, Bump(o) PROVE [Promise!Next]_(Promise!vars)
  BY <1>3, BumpAcknowledges DEF Promise!Next
<1>4. ASSUME NEW o \in Op, AuditAdmin(o) PROVE [Promise!Next]_(Promise!vars)
  <2>1. audit' = audit \cup {[op |-> o, tenant |-> op[o].tenant]}
    BY <1>4 DEF AuditAdmin
  <2>2. [op |-> o, tenant |-> op[o].tenant] \notin Decided
    BY DEF Decided
  <2>3. (audit \cap Decided)' = audit \cap Decided
    BY <2>1, <2>2
  <2>4. QED
    BY <1>4, <2>3, QuietOthers DEF AuditAdmin
<1>5. ASSUME (\E o \in Op : EditFails(o)) \/ (\E e \in cache : Expire(e))
      PROVE  [Promise!Next]_(Promise!vars)
  BY <1>5, QuietOthers DEF EditFails, Expire
<1>6. ~Flush
  BY DEF Flush
<1>7. QED
  BY <1>1, <1>2, <1>3, <1>4, <1>5, <1>6 DEF HistoryNext, Next, EditStep

LEMMA PromiseInit == HistoryInit => Promise!Init
<1> SUFFICES ASSUME HistoryInit PROVE Promise!Init
  OBVIOUS
<1>1. audit \cap Decided = {}
  BY DEF HistoryInit, Init
<1>2. [r \in Req |-> StateOf(r)] = [r \in Req |-> "idle"]
  BY DEF HistoryInit, Init, StateOf
<1>3. QED
  BY <1>1, <1>2 DEF HistoryInit, Init, Promise!Init

(* What a check returns rests on tables its tenant has had since the last  *)
(* edit acknowledged before the check came, and is a decision on record,   *)
(* whatever runs concurrently and whatever fails, as long as Redis keeps   *)
(* its data: the cache keyed by epoch, with the epoch read first and the   *)
(* INCR after the COMMIT, implements this (main.py:163-196, cache.py).     *)
THEOREM PdpKeepsItsPromise == "flush" \notin Faults /\ HistorySpec => PromiseKept
<1> SUFFICES ASSUME "flush" \notin Faults PROVE HistorySpec => PromiseKept
  OBVIOUS
<1>1. HistoryInit => HInv /\ Promise!Init
  BY HInvInit, PromiseInit
<1>2. HInv /\ [HistoryNext]_<<vars, history>> => HInv'
  BY HInvStep
<1>3. HInv /\ HInv' /\ [HistoryNext]_<<vars, history>> => [Promise!Next]_(Promise!vars)
  BY PromiseStep DEF HInv, IInv
<1>4. QED
  BY <1>1, <1>2, <1>3, PTL DEF HistorySpec, PromiseKept, Promise!Spec
=============================================================================
