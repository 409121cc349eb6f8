----------------------------- MODULE ClientProofs -----------------------------
(* Theorems about what the API stores and what the web client shows of it while *)
(* requests overlap: the numbering of versions (Versions), for any number of    *)
(* requests at once; the gates of a new run (Datasets), for any signals that    *)
(* arrive meanwhile; the selection of tokens by chain (CaSelection), for every  *)
(* market and any number of requests that are out; the drawings of a chart      *)
(* (ChartDrawing), for every set of drawings, mounts and bars; the reason that  *)
(* is shown of an exit (Evidence), for every series and condition group; and    *)
(* the waves of runs (RollingBatch), for any manifest, any chains and scores,   *)
(* any number of advancers and of disturbances.                                 *)
EXTENDS RollingBatch, Versions, Datasets, CaSelection, ChartDrawing, Evidence,
  CommonTheorems, FunctionTheorems, SequenceTheorems

(* -------------------------------- Versions -------------------------------- *)

VersionsSpec == VersionsInit /\ [][VersionsNext]_vvars

(* Who is past `SELECT .. FOR UPDATE`, and who has read the number under it.    *)
Locking == {"locked", "numbered", "inserted"}
Numbering == {"numbered", "inserted"}
Adding == [at : {"begun", "locked", "numbered", "inserted"}, t : Nat, content : Contents, n : Nat, id : Nat]
Rows == [id : Nat, template : Nat, number : Nat, content : Contents, rule : {"v2"}]
RowsOf(V, t) == {v \in V : v.template = t}
Size(V, t) == Cardinality(RowsOf(V, t))
InOrder(V, T) ==
  \A t \in DOMAIN T :
    /\ {v.number : v \in RowsOf(V, t)} = 1..Size(V, t)
    /\ \A v \in RowsOf(V, t) : v.id = T[t].current <=> v.number = Size(V, t)

VTypes ==
  /\ \E k \in Nat : DOMAIN templates = 1..k
  /\ templates \in [DOMAIN templates -> [current : Nat, status : {"draft", "archived"}]]
  /\ versions \subseteq Rows /\ IsFiniteSet(versions)
  /\ \A v \in versions : v.template \in DOMAIN templates
  /\ requests \in [Callers -> {NoRequest} \cup Adding]
  /\ \A c \in Callers : requests[c] # NoRequest => requests[c].t \in DOMAIN templates
  /\ lockOf \in [DOMAIN templates -> Callers \cup {Free}]
  /\ nextId \in Nat

(* A row lock belongs to the request that is between SELECT .. FOR UPDATE and   *)
(* COMMIT or ROLLBACK on that template.                                         *)
Locks ==
  \A c \in Callers, t \in DOMAIN templates :
    lockOf[t] = c <=> (requests[c].at \in Locking /\ requests[c].t = t)

(* The number read under the lock is still the next one.                        *)
NextNumber == \A c \in Callers : requests[c].at \in Numbering => requests[c].n = Size(versions, requests[c].t) + 1

(* Ids are drawn once.                                                          *)
IdsDrawn ==
  /\ \A v \in versions : v.id \in 1..nextId
  /\ \A c \in Callers : requests[c].at = "inserted" =>
       /\ requests[c].id \in 1..nextId
       /\ \A v \in versions : v.id # requests[c].id
       /\ \A d \in Callers : d # c /\ requests[d].at = "inserted" => requests[d].id # requests[c].id

VersionsInv == VTypes /\ Locks /\ NextNumber /\ IdsDrawn /\ VersionsInOrder

LEMMA VersionsInvInit == VersionsInit => VersionsInv
<1> SUFFICES ASSUME VersionsInit PROVE VersionsInv
  OBVIOUS
<1>1. DOMAIN templates = {} /\ DOMAIN lockOf = {} /\ 1..0 = {}
  BY DEF VersionsInit
<1>2. VTypes
  BY <1>1, FS_EmptySet DEF VersionsInit, VTypes
<1>3. Locks /\ NextNumber /\ IdsDrawn /\ VersionsInOrder
  BY <1>1 DEF VersionsInit, Locks, NextNumber, IdsDrawn, VersionsInOrder, NoRequest, Locking, Numbering
<1>4. QED
  BY <1>2, <1>3 DEF VersionsInv

(* The versions of a template after one row was added.                          *)
LEMMA RowAdded ==
  ASSUME VTypes, NEW row \in Rows, row \notin versions, versions' = versions \cup {row}
  PROVE  /\ IsFiniteSet(versions')
         /\ RowsOf(versions', row.template) = RowsOf(versions, row.template) \cup {row}
         /\ Size(versions', row.template) = Size(versions, row.template) + 1
         /\ \A t : t # row.template => RowsOf(versions', t) = RowsOf(versions, t) /\ Size(versions', t) = Size(versions, t)
<1>1. IsFiniteSet(versions')
  BY FS_AddElement DEF VTypes
<1>2. RowsOf(versions', row.template) = RowsOf(versions, row.template) \cup {row}
  BY DEF RowsOf
<1>3. \A t : t # row.template => RowsOf(versions', t) = RowsOf(versions, t)
  BY DEF RowsOf
<1>4. IsFiniteSet(RowsOf(versions, row.template)) /\ row \notin RowsOf(versions, row.template)
  BY FS_Subset DEF VTypes, RowsOf
<1>5. Size(versions', row.template) = Size(versions, row.template) + 1
  BY <1>2, <1>4, FS_AddElement DEF Size
<1>6. QED
  BY <1>1, <1>2, <1>3, <1>5 DEF Size

LEMMA SizeIsNat == ASSUME VTypes, NEW t PROVE IsFiniteSet(RowsOf(versions, t)) /\ Size(versions, t) \in Nat
BY FS_Subset, FS_CardinalityType DEF VTypes, RowsOf, Size

(* VersionsInOrder in terms of Of and Size.                                     *)
LEMMA OrderForm ==
  /\ VersionsInOrder <=> ~refused /\ InOrder(versions, templates)
  /\ VersionsInOrder' <=> ~refused' /\ InOrder(versions', templates')
BY DEF VersionsInOrder, VersionsOf, InOrder, RowsOf, Size

(* Steps that add no version and only move one request on.                      *)
LEMMA PatchStep ==
  ASSUME VersionsInv, NEW t \in DOMAIN templates, NEW s \in {"draft", "archived"}, PatchTemplate(t, s)
  PROVE  VersionsInv'
<1>1. /\ DOMAIN templates' = DOMAIN templates
      /\ templates' \in [DOMAIN templates -> [current : Nat, status : {"draft", "archived"}]]
      /\ \A u \in DOMAIN templates : templates'[u].current = templates[u].current
  BY DEF VersionsInv, VTypes, PatchTemplate
<1>2. /\ UNCHANGED <<versions, requests, lockOf, nextId, refused>>
  BY DEF PatchTemplate
<1>3. VTypes'
  BY <1>1, <1>2 DEF VersionsInv, VTypes
<1>4. Locks' /\ NextNumber' /\ IdsDrawn'
  BY <1>1, <1>2 DEF VersionsInv, Locks, NextNumber, IdsDrawn
<1>5. VersionsInOrder'
  BY <1>1, <1>2, OrderForm DEF VersionsInv, InOrder
<1>6. QED
  BY <1>3, <1>4, <1>5 DEF VersionsInv

LEMMA MakeStep ==
  ASSUME VersionsInv, NEW S, S = {} \/ (\E x \in Contents : S = {x}), NEW st \in {"draft", "archived"}, MakeTemplate(S, st)
  PROVE  VersionsInv'
<1>1. PICK k \in Nat : DOMAIN templates = 1..k
  BY DEF VersionsInv, VTypes
<1>a. PICK t : t = k + 1
  OBVIOUS
<1>2. t \in Nat /\ t \notin DOMAIN templates /\ DOMAIN templates \cup {t} = 1..t /\ Cardinality(DOMAIN templates) + 1 = t
  BY <1>1, <1>a, FS_Interval
<1>3. /\ nextId' = nextId + Cardinality(S)
      /\ versions' = versions \cup {VersionRow(nextId + 1, t, 1, s) : s \in S}
      /\ templates' = [u \in DOMAIN templates \cup {t} |->
           IF u = t THEN [current |-> IF S = {} THEN 0 ELSE nextId + 1, status |-> st] ELSE templates[u]]
      /\ lockOf' = [u \in DOMAIN templates \cup {t} |-> IF u = t THEN Free ELSE lockOf[u]]
      /\ UNCHANGED <<requests, refused>>
  BY <1>2 DEF MakeTemplate
<1>4. /\ DOMAIN templates' = 1..t
      /\ templates' \in [DOMAIN templates' -> [current : Nat, status : {"draft", "archived"}]]
      /\ lockOf' \in [DOMAIN templates' -> Callers \cup {Free}]
      /\ \A u \in DOMAIN templates : u \in DOMAIN templates' /\ u # t /\ templates'[u] = templates[u] /\ lockOf'[u] = lockOf[u]
      /\ lockOf'[t] = Free
      /\ templates'[t].current = IF S = {} THEN 0 ELSE nextId + 1
  BY <1>2, <1>3 DEF VersionsInv, VTypes
<1>5. RowsOf(versions, t) = {} /\ Size(versions, t) = 0 /\ \A c \in Callers : requests[c] # NoRequest => requests[c].t # t
  <2>1. RowsOf(versions, t) = {}
    BY <1>2 DEF VersionsInv, VTypes, RowsOf
  <2>2. Size(versions, t) = 0
    BY <2>1, FS_EmptySet DEF Size
  <2>3. QED
    BY <2>1, <2>2, <1>2 DEF VersionsInv, VTypes
<1>6. Locks'
  BY <1>3, <1>4, <1>5, FreeIsNobody DEF VersionsInv, VTypes, Locks, Locking, NoRequest
<1>7. CASE S = {}
  <2>1. nextId' = nextId /\ versions' = versions
    BY <1>3, <1>7, FS_EmptySet DEF VersionsInv, VTypes
  <2>3. VTypes'
    BY <2>1, <1>2, <1>3, <1>4 DEF VersionsInv, VTypes
  <2>4. NextNumber' /\ IdsDrawn'
    BY <2>1, <1>3 DEF VersionsInv, NextNumber, IdsDrawn
  <2>5. VersionsInOrder'
    <3>1. ~refused'
      BY <1>3 DEF VersionsInv, VersionsInOrder
    <3>2. 1..0 = {}
      OBVIOUS
    <3>3. ASSUME NEW u \in DOMAIN templates'
          PROVE  /\ {v.number : v \in RowsOf(versions', u)} = 1..Size(versions', u)
                 /\ \A v \in RowsOf(versions', u) : v.id = templates'[u].current <=> v.number = Size(versions', u)
      <4>1. CASE u = t
        BY <4>1, <2>1, <1>5, <3>2
      <4>2. CASE u # t
        BY <4>2, <2>1, <1>2, <1>4, OrderForm DEF VersionsInv, InOrder
      <4>3. QED
        BY <4>1, <4>2
    <3>4. QED
      BY <3>1, <3>3, OrderForm DEF InOrder
  <2>6. QED
    BY <1>6, <2>3, <2>4, <2>5 DEF VersionsInv
<1>8. ASSUME NEW x \in Contents, S = {x} PROVE VersionsInv'
  <2>0. PICK row : row = VersionRow(nextId + 1, t, 1, x)
    OBVIOUS
  <2>1. /\ row \in Rows /\ row.template = t /\ row.number = 1 /\ row.id = nextId + 1
        /\ versions' = versions \cup {row}
        /\ nextId' = nextId + 1 /\ nextId' \in Nat
    <3>1. Cardinality(S) = 1
      BY <1>8, FS_Singleton
    <3>2. {VersionRow(nextId + 1, t, 1, s) : s \in S} = {row}
      BY <1>8, <2>0
    <3>3. QED
      BY <3>1, <3>2, <2>0, <1>2, <1>3 DEF VersionsInv, VTypes, VersionRow, Rows
  <2>2. row \notin versions /\ \A v \in versions : v.id # row.id
    BY <2>1 DEF VersionsInv, IdsDrawn, VTypes
  <2>3. /\ IsFiniteSet(versions')
        /\ RowsOf(versions', t) = {row} /\ Size(versions', t) = 1
        /\ \A u : u # t => RowsOf(versions', u) = RowsOf(versions, u) /\ Size(versions', u) = Size(versions, u)
    <3>1. /\ IsFiniteSet(versions')
          /\ RowsOf(versions', t) = RowsOf(versions, t) \cup {row} /\ Size(versions', t) = Size(versions, t) + 1
          /\ \A u : u # t => RowsOf(versions', u) = RowsOf(versions, u) /\ Size(versions', u) = Size(versions, u)
      BY <2>1, <2>2, RowAdded DEF VersionsInv
    <3>2. QED
      BY <3>1, <1>5
  <2>4. VTypes'
    <3>1. versions' \subseteq Rows /\ \A v \in versions' : v.template \in DOMAIN templates'
      BY <2>1, <1>2, <1>4 DEF VersionsInv, VTypes
    <3>2. QED
      BY <2>1, <2>3, <3>1, <1>2, <1>3, <1>4 DEF VersionsInv, VTypes
  <2>5. NextNumber'
    BY <2>3, <1>3, <1>5 DEF VersionsInv, NextNumber, NoRequest, Numbering
  <2>6. IdsDrawn'
    <3>1. \A v \in versions' : v.id \in 1..nextId'
      BY <2>1 DEF VersionsInv, VTypes, IdsDrawn
    <3>2. \A c \in Callers : requests[c].at = "inserted" => requests[c].id \in 1..nextId' /\ requests[c].id # row.id
      BY <2>1 DEF VersionsInv, VTypes, IdsDrawn
    <3>3. QED
      BY <3>1, <3>2, <2>1, <1>3 DEF VersionsInv, IdsDrawn
  <2>7. VersionsInOrder'
    <3>1. ~refused'
      BY <1>3 DEF VersionsInv, VersionsInOrder
    <3>2. 1..1 = {1}
      OBVIOUS
    <3>3. ASSUME NEW u \in DOMAIN templates'
          PROVE  /\ {v.number : v \in RowsOf(versions', u)} = 1..Size(versions', u)
                 /\ \A v \in RowsOf(versions', u) : v.id = templates'[u].current <=> v.number = Size(versions', u)
      <4>1. CASE u = t
        <5>1. {v.number : v \in {row}} = {1}
          BY <2>1
        <5>2. templates'[u].current = row.id
          BY <4>1, <2>1, <1>4, <1>8
        <5>3. QED
          BY <4>1, <5>1, <5>2, <2>1, <2>3, <3>2
      <4>2. CASE u # t
        BY <4>2, <2>3, <1>2, <1>4, OrderForm DEF VersionsInv, InOrder
      <4>3. QED
        BY <4>1, <4>2
    <3>4. QED
      BY <3>1, <3>3, OrderForm DEF InOrder
  <2>8. QED
    BY <1>6, <2>4, <2>5, <2>6, <2>7 DEF VersionsInv
<1>9. QED
  BY <1>7, <1>8

(* A step of one request that commits nothing.                                  *)
LEMMA QuietStep ==
  ASSUME VersionsInv, UNCHANGED <<templates, versions, refused>>,
         requests' \in [Callers -> {NoRequest} \cup Adding],
         \A c \in Callers : requests'[c] # NoRequest => requests'[c].t \in DOMAIN templates,
         lockOf' \in [DOMAIN templates -> Callers \cup {Free}], nextId' \in Nat, Locks', NextNumber', IdsDrawn'
  PROVE  VersionsInv'
<1>1. VTypes'
  BY DEF VersionsInv, VTypes
<1>2. VersionsInOrder'
  BY OrderForm DEF VersionsInv
<1>3. QED
  BY <1>1, <1>2 DEF VersionsInv

LEMMA CreateVersionStep ==
  ASSUME VersionsInv, NEW c \in Callers, NEW t \in DOMAIN templates, NEW x \in Contents, CreateVersion(c, t, x)
  PROVE  VersionsInv'
<1> DEFINE r == [at |-> "begun", t |-> t, content |-> x, n |-> 0, id |-> 0]
<1>1. /\ requests[c] = NoRequest
      /\ requests' = [requests EXCEPT ![c] = r]
      /\ UNCHANGED <<templates, versions, lockOf, nextId, refused>>
  BY DEF CreateVersion, Goes
<1>2. r \in Adding /\ r.at = "begun" /\ r.t = t
  BY DEF VersionsInv, VTypes, Adding
<1> HIDE DEF r
<1>3. /\ requests' \in [Callers -> {NoRequest} \cup Adding]
      /\ requests'[c] = r
      /\ \A d \in Callers : d # c => requests'[d] = requests[d]
  BY <1>1, <1>2 DEF VersionsInv, VTypes
<1>4. \A d \in Callers : requests'[d] # NoRequest => requests'[d].t \in DOMAIN templates
  BY <1>2, <1>3 DEF VersionsInv, VTypes
<1>5. Locks'
  BY <1>1, <1>2, <1>3 DEF VersionsInv, Locks, Locking, NoRequest
<1>6. NextNumber' /\ IdsDrawn'
  BY <1>1, <1>2, <1>3 DEF VersionsInv, NextNumber, IdsDrawn, Numbering
<1>7. QED
  BY <1>1, <1>3, <1>4, <1>5, <1>6, QuietStep DEF VersionsInv, VTypes

(* What the numbers of a template's versions are.                               *)
LEMMA NewestNumber ==
  ASSUME VTypes, VersionsInOrder, NEW t \in DOMAIN templates
  PROVE  Max({0} \cup {v.number : v \in VersionsOf(t)}) = Size(versions, t)
<1>1. PICK k \in Nat : k = Size(versions, t)
  BY SizeIsNat
<1>2. {v.number : v \in VersionsOf(t)} = 1..k
  BY <1>1 DEF VersionsInOrder, Size, RowsOf, VersionsOf
<1>3. k \in {0} \cup 1..k /\ \A m \in {0} \cup 1..k : m <= k
  OBVIOUS
<1>4. Max({0} \cup 1..k) = k
  BY <1>3 DEF Max
<1>5. QED
  BY <1>1, <1>2, <1>4

(* SELECT .. FOR UPDATE, then the newest number.                                *)
LEMMA NumberStep ==
  ASSUME VersionsInv, NEW c \in Callers, Number(c)
  PROVE  VersionsInv'
<1>1. PICK r : r = requests[c]
  OBVIOUS
<1>2. r.at \in {"begun", "locked"}
  BY <1>1 DEF Number
<1>3. r \in Adding /\ r.t \in DOMAIN templates
  BY <1>1, <1>2 DEF VersionsInv, VTypes, NoRequest
<1>4. UNCHANGED <<templates, versions, nextId, refused>>
  BY DEF Number
<1>5. CASE r.at = "begun"
  <2>1. lockOf[r.t] = Free /\ lockOf' = [lockOf EXCEPT ![r.t] = c] /\ requests' = [requests EXCEPT ![c] = [r EXCEPT !.at = "locked"]]
    BY <1>1, <1>5 DEF Number, LockTemplate, Goes
  <2>2. PICK q : q = [r EXCEPT !.at = "locked"]
    OBVIOUS
  <2>3. q \in Adding /\ q.at = "locked" /\ q.t = r.t /\ q # NoRequest
    BY <1>3, <2>2 DEF Adding, NoRequest
  <2>4. /\ requests' \in [Callers -> {NoRequest} \cup Adding] /\ requests'[c] = q
        /\ \A d \in Callers : d # c => requests'[d] = requests[d]
    BY <2>1, <2>2, <2>3 DEF VersionsInv, VTypes
  <2>5. /\ lockOf' \in [DOMAIN templates -> Callers \cup {Free}] /\ lockOf'[r.t] = c
        /\ \A u \in DOMAIN templates : u # r.t => lockOf'[u] = lockOf[u]
    BY <2>1, <1>3 DEF VersionsInv, VTypes
  <2>6. \A d \in Callers : requests'[d] # NoRequest => requests'[d].t \in DOMAIN templates
    BY <1>3, <2>3, <2>4 DEF VersionsInv, VTypes
  <2>7. Locks'
    BY <1>1, <1>3, <1>4, <1>5, <2>1, <2>3, <2>4, <2>5, FreeIsNobody DEF VersionsInv, Locks, Locking
  <2>8. NextNumber' /\ IdsDrawn'
    BY <1>4, <2>3, <2>4 DEF VersionsInv, NextNumber, IdsDrawn, Numbering
  <2>9. QED
    BY <1>4, <2>4, <2>5, <2>6, <2>7, <2>8, QuietStep DEF VersionsInv, VTypes
<1>6. CASE r.at = "locked"
  <2>1. PICK n \in 1..MaxVersions : /\ n = Max({0} \cup {v.number : v \in VersionsOf(r.t)}) + 1
                                    /\ requests' = [requests EXCEPT ![c] = [r EXCEPT !.at = "numbered", !.n = n]]
                                    /\ lockOf' = lockOf
    BY <1>1, <1>6 DEF Number, Goes
  <2>2. n = Size(versions, r.t) + 1 /\ n \in Nat
    <3>1. VTypes /\ VersionsInOrder /\ r.t \in DOMAIN templates
      BY <1>3 DEF VersionsInv
    <3>2. Max({0} \cup {v.number : v \in VersionsOf(r.t)}) = Size(versions, r.t)
      BY <3>1, NewestNumber
    <3>3. QED
      BY <2>1, <3>2
  <2>3. PICK q : q = [r EXCEPT !.at = "numbered", !.n = n]
    OBVIOUS
  <2>4. q \in Adding /\ q.at = "numbered" /\ q.t = r.t /\ q.n = n /\ q # NoRequest
    BY <1>3, <2>2, <2>3 DEF Adding, NoRequest
  <2>5. /\ requests' \in [Callers -> {NoRequest} \cup Adding] /\ requests'[c] = q
        /\ \A d \in Callers : d # c => requests'[d] = requests[d]
    BY <2>1, <2>3, <2>4 DEF VersionsInv, VTypes
  <2>6. \A d \in Callers : requests'[d] # NoRequest => requests'[d].t \in DOMAIN templates
    BY <1>3, <2>4, <2>5 DEF VersionsInv, VTypes
  <2>7. Locks'
    BY <1>1, <1>3, <1>4, <1>6, <2>1, <2>4, <2>5 DEF VersionsInv, Locks, Locking
  <2>8. NextNumber' /\ IdsDrawn'
    BY <1>4, <2>2, <2>4, <2>5 DEF VersionsInv, NextNumber, IdsDrawn, Numbering
  <2>9. QED
    BY <1>4, <2>1, <2>5, <2>6, <2>7, <2>8, QuietStep DEF VersionsInv, VTypes
<1>7. QED
  BY <1>2, <1>5, <1>6

(* ROLLBACK: the number is read again by the next one.                          *)
LEMMA RollBackStep ==
  ASSUME VersionsInv, NEW c \in Callers, RollBack(c)
  PROVE  VersionsInv'
<1>1. /\ requests' = [requests EXCEPT ![c] = NoRequest] /\ UNCHANGED <<templates, versions, nextId, refused>>
      /\ lockOf' = [t \in DOMAIN lockOf |-> IF lockOf[t] = c THEN Free ELSE lockOf[t]]
  BY DEF RollBack, Goes, Unlocked
<1>2. /\ requests' \in [Callers -> {NoRequest} \cup Adding] /\ requests'[c] = NoRequest
      /\ \A d \in Callers : d # c => requests'[d] = requests[d]
      /\ lockOf' \in [DOMAIN templates -> Callers \cup {Free}]
      /\ \A t \in DOMAIN templates : lockOf'[t] = IF lockOf[t] = c THEN Free ELSE lockOf[t]
  BY <1>1 DEF VersionsInv, VTypes
<1>3. \A d \in Callers : requests'[d] # NoRequest => requests'[d].t \in DOMAIN templates
  BY <1>2 DEF VersionsInv, VTypes
<1>4. Locks'
  BY <1>1, <1>2, FreeIsNobody DEF VersionsInv, Locks, Locking, NoRequest
<1>5. NextNumber' /\ IdsDrawn'
  BY <1>1, <1>2 DEF VersionsInv, NextNumber, IdsDrawn, Numbering, NoRequest
<1>6. QED
  BY <1>1, <1>2, <1>3, <1>4, <1>5, QuietStep DEF VersionsInv, VTypes

(* The number was read under the lock, so the insert is never a duplicate.      *)
LEMMA InsertStep ==
  ASSUME VersionsInv, NEW c \in Callers, Insert(c)
  PROVE  VersionsInv'
<1>1. PICK r : r = requests[c]
  OBVIOUS
<1>2. r.at = "numbered" /\ nextId' = nextId + 1 /\ UNCHANGED <<templates, versions>>
  BY <1>1 DEF Insert
<1>3. r \in Adding /\ r.t \in DOMAIN templates /\ r.n = Size(versions, r.t) + 1
  BY <1>1, <1>2 DEF VersionsInv, VTypes, NextNumber, Numbering, NoRequest
<1>4. \A v \in VersionsOf(r.t) : v.number # r.n
  <2>1. PICK k \in Nat : k = Size(versions, r.t)
    BY SizeIsNat DEF VersionsInv
  <2>2. {v.number : v \in VersionsOf(r.t)} = 1..k
    BY <2>1, <1>3 DEF VersionsInv, VersionsInOrder, Size, RowsOf, VersionsOf
  <2>3. \A v \in VersionsOf(r.t) : v.number \in 1..k
    BY <2>2
  <2>4. QED
    BY <2>1, <2>3, <1>3
<1>a. PICK i \in Nat : i = nextId + 1
  BY DEF VersionsInv, VTypes
<1>5. PICK q : q = [r EXCEPT !.at = "inserted", !.id = i]
  OBVIOUS
<1>6. requests' = [requests EXCEPT ![c] = q] /\ UNCHANGED <<lockOf, refused>>
  BY <1>1, <1>4, <1>5, <1>a DEF Insert, Goes
<1>7. q \in Adding /\ q.at = "inserted" /\ q.t = r.t /\ q.n = r.n /\ q.id = nextId + 1 /\ q # NoRequest /\ nextId \in Nat
  <2>1. nextId \in Nat
    BY DEF VersionsInv, VTypes
  <2>2. q \in Adding /\ q.at = "inserted" /\ q.t = r.t /\ q.n = r.n /\ q.id = nextId + 1
    BY <1>3, <1>5, <1>a DEF Adding
  <2>3. QED
    BY <2>1, <2>2 DEF NoRequest
<1>8. /\ requests' \in [Callers -> {NoRequest} \cup Adding] /\ requests'[c] = q
      /\ \A d \in Callers : d # c => requests'[d] = requests[d]
  BY <1>6, <1>7 DEF VersionsInv, VTypes
<1>9. \A d \in Callers : requests'[d] # NoRequest => requests'[d].t \in DOMAIN templates
  BY <1>3, <1>7, <1>8 DEF VersionsInv, VTypes
<1>10. Locks'
  BY <1>1, <1>2, <1>3, <1>6, <1>7, <1>8 DEF VersionsInv, Locks, Locking
<1>11. NextNumber'
  BY <1>2, <1>3, <1>7, <1>8 DEF VersionsInv, NextNumber, Numbering
<1>12. IdsDrawn'
  <2>1. \A j \in 1..nextId : j \in 1..nextId' /\ j # q.id
    BY <1>2, <1>7
  <2>2. q.id \in 1..nextId'
    BY <1>2, <1>7
  <2>3. QED
    BY <1>2, <1>8, <2>1, <2>2 DEF VersionsInv, IdsDrawn
<1>13. nextId' \in Nat
  BY <1>2, <1>7
<1>14. lockOf' \in [DOMAIN templates -> Callers \cup {Free}]
  BY <1>6 DEF VersionsInv, VTypes
<1>15. QED
  BY <1>2, <1>6, <1>8, <1>9, <1>10, <1>11, <1>12, <1>13, <1>14, QuietStep

(* The UPDATE of the template and COMMIT: the row appears, as the newest.       *)
LEMMA SetCurrentStep ==
  ASSUME VersionsInv, NEW c \in Callers, SetCurrent(c)
  PROVE  VersionsInv'
<1>1. PICK r : r = requests[c]
  OBVIOUS
<1>2. PICK row : row = VersionRow(r.id, r.t, r.n, r.content)
  OBVIOUS
<1>3. /\ r.at = "inserted" /\ versions' = versions \cup {row}
      /\ templates' = [templates EXCEPT ![r.t].current = r.id]
      /\ requests' = [requests EXCEPT ![c] = NoRequest]
      /\ lockOf' = [t \in DOMAIN lockOf |-> IF lockOf[t] = c THEN Free ELSE lockOf[t]]
      /\ UNCHANGED <<nextId, refused>>
  BY <1>1, <1>2 DEF SetCurrent, Goes, Unlocked
<1>4. /\ r \in Adding /\ r.t \in DOMAIN templates /\ r.n = Size(versions, r.t) + 1
      /\ r.id \in 1..nextId /\ \A v \in versions : v.id # r.id
  BY <1>1, <1>3 DEF VersionsInv, VTypes, NextNumber, Numbering, NoRequest, IdsDrawn
<1>5. row \in Rows /\ row.id = r.id /\ row.template = r.t /\ row.number = r.n /\ row \notin versions
  BY <1>2, <1>4 DEF VersionRow, Rows, Adding
<1>6. /\ IsFiniteSet(versions')
      /\ RowsOf(versions', r.t) = RowsOf(versions, r.t) \cup {row} /\ Size(versions', r.t) = r.n
      /\ \A t : t # r.t => RowsOf(versions', t) = RowsOf(versions, t) /\ Size(versions', t) = Size(versions, t)
  BY <1>3, <1>4, <1>5, RowAdded DEF VersionsInv
<1>7. /\ requests' \in [Callers -> {NoRequest} \cup Adding] /\ requests'[c] = NoRequest
      /\ \A d \in Callers : d # c => requests'[d] = requests[d]
      /\ lockOf' \in [DOMAIN templates -> Callers \cup {Free}]
      /\ \A t \in DOMAIN templates : lockOf'[t] = IF lockOf[t] = c THEN Free ELSE lockOf[t]
  BY <1>3 DEF VersionsInv, VTypes
<1>8. /\ DOMAIN templates' = DOMAIN templates
      /\ templates' \in [DOMAIN templates -> [current : Nat, status : {"draft", "archived"}]]
      /\ templates'[r.t].current = r.id
      /\ \A t \in DOMAIN templates : t # r.t => templates'[t] = templates[t]
  BY <1>3, <1>4 DEF VersionsInv, VTypes, Adding
<1>9. VTypes'
  <2>1. versions' \subseteq Rows /\ \A v \in versions' : v.template \in DOMAIN templates
    BY <1>3, <1>4, <1>5 DEF VersionsInv, VTypes
  <2>2. \A d \in Callers : requests'[d] # NoRequest => requests'[d].t \in DOMAIN templates
    BY <1>7 DEF VersionsInv, VTypes
  <2>3. QED
    BY <2>1, <2>2, <1>3, <1>6, <1>7, <1>8 DEF VersionsInv, VTypes
<1>10. Locks'
  BY <1>7, <1>8, FreeIsNobody DEF VersionsInv, Locks, Locking, NoRequest
<1>11. \A d \in Callers : d # c /\ requests[d].at \in Locking => requests[d].t # r.t
  BY <1>1, <1>3, <1>4 DEF VersionsInv, Locks, Locking
<1>12. NextNumber'
  BY <1>6, <1>7, <1>11 DEF VersionsInv, NextNumber, Numbering, Locking, NoRequest
<1>13. IdsDrawn'
  <2>1. \A v \in versions' : v.id \in 1..nextId
    BY <1>3, <1>4, <1>5 DEF VersionsInv, IdsDrawn
  <2>2. ASSUME NEW d \in Callers, d # c, requests[d].at = "inserted"
        PROVE  /\ requests[d].id \in 1..nextId
               /\ \A v \in versions' : v.id # requests[d].id
               /\ \A e \in Callers : e # d /\ e # c /\ requests[e].at = "inserted" => requests[e].id # requests[d].id
    BY <1>1, <1>3, <1>5, <2>2 DEF VersionsInv, IdsDrawn
  <2>3. QED
    BY <2>1, <2>2, <1>3, <1>7 DEF IdsDrawn, NoRequest
<1>14. VersionsInOrder'
  <2>1. ~refused'
    BY <1>3 DEF VersionsInv, VersionsInOrder
  <2>2. PICK k \in Nat : k = Size(versions, r.t)
    BY SizeIsNat DEF VersionsInv
  <2>3. {v.number : v \in RowsOf(versions, r.t)} = 1..k
    BY <2>2, <1>4, OrderForm DEF VersionsInv, InOrder
  <2>4. r.n = k + 1 /\ 1..(k + 1) = 1..k \cup {k + 1} /\ k + 1 \notin 1..k
    BY <2>2, <1>4
  <2>5. {v.number : v \in RowsOf(versions', r.t)} = 1..r.n
    BY <2>3, <2>4, <1>5, <1>6
  <2>6. \A v \in RowsOf(versions', r.t) : v.id = r.id <=> v.number = r.n
    <3>1. \A v \in RowsOf(versions, r.t) : v.id # r.id /\ v.number # r.n
      BY <2>3, <2>4, <1>4 DEF RowsOf
    <3>2. QED
      BY <3>1, <1>5, <1>6
  <2>7. ASSUME NEW t \in DOMAIN templates
        PROVE  /\ {v.number : v \in RowsOf(versions', t)} = 1..Size(versions', t)
               /\ \A v \in RowsOf(versions', t) : v.id = templates'[t].current <=> v.number = Size(versions', t)
    <3>1. CASE t = r.t
      BY <3>1, <2>5, <2>6, <1>6, <1>8
    <3>2. CASE t # r.t
      BY <3>2, <1>6, <1>8, OrderForm DEF VersionsInv, InOrder
    <3>3. QED
      BY <3>1, <3>2
  <2>8. QED
    BY <2>1, <2>7, <1>8, OrderForm DEF InOrder
<1>15. QED
  BY <1>9, <1>10, <1>12, <1>13, <1>14 DEF VersionsInv

LEMMA VersionsInvStep == VersionsInv /\ [VersionsNext]_vvars => VersionsInv'
<1> SUFFICES ASSUME VersionsInv, [VersionsNext]_vvars PROVE VersionsInv'
  OBVIOUS
<1>1. CASE CreateTemplate
  <2>1. PICK S \in {{}} \cup {{x} : x \in Contents}, st \in {"draft", "archived"} : MakeTemplate(S, st)
    BY <1>1 DEF CreateTemplate
  <2>2. S = {} \/ (\E x \in Contents : S = {x})
    OBVIOUS
  <2>3. QED
    BY <2>1, <2>2, MakeStep
<1>2. CASE CloneVersion
  <2>1. PICK v \in versions : MakeTemplate({v.content}, "draft")
    BY <1>2 DEF CloneVersion
  <2>2. PICK x \in Contents : x = v.content
    BY DEF VersionsInv, VTypes, Rows
  <2>3. PICK S : S = {x}
    OBVIOUS
  <2>4. MakeTemplate(S, "draft")
    BY <2>1, <2>2, <2>3
  <2>5. QED
    BY <2>3, <2>4, MakeStep
<1>3. ASSUME NEW t \in DOMAIN templates, NEW s \in {"draft", "archived"}, PatchTemplate(t, s) PROVE VersionsInv'
  BY <1>3, PatchStep
<1>4. ASSUME NEW t \in DOMAIN templates, NEW c \in Callers, NEW x \in Contents, CreateVersion(c, t, x) PROVE VersionsInv'
  BY <1>4, CreateVersionStep
<1>5. ASSUME NEW c \in Callers, Number(c) \/ Insert(c) \/ SetCurrent(c) \/ RollBack(c) PROVE VersionsInv'
  BY <1>5, NumberStep, InsertStep, SetCurrentStep, RollBackStep
<1>6. CASE UNCHANGED vvars
  BY <1>6, QuietStep DEF vvars, VersionsInv, VTypes, Locks, NextNumber, IdsDrawn
<1>7. QED
  BY <1>1, <1>2, <1>3, <1>4, <1>5, <1>6 DEF VersionsNext

\* The row lock, the number read under it, and the versions of every template agree in every
\* reachable state, for any number of concurrent requests and rollbacks.
THEOREM VersionsInductive == VersionsSpec => []VersionsInv
BY VersionsInvInit, VersionsInvStep, PTL DEF VersionsSpec

\* Versions are numbered 1, 2, 3 .. per template without a gap, whatever rolls back, the
\* current one is the newest, and no concurrent request is refused for a number another took.
THEOREM VersionsStayInOrder == VersionsSpec => []VersionsInOrder
<1>1. VersionsInv => VersionsInOrder
  BY DEF VersionsInv
<1>2. QED
  BY <1>1, VersionsInductive, PTL

-----------------------------------------------------------------------------
(* -------------------------------- Datasets -------------------------------- *)

DatasetsSpec == DatasetsInit /\ [][DatasetsNext]_tvars

Gates == [ca : Mints, time : Nat]

(* The summary of a token is as early as every event of it.                     *)
Summarised(evs, summary) == \A e \in evs : summary[e.ca] # 0 /\ summary[e.ca] <= e.time

DTypes ==
  /\ signals \subseteq Gates /\ info \in [Mints -> Nat]
  /\ Summarised(signals, info)

(* The events are read before the summary, so the summary covers them.          *)
Reading ==
  /\ request.at \in {"none", "version", "events", "summary"}
  /\ request.at # "none" => request.cas \subseteq Mints /\ request.enabled \in BOOLEAN
  /\ request.at \in {"events", "summary"} =>
       request.events \subseteq signals /\ request.summary \in [Mints -> Nat]
  /\ request.at = "summary" => Summarised(request.events, request.summary)

DatasetsInv == DTypes /\ Reading /\ GatesHold

LEMMA DatasetsInvInit == DatasetsInit => DatasetsInv
BY RecordedIsSummarised DEF DatasetsInit, DatasetsInv, DTypes, Reading, GatesHold, Gates, Summarised, NotAsked

(* The smaller of two, and the least of any set of natural numbers.             *)
LEMMA MinOfTwo == ASSUME NEW a \in Nat, NEW b \in Nat PROVE Min({a, b}) \in {a, b} /\ Min({a, b}) <= a /\ Min({a, b}) <= b
<1>1. \E x \in {a, b} : \A y \in {a, b} : x <= y
  OBVIOUS
<1>2. QED
  BY <1>1 DEF Min

(* The worker's transaction keeps the summary as early as every event.          *)
LEMMA RecordSignalStep ==
  ASSUME DatasetsInv, RecordSignal
  PROVE  DatasetsInv'
<1>1. PICK ca \in Mints, t \in SignalTimes :
        /\ signals' = signals \cup {Gate(ca, t)}
        /\ info' = [info EXCEPT ![ca] = IF @ = 0 THEN t ELSE Min({@, t})]
        /\ UNCHANGED <<request, backtests>>
  BY DEF RecordSignal
<1>2. t \in Nat /\ t # 0 /\ info[ca] \in Nat
  BY TokensTyped DEF DatasetsInv, DTypes
<1>3. PICK g : g = Gate(ca, t)
  OBVIOUS
<1>4. g \in Gates /\ g.ca = ca /\ g.time = t
  BY <1>2, <1>3 DEF Gate, Gates
<1>5. PICK u : u = IF info[ca] = 0 THEN t ELSE Min({info[ca], t})
  OBVIOUS
<1>6. u \in Nat /\ u # 0 /\ u <= t /\ (info[ca] # 0 => u <= info[ca])
  <2>1. Min({info[ca], t}) \in {info[ca], t} /\ Min({info[ca], t}) <= info[ca] /\ Min({info[ca], t}) <= t
    BY <1>2, MinOfTwo
  <2> DEFINE w == Min({info[ca], t})
  <2>2. w \in {info[ca], t} /\ w <= info[ca] /\ w <= t
    BY <2>1
  <2> HIDE DEF w
  <2>3. u = IF info[ca] = 0 THEN t ELSE w
    BY <1>5 DEF w
  <2>4. QED
    BY <1>2, <2>2, <2>3
<1>7. info' = [info EXCEPT ![ca] = u]
  BY <1>1, <1>5
<1>8. info' \in [Mints -> Nat] /\ info'[ca] = u /\ \A x \in Mints : x # ca => info'[x] = info[x]
  BY <1>6, <1>7 DEF DatasetsInv, DTypes
<1>9. signals' = signals \cup {g}
  BY <1>1, <1>3
<1>10. Summarised(signals', info')
  <2> SUFFICES ASSUME NEW e \in signals' PROVE info'[e.ca] # 0 /\ info'[e.ca] <= e.time
    BY DEF Summarised
  <2>1. CASE e = g
    BY <2>1, <1>4, <1>6, <1>8
  <2>2. CASE e \in signals
    <3>1. e.ca \in Mints /\ e.time \in Nat /\ info[e.ca] # 0 /\ info[e.ca] <= e.time /\ info[e.ca] \in Nat
      BY <2>2 DEF DatasetsInv, DTypes, Gates, Summarised
    <3>2. CASE e.ca = ca
      BY <3>1, <3>2, <1>6, <1>8
    <3>3. CASE e.ca # ca
      BY <3>1, <3>3, <1>8
    <3>4. QED
      BY <3>2, <3>3
  <2>3. QED
    BY <2>1, <2>2, <1>9
<1>11. DTypes'
  BY <1>4, <1>8, <1>9, <1>10 DEF DatasetsInv, DTypes
<1>12. Reading'
  BY <1>1, <1>9 DEF DatasetsInv, Reading
<1>13. GatesHold'
  BY <1>1 DEF DatasetsInv, GatesHold
<1>14. QED
  BY <1>11, <1>12, <1>13 DEF DatasetsInv

(* Submit, and the two queries: later events and a later summary only add.      *)
LEMMA ReadSteps ==
  ASSUME DatasetsInv, Submit \/ ReadSignals \/ Preview \/ UNCHANGED tvars
  PROVE  DatasetsInv'
<1>1. UNCHANGED <<signals, info, backtests>>
  BY DEF Submit, ReadSignals, Preview, tvars
<1>2. DTypes' /\ GatesHold'
  BY <1>1 DEF DatasetsInv, DTypes, GatesHold
<1>3. Reading'
  <2>1. CASE Submit
    BY <2>1, <1>1 DEF Submit, Reading
  <2>2. CASE ReadSignals /\ request.at = "version"
    BY <2>2, <1>1 DEF ReadSignals, DatasetsInv, DTypes, Reading
  <2>3. CASE ReadSignals /\ request.at = "events"
    <3>1. request' = [request EXCEPT !.at = "summary", !.summary = info]
      BY <2>3 DEF ReadSignals
    <3>2. PICK q : q = [request EXCEPT !.at = "summary", !.summary = info]
      OBVIOUS
    <3>3. request' = q
      BY <3>1, <3>2
    <3>4. request.events \subseteq signals /\ request.cas \subseteq Mints /\ request.enabled \in BOOLEAN
      BY <2>3 DEF DatasetsInv, Reading
    <3>5. Summarised(request.events, info)
      BY <3>4 DEF DatasetsInv, DTypes, Summarised
    <3>6. /\ q.at = "summary" /\ q.cas = request.cas /\ q.enabled = request.enabled
          /\ q.events = request.events /\ q.summary = info
      BY <2>3, <3>1, <3>2 DEF ReadSignals, DatasetsInv, Reading
    <3>7. info \in [Mints -> Nat]
      BY DEF DatasetsInv, DTypes
    <3>8. QED
      BY <3>3, <3>4, <3>5, <3>6, <3>7, <1>1 DEF Reading
  <2>4. CASE Preview \/ UNCHANGED tvars
    BY <2>4, <1>1 DEF Preview, tvars, DatasetsInv, Reading
  <2>5. QED
    BY <2>1, <2>2, <2>3, <2>4 DEF ReadSignals
<1>4. QED
  BY <1>2, <1>3 DEF DatasetsInv

(* The first signal of a token, as the submission knows it.                     *)
LEMMA FirstSignals ==
  ASSUME NEW cas \in SUBSET Mints, NEW evs \in SUBSET Gates, NEW summary \in [Mints -> Nat], Summarised(evs, summary)
  PROVE  Earliest(cas, evs, summary) = {Gate(ca, summary[ca]) : ca \in {x \in cas : summary[x] # 0}}
<1>1. \A x \in cas : SignalsOf(evs, x) # {} => summary[x] # 0
  BY DEF SignalsOf, Summarised, Gates
<1>2. QED
  BY <1>1 DEF Earliest

(* The tokens and gates of a selection that is not refused.                     *)
LEMMA Selected ==
  ASSUME DatasetsInv, request.at = "summary",
         NEW s \in Checked(request.cas, request.enabled, request.client, Earliest(request.cas, request.events, request.summary))
  PROVE  /\ s.cas \subseteq request.cas /\ s.cas \cup s.excluded = request.cas /\ s.cas \cap s.excluded = {}
         /\ request.enabled => s.gates = {Gate(ca, request.summary[ca]) : ca \in s.cas}
         /\ ~request.enabled => s.gates = {}
<1>0. PICK cas, evs, summary : cas = request.cas /\ evs = request.events /\ summary = request.summary
  OBVIOUS
<1>a. cas \in SUBSET Mints /\ evs \in SUBSET Gates /\ summary \in [Mints -> Nat] /\ Summarised(evs, summary)
  BY <1>0 DEF DatasetsInv, DTypes, Reading
<1>b. PICK first : first = Earliest(cas, evs, summary)
  OBVIOUS
<1>1. first = {Gate(ca, summary[ca]) : ca \in {x \in cas : summary[x] # 0}}
  BY <1>a, <1>b, FirstSignals
<1>2. PICK known : known = {x \in cas : summary[x] # 0}
  OBVIOUS
<1>3. {g.ca : g \in first} = known
  <2>1. \A g \in first : g.ca \in known
    BY <1>1, <1>2 DEF Gate
  <2>2. \A x \in known : Gate(x, summary[x]) \in first /\ Gate(x, summary[x]).ca = x
    BY <1>1, <1>2 DEF Gate
  <2>3. QED
    BY <2>1, <2>2
<1>4. s = [cas |-> IF request.enabled THEN cas \cap known ELSE cas, excluded |-> IF request.enabled THEN cas \ known ELSE {},
           gates |-> IF request.enabled THEN {g \in first : g.ca \in cas} ELSE {}]
  BY <1>0, <1>b, <1>3 DEF Checked
<1>5. {g \in first : g.ca \in cas} = {Gate(ca, summary[ca]) : ca \in cas \cap known}
  BY <1>1, <1>2 DEF Gate
<1>6. CASE request.enabled
  <2>1. s.cas = cas \cap known /\ s.excluded = cas \ known /\ s.gates = {g \in first : g.ca \in cas}
    BY <1>4, <1>6
  <2>2. QED
    BY <2>1, <1>0, <1>5, <1>6
<1>7. CASE ~request.enabled
  <2>1. s.cas = cas /\ s.excluded = {} /\ s.gates = {}
    BY <1>4, <1>7
  <2>2. QED
    BY <2>1, <1>0, <1>7
<1>8. QED
  BY <1>6, <1>7

(* The pools of a selection that is not refused.                                *)
LEMMA Pooled ==
  ASSUME NEW s, s.cas \subseteq Mints, NEW d \in Resolved(s)
  PROVE  /\ {x.ca : x \in d.symbols} = s.cas
         /\ \A x \in d.symbols : x.pool.to \in Nat
         /\ \A ca \in s.cas : \E x \in d.symbols : x.ca = ca /\ x.pool.to # 0
<1>1. d.symbols = UNION {{[ca |-> ca, pool |-> p] : p \in PoolsOf[ca]} : ca \in s.cas}
  BY DEF Resolved
<1>2. ASSUME NEW ca \in s.cas
      PROVE  \E x \in d.symbols : x.ca = ca /\ x.pool.to # 0
  <2>1. PICK p \in PoolsOf[ca] : p.to # 0
    BY DEF Resolved, WithData
  <2>2. PICK x : x = [ca |-> ca, pool |-> p]
    OBVIOUS
  <2>3. x \in d.symbols
    BY <1>1, <2>1, <2>2
  <2>4. QED
    BY <2>1, <2>2, <2>3
<1>3. ASSUME NEW x \in d.symbols
      PROVE  x.ca \in s.cas /\ x.pool.to \in Nat
  <2>1. PICK ca \in s.cas : x \in {[ca |-> ca, pool |-> p] : p \in PoolsOf[ca]}
    BY <1>1
  <2>2. PICK p \in PoolsOf[ca] : x = [ca |-> ca, pool |-> p]
    BY <2>1
  <2>3. p \in [pair : STRING, from : Nat, to : Nat]
    BY <2>2, TokensTyped
  <2>4. QED
    BY <2>2, <2>3
<1>4. QED
  BY <1>2, <1>3

(* GatesHold for one run.                                                       *)
TokensOf(test) == {s.ca : s \in test.symbols}
OneGate(test) == \A ca \in TokensOf(test) : Cardinality({g \in test.gates : g.ca = ca}) = 1
RunGated(test) ==
  /\ test.asked = TokensOf(test) \cup test.excluded /\ TokensOf(test) \cap test.excluded = {}
  /\ \A ca \in TokensOf(test) : \E x \in test.symbols : x.ca = ca /\ x.pool.to # 0
  /\ IF test.enabled
     THEN /\ OneGate(test)
          /\ \A g \in test.gates : SignalsOf(test.external, g.ca) # {} => g.time <= FirstShown(test, g.ca)
          /\ \A x \in test.symbols : (\E g \in test.gates : g.ca = x.ca /\ g.time < x.pool.to) => x \notin test.late
     ELSE test.gates = {}

LEMMA RunByRun == /\ GatesHold <=> \A test \in backtests : RunGated(test)
                  /\ GatesHold' <=> \A test \in backtests' : RunGated(test)
BY DEF GatesHold, RunGated, OneGate, TokensOf

(* The gates of a run that is stored.                                           *)
LEMMA StoredGates ==
  ASSUME DatasetsInv, request.at = "summary",
         NEW s \in Checked(request.cas, request.enabled, request.client, Earliest(request.cas, request.events, request.summary)),
         NEW d \in Resolved(s), NEW test,
         test.asked = request.cas, test.enabled = request.enabled,
         test.symbols = d.symbols, test.gates = s.gates, test.excluded = s.excluded,
         test.external = {e \in request.events : e.ca \in {x.ca : x \in d.symbols}}, test.late = NoOpportunity(d.symbols, s.gates)
  PROVE  RunGated(test)
<1>1. PICK cas, evs, summary : cas = request.cas /\ evs = request.events /\ summary = request.summary
  OBVIOUS
<1>2. cas \in SUBSET Mints /\ evs \in SUBSET Gates /\ summary \in [Mints -> Nat] /\ Summarised(evs, summary)
  BY <1>1 DEF DatasetsInv, DTypes, Reading
<1>3. /\ s.cas \subseteq cas /\ s.cas \cup s.excluded = cas /\ s.cas \cap s.excluded = {}
      /\ request.enabled => s.gates = {Gate(ca, summary[ca]) : ca \in s.cas}
      /\ ~request.enabled => s.gates = {}
  BY <1>1, Selected
<1>4. /\ {x.ca : x \in d.symbols} = s.cas
      /\ \A x \in d.symbols : x.pool.to \in Nat
      /\ \A ca \in s.cas : \E x \in d.symbols : x.ca = ca /\ x.pool.to # 0
  BY <1>2, <1>3, Pooled
<1>5. /\ test.asked = cas /\ test.enabled = request.enabled /\ test.symbols = d.symbols /\ test.gates = s.gates /\ test.excluded = s.excluded
      /\ test.external = {e \in evs : e.ca \in {x.ca : x \in d.symbols}} /\ test.late = NoOpportunity(d.symbols, s.gates)
  BY <1>1
<1>6. ASSUME request.enabled, NEW ca \in s.cas PROVE Cardinality({g \in test.gates : g.ca = ca}) = 1
  <2>1. {g \in test.gates : g.ca = ca} = {Gate(ca, summary[ca])}
    BY <1>3, <1>5, <1>6 DEF Gate
  <2>2. QED
    BY <2>1, FS_Singleton
<1>7. ASSUME request.enabled, NEW g \in test.gates, SignalsOf(test.external, g.ca) # {} PROVE g.time <= FirstShown(test, g.ca)
  <2>1. PICK ca \in s.cas : g = Gate(ca, summary[ca])
    BY <1>3, <1>5, <1>7
  <2>2. g.ca = ca /\ g.time = summary[ca] /\ ca \in Mints
    BY <2>1, <1>2, <1>3 DEF Gate
  <2>3. PICK S : S = SignalsOf(test.external, ca)
    OBVIOUS
  <2>4. \A t \in S : \E e \in evs : e.ca = ca /\ e.time = t
    BY <2>3, <1>5 DEF SignalsOf
  <2>5. S \in SUBSET Nat /\ S # {} /\ \A t \in S : summary[ca] <= t
    BY <2>2, <2>3, <2>4, <1>2, <1>7 DEF Gates, Summarised
  <2>6. Min(S) \in S
    BY <2>5, MinIsLeast
  <2>7. QED
    BY <2>2, <2>3, <2>5, <2>6 DEF FirstShown
<1>8. ASSUME request.enabled, NEW x \in test.symbols, NEW g \in test.gates, g.ca = x.ca, g.time < x.pool.to PROVE x \notin test.late
  <2>1. ASSUME NEW h \in test.gates, h.ca = x.ca PROVE h = g
    BY <2>1, <1>3, <1>5, <1>8 DEF Gate
  <2>2. g.time \in Nat /\ x.pool.to \in Nat
    BY <1>2, <1>3, <1>4, <1>5, <1>8 DEF Gate
  <2>3. ~(g.time >= x.pool.to)
    BY <2>2, <1>8
  <2>4. QED
    BY <2>1, <2>3, <1>5 DEF NoOpportunity
<1>9. CASE request.enabled
  <2>1. TokensOf(test) = s.cas
    BY <1>4, <1>5 DEF TokensOf
  <2>2. test.enabled
    BY <1>5, <1>9
  <2>3. test.asked = TokensOf(test) \cup test.excluded /\ TokensOf(test) \cap test.excluded = {}
    BY <2>1, <1>3, <1>5
  <2>4. \A ca \in TokensOf(test) : \E x \in test.symbols : x.ca = ca /\ x.pool.to # 0
    BY <2>1, <1>4, <1>5
  <2>5. OneGate(test)
    BY <2>1, <1>6, <1>9 DEF OneGate
  <2>6. \A g \in test.gates : SignalsOf(test.external, g.ca) # {} => g.time <= FirstShown(test, g.ca)
    BY <1>7, <1>9
  <2>7. \A x \in test.symbols : (\E g \in test.gates : g.ca = x.ca /\ g.time < x.pool.to) => x \notin test.late
    BY <1>8, <1>9
  <2>8. QED
    BY <2>2, <2>3, <2>4, <2>5, <2>6, <2>7 DEF RunGated
<1>10. CASE ~request.enabled
  BY <1>3, <1>4, <1>5, <1>10 DEF RunGated, TokensOf
<1>11. QED
  BY <1>2, <1>9, <1>10

LEMMA CreateRunStep ==
  ASSUME DatasetsInv, CreateRun
  PROVE  DatasetsInv'
<1>1. request.at = "summary" /\ request' = NotAsked /\ UNCHANGED <<signals, info>>
  BY DEF CreateRun, Store, Reject
<1>2. DTypes'
  BY <1>1 DEF DatasetsInv, DTypes
<1>3. Reading'
  BY <1>1 DEF Reading, NotAsked
<1>4. CASE UNCHANGED backtests
  BY <1>4, <1>2, <1>3 DEF DatasetsInv, GatesHold
<1>5. CASE ~UNCHANGED backtests
  <2>1. PICK s \in Checked(request.cas, request.enabled, request.client, Earliest(request.cas, request.events, request.summary)) :
          \E d \in Resolved(s), as \in {"pending", "failed"} : Store(s, d, as)
    BY <1>5 DEF CreateRun, Reject
  <2>2. PICK d \in Resolved(s), as \in {"pending", "failed"} : Store(s, d, as)
    BY <2>1
  <2>3. PICK test : test =
          [asked |-> request.cas, enabled |-> request.enabled, symbols |-> d.symbols, gates |-> s.gates, excluded |-> s.excluded,
           external |-> {e \in request.events : e.ca \in {x.ca : x \in d.symbols}},
           late |-> NoOpportunity(d.symbols, s.gates), status |-> as]
    OBVIOUS
  <2>4. backtests' = backtests \cup {test}
    BY <2>2, <2>3 DEF Store
  <2>5. RunGated(test)
    <3>1. /\ test.asked = request.cas /\ test.enabled = request.enabled
          /\ test.symbols = d.symbols /\ test.gates = s.gates /\ test.excluded = s.excluded
          /\ test.external = {e \in request.events : e.ca \in {x.ca : x \in d.symbols}}
          /\ test.late = NoOpportunity(d.symbols, s.gates)
      BY <2>3
    <3>2. QED
      BY <1>1, <2>1, <2>2, <3>1, StoredGates
  <2>6. GatesHold'
    BY <2>4, <2>5, RunByRun DEF DatasetsInv
  <2>7. QED
    BY <1>2, <1>3, <2>6 DEF DatasetsInv
<1>6. QED
  BY <1>4, <1>5

\* Whatever signals the worker records between a preview, a submission and its queries, the
\* summary a submission reads covers the events it read before.
THEOREM DatasetsInductive == DatasetsSpec => []DatasetsInv
<1>1. DatasetsInv /\ [DatasetsNext]_tvars => DatasetsInv'
  BY RecordSignalStep, ReadSteps, CreateRunStep DEF DatasetsNext
<1>2. QED
  BY <1>1, DatasetsInvInit, PTL DEF DatasetsSpec

\* A test that buys only after a signal has one gate per token, not after any signal it shows,
\* and a pool with data for each; and every token asked for is in the test or named as excluded.
THEOREM GatesAlwaysHold == DatasetsSpec => []GatesHold
<1>1. DatasetsInv => GatesHold
  BY DEF DatasetsInv
<1>2. QED
  BY <1>1, DatasetsInductive, PTL


(* ------------------------------ CaSelection ------------------------------- *)

SelectionSpec == SelectionInit /\ [][SelectionNext]_uvars

Tokens == UNION {Market[d] : d \in DOMAIN Market}
Settings == [dim : DOMAIN Market, chains : SUBSET Chains, search : Terms \cup {Everything}]
Forms ==
  [dim : DOMAIN Market, chains : SUBSET Chains, search : Terms \cup {Everything},
   excluded : SUBSET Tokens, selected : SUBSET Tokens, rows : SUBSET Tokens,
   listLoading : BOOLEAN, listError : BOOLEAN, bulkLoading : BOOLEAN, bulkError : BOOLEAN]
Calls == [kind : {"list", "sync", "all"}, epoch : Nat, again : BOOLEAN, p : Settings]
Pages == [f : Forms, e : [list : Nat, bulk : Nat], c : SUBSET Calls]

(* The list and the selection that count, if they are still out.               *)
CurrentList(x) == {c \in x.c : c.kind = "list" /\ c.epoch = x.e.list}
CurrentBulk(x) == {c \in x.c : c.kind # "list" /\ c.epoch = x.e.bulk}
(* Epochs are given out once.                                                  *)
Numbered(x) ==
  /\ \A c \in x.c : c.epoch <= IF c.kind = "list" THEN x.e.list ELSE x.e.bulk
  /\ \A c, d \in x.c : c.epoch = d.epoch /\ (c.kind = "list" <=> d.kind = "list") => c = d
  /\ \A c \in x.c : c.again => c.kind = "list"
(* What is on the page fits the dimension unless a list is on its way; a retry *)
(* that still counts is of a form without chains.                              *)
ListFits(x) ==
  /\ x.f.listLoading \/ (CurrentList(x) = {} /\ x.f.rows \subseteq Market[x.f.dim])
  /\ \A c \in CurrentList(x) : c.p.dim = x.f.dim /\ (c.again => x.f.chains = {})
(* A selection that counts is of the form as it is.                            *)
BulkFits(x) ==
  /\ x.f.bulkLoading \/ CurrentBulk(x) = {}
  /\ \A c \in CurrentBulk(x) :
       /\ c.p.dim = x.f.dim /\ c.p.chains = x.f.chains
       /\ c.kind = "sync" => x.f.chains # {}
Whole(f) == {r \in f.selected : r.chain \in f.chains} = {r \in Market[f.dim] : r.chain \in f.chains} \ f.excluded
(* The chains are whole, or a selection makes them whole, or has failed to.    *)
WholeOrAwaited(x) == x.f.bulkError \/ Whole(x.f) \/ \E c \in CurrentBulk(x) : c.kind = "sync"

SelectionTypes == Now \in Pages /\ muted \in BOOLEAN
SelectionInv ==
  /\ SelectionTypes /\ Numbered(Now) /\ ListFits(Now) /\ BulkFits(Now)
  /\ muted \/ WholeOrAwaited(Now)

(* What the parts of a step do to a page.                                      *)
LEMMA LoadListDoes ==
  ASSUME NEW x \in Pages, Numbered(x), NEW again \in BOOLEAN, again => x.f.chains = {}
  PROVE  /\ LoadList(x, again) \in Pages /\ Numbered(LoadList(x, again)) /\ ListFits(LoadList(x, again))
         /\ BulkFits(x) => BulkFits(LoadList(x, again))
         /\ WholeOrAwaited(x) => WholeOrAwaited(LoadList(x, again))
         /\ LoadList(x, again).f.chains = x.f.chains /\ LoadList(x, again).f.bulkError = x.f.bulkError
<1> DEFINE new == [kind |-> "list", epoch |-> x.e.list + 1, again |-> again, p |-> Params(x.f)]
           y == LoadList(x, again)
<1>1. x.f \in Forms /\ x.e \in [list : Nat, bulk : Nat] /\ x.c \in SUBSET Calls /\ new \in Calls
  BY DEF Pages, Forms, Calls, Settings, Params
<1>2. /\ y.f = [x.f EXCEPT !.listLoading = TRUE, !.listError = FALSE] /\ y.e = [x.e EXCEPT !.list = @ + 1]
      /\ y.c = x.c \cup {new} /\ y = [f |-> y.f, e |-> y.e, c |-> y.c]
  BY DEF LoadList, Selecting
<1>3. y \in Pages
  <2>1. y.f \in Forms
    BY <1>1, <1>2 DEF Forms
  <2>2. y.e \in [list : Nat, bulk : Nat] /\ y.c \in SUBSET Calls
    BY <1>1, <1>2
  <2>3. QED
    BY <1>2, <2>1, <2>2 DEF Pages
<1>4. \A c \in x.c : c \in Calls /\ c.epoch \in Nat /\ (c.kind = "list" => c.epoch <= x.e.list) /\ (c.kind # "list" => c.epoch <= x.e.bulk)
  BY <1>1 DEF Numbered, Calls
<1>5. y.e.list = x.e.list + 1 /\ y.e.bulk = x.e.bulk /\ x.e.list \in Nat /\ x.e.bulk \in Nat
  BY <1>1, <1>2
<1>6. CurrentList(y) = {new} /\ CurrentBulk(y) = CurrentBulk(x)
  BY <1>2, <1>4, <1>5 DEF CurrentList, CurrentBulk
<1>7. Numbered(y)
  BY <1>2, <1>4, <1>5 DEF Numbered
<1>8. /\ y.f.listLoading /\ y.f.dim = x.f.dim /\ y.f.chains = x.f.chains /\ y.f.selected = x.f.selected
      /\ y.f.excluded = x.f.excluded /\ y.f.bulkLoading = x.f.bulkLoading /\ y.f.bulkError = x.f.bulkError
  BY <1>1, <1>2 DEF Forms
<1>9. ListFits(y)
  BY <1>6, <1>8 DEF ListFits, Params
<1>10. BulkFits(x) => BulkFits(y)
  BY <1>6, <1>8 DEF BulkFits
<1>11. WholeOrAwaited(x) => WholeOrAwaited(y)
  BY <1>6, <1>8 DEF WholeOrAwaited, Whole
<1>12. QED
  BY <1>3, <1>7, <1>8, <1>9, <1>10, <1>11

LEMMA BulkDoes ==
  ASSUME NEW x \in Pages, Numbered(x), NEW kind \in {"sync", "all"}, kind = "sync" => x.f.chains # {}
  PROVE  /\ Bulk(x, kind) \in Pages /\ Numbered(Bulk(x, kind)) /\ BulkFits(Bulk(x, kind))
         /\ ListFits(x) => ListFits(Bulk(x, kind))
         /\ kind = "sync" \/ Whole(x.f) => WholeOrAwaited(Bulk(x, kind))
<1> DEFINE new == [kind |-> kind, epoch |-> x.e.bulk + 1, again |-> FALSE, p |-> Params(x.f)]
           y == Bulk(x, kind)
<1>1. x.f \in Forms /\ x.e \in [list : Nat, bulk : Nat] /\ x.c \in SUBSET Calls /\ new \in Calls
  BY DEF Pages, Forms, Calls, Settings, Params
<1>2. /\ y.f = [x.f EXCEPT !.bulkLoading = TRUE, !.bulkError = FALSE] /\ y.e = [x.e EXCEPT !.bulk = @ + 1]
      /\ y.c = x.c \cup {new} /\ y = [f |-> y.f, e |-> y.e, c |-> y.c]
  BY DEF Bulk, Selecting
<1>a. new.kind = kind /\ new.epoch = x.e.bulk + 1 /\ new.again = FALSE /\ new.p = Params(x.f)
  OBVIOUS
<1> HIDE DEF new, y
<1>3. y \in Pages
  <2>1. y.f \in Forms
    BY <1>1, <1>2 DEF Forms
  <2>2. y.e \in [list : Nat, bulk : Nat] /\ y.c \in SUBSET Calls
    BY <1>1, <1>2
  <2>3. QED
    BY <1>2, <2>1, <2>2 DEF Pages
<1>4. \A c \in x.c : c \in Calls /\ c.epoch \in Nat /\ (c.kind = "list" => c.epoch <= x.e.list) /\ (c.kind # "list" => c.epoch <= x.e.bulk)
  BY <1>1 DEF Numbered, Calls
<1>5. y.e.list = x.e.list /\ y.e.bulk = x.e.bulk + 1 /\ x.e.list \in Nat /\ x.e.bulk \in Nat
  BY <1>1, <1>2
<1>6. CurrentBulk(y) = {new} /\ CurrentList(y) = CurrentList(x)
  BY <1>a, <1>2, <1>4, <1>5 DEF CurrentList, CurrentBulk
<1>7. Numbered(y)
  BY <1>a, <1>2, <1>4, <1>5 DEF Numbered
<1>8. /\ y.f.bulkLoading /\ y.f.dim = x.f.dim /\ y.f.chains = x.f.chains /\ y.f.selected = x.f.selected
      /\ y.f.excluded = x.f.excluded /\ y.f.listLoading = x.f.listLoading /\ y.f.rows = x.f.rows
  BY <1>1, <1>2 DEF Forms
<1>9. BulkFits(y)
  BY <1>a, <1>6, <1>8 DEF BulkFits, Params
<1>10. ListFits(x) => ListFits(y)
  BY <1>6, <1>8 DEF ListFits
<1>11. kind = "sync" \/ Whole(x.f) => WholeOrAwaited(y)
  BY <1>a, <1>6, <1>8 DEF WholeOrAwaited, Whole
<1>12. QED
  BY <1>3, <1>7, <1>9, <1>10, <1>11 DEF y

LEMMA NoBulkDoes ==
  ASSUME NEW x \in Pages, Numbered(x)
  PROVE  /\ NoBulk(x) \in Pages /\ Numbered(NoBulk(x)) /\ BulkFits(NoBulk(x))
         /\ ListFits(x) => ListFits(NoBulk(x))
         /\ NoBulk(x).f.chains = x.f.chains /\ NoBulk(x).f = [x.f EXCEPT !.bulkLoading = FALSE, !.bulkError = FALSE]
<1> DEFINE y == NoBulk(x)
<1>1. x.f \in Forms /\ x.e \in [list : Nat, bulk : Nat] /\ x.c \in SUBSET Calls
  BY DEF Pages
<1>2. /\ y.f = [x.f EXCEPT !.bulkLoading = FALSE, !.bulkError = FALSE] /\ y.e = [x.e EXCEPT !.bulk = @ + 1]
      /\ y.c = x.c /\ y = [f |-> y.f, e |-> y.e, c |-> y.c]
  BY DEF NoBulk, Selecting
<1>3. y \in Pages
  <2>1. y.f \in Forms
    BY <1>1, <1>2 DEF Forms
  <2>2. y.e \in [list : Nat, bulk : Nat] /\ y.c \in SUBSET Calls
    BY <1>1, <1>2
  <2>3. QED
    BY <1>2, <2>1, <2>2 DEF Pages
<1>4. \A c \in x.c : c \in Calls /\ c.epoch \in Nat /\ (c.kind = "list" => c.epoch <= x.e.list) /\ (c.kind # "list" => c.epoch <= x.e.bulk)
  BY <1>1 DEF Numbered, Calls
<1>5. y.e.list = x.e.list /\ y.e.bulk = x.e.bulk + 1 /\ x.e.list \in Nat /\ x.e.bulk \in Nat
  BY <1>1, <1>2
<1>6. CurrentBulk(y) = {} /\ CurrentList(y) = CurrentList(x)
  BY <1>2, <1>4, <1>5 DEF CurrentList, CurrentBulk
<1>7. Numbered(y)
  BY <1>2, <1>4, <1>5 DEF Numbered
<1>8. y.f.dim = x.f.dim /\ y.f.chains = x.f.chains /\ y.f.listLoading = x.f.listLoading /\ y.f.rows = x.f.rows
  BY <1>1, <1>2 DEF Forms
<1>9. BulkFits(y)
  BY <1>6 DEF BulkFits
<1>10. ListFits(x) => ListFits(y)
  BY <1>6, <1>8 DEF ListFits
<1>12. QED
  BY <1>2, <1>3, <1>7, <1>8, <1>9, <1>10

\* Without a chain there is nothing to be whole.
LEMMA NoChainIsWhole == ASSUME NEW x, x.f.chains = {} PROVE Whole(x.f) /\ WholeOrAwaited(x)
BY DEF Whole, WholeOrAwaited

(* A page on which everything is well.                                         *)
Well(x) == x \in Pages /\ Numbered(x) /\ ListFits(x) /\ BulkFits(x) /\ WholeOrAwaited(x)

LEMMA SyncDoes ==
  ASSUME NEW x \in Pages, Numbered(x), ListFits(x)
  PROVE  Well(SyncChains(x)) /\ SyncChains(x).f.chains = x.f.chains
<1>1. CASE x.f.chains = {}
  <2>1. SyncChains(x) = NoBulk(x)
    BY <1>1 DEF SyncChains
  <2>2. WholeOrAwaited(NoBulk(x))
    BY <1>1, NoBulkDoes, NoChainIsWhole
  <2>3. QED
    BY <2>1, <2>2, NoBulkDoes DEF Well
<1>2. CASE x.f.chains # {}
  <2>1. SyncChains(x) = Bulk(x, "sync") /\ Bulk(x, "sync").f.chains = x.f.chains
    BY <1>2 DEF SyncChains, Bulk, Selecting, Pages, Forms
  <2>2. QED
    BY <1>2, <2>1, BulkDoes DEF Well
<1>3. QED
  BY <1>1, <1>2

LEMMA WatcherDoes ==
  ASSUME NEW x \in Pages, Numbered(x), NEW removed
  PROVE  Well(Watcher(x, removed)) /\ Watcher(x, removed).f.chains = x.f.chains
<1> DEFINE f == [x.f EXCEPT !.selected = {r \in @ : r.chain \notin removed}, !.excluded = {r \in @ : r.chain \in x.f.chains}]
           y == Selecting(f, x.e, x.c)
<1>1. x.f \in Forms /\ x.e \in [list : Nat, bulk : Nat] /\ x.c \in SUBSET Calls
  BY DEF Pages
<1>2. f \in Forms /\ f.chains = x.f.chains
  BY <1>1 DEF Forms
<1> HIDE DEF f
<1>3. y \in Pages /\ Numbered(y) /\ y.f.chains = x.f.chains
  BY <1>1, <1>2 DEF Pages, Selecting, Numbered
<1> HIDE DEF y
<1>4. LoadList(y, FALSE) \in Pages /\ Numbered(LoadList(y, FALSE)) /\ ListFits(LoadList(y, FALSE)) /\ LoadList(y, FALSE).f.chains = x.f.chains
  BY <1>3, LoadListDoes
<1>5. Well(SyncChains(LoadList(y, FALSE))) /\ SyncChains(LoadList(y, FALSE)).f.chains = x.f.chains
  BY <1>4, SyncDoes
<1>6. QED
  BY <1>5 DEF Watcher, y, f

\* All that is shown may be selected once nothing is loading and the chains are whole.
LEMMA SelectAllDoes ==
  ASSUME NEW x \in Pages, Numbered(x), ListFits(x), BulkFits(x)
  PROVE  /\ SelectAllOf(x) \in Pages /\ Numbered(SelectAllOf(x)) /\ ListFits(SelectAllOf(x)) /\ BulkFits(SelectAllOf(x))
         /\ WholeOrAwaited(x) => WholeOrAwaited(SelectAllOf(x))
<1>1. CASE Blocked(x.f)
  BY <1>1 DEF SelectAllOf
<1>2. CASE ~Blocked(x.f)
  <2>1. SelectAllOf(x) = Bulk(x, "all")
    BY <1>2 DEF SelectAllOf
  <2>2. WholeOrAwaited(x) => Whole(x.f)
    BY <1>2 DEF WholeOrAwaited, Blocked, BulkFits
  <2>3. QED
    BY <2>1, <2>2, BulkDoes
<1>3. QED
  BY <1>1, <1>2

LEMMA SelectionInvBecomes ==
  ASSUME NEW x, Becomes(x), x \in Pages, Numbered(x), ListFits(x), BulkFits(x), muted' \in BOOLEAN,
         muted' \/ WholeOrAwaited(x)
  PROVE  SelectionInv'
<1>1. Now' = x
  BY DEF Now, Becomes, Pages, Selecting
<1>2. QED
  BY <1>1 DEF SelectionInv, SelectionTypes, Numbered, ListFits, BulkFits, WholeOrAwaited, CurrentList, CurrentBulk, Whole

LEMMA WellBecomes == ASSUME NEW x, Well(x), Becomes(x), muted' \in BOOLEAN PROVE SelectionInv'
BY SelectionInvBecomes DEF Well

LEMMA SelectionInvInit == SelectionInit => SelectionInv
<1> SUFFICES ASSUME SelectionInit PROVE SelectionInv
  OBVIOUS
<1>1. PICK d \in DOMAIN Market :
        LET x == Watcher(Selecting([dim |-> d, chains |-> {}, search |-> Everything, excluded |-> {}, selected |-> {}, rows |-> {},
                    listLoading |-> FALSE, listError |-> FALSE, bulkLoading |-> FALSE, bulkError |-> FALSE],
                  [list |-> 0, bulk |-> 0], {}), {})
        IN form = x.f /\ epochs = x.e /\ calls = x.c
  BY DEF SelectionInit
<1> DEFINE f == [dim |-> d, chains |-> {}, search |-> Everything, excluded |-> {}, selected |-> {}, rows |-> {},
                 listLoading |-> FALSE, listError |-> FALSE, bulkLoading |-> FALSE, bulkError |-> FALSE]
           y == Selecting(f, [list |-> 0, bulk |-> 0], {})
<1>2. f \in Forms
  BY DEF Forms
<1> HIDE DEF f
<1>3. y \in Pages /\ Numbered(y)
  BY <1>2 DEF Pages, Selecting, Numbered
<1> HIDE DEF y
<1>4. Well(Watcher(y, {})) /\ Watcher(y, {}) \in Pages
  BY <1>3, WatcherDoes DEF Well
<1>5. form = Watcher(y, {}).f /\ epochs = Watcher(y, {}).e /\ calls = Watcher(y, {}).c
  BY <1>1 DEF y, f
<1>6. Now = Watcher(y, {})
  BY <1>4, <1>5 DEF Now, Selecting, Pages
<1>7. muted = FALSE
  BY DEF SelectionInit
<1>8. QED
  BY <1>4, <1>6, <1>7 DEF Well, SelectionInv, SelectionTypes

\* What Now is, as far as the steps need it.
LEMMA NowIs ==
  ASSUME SelectionInv
  PROVE  /\ Now \in Pages /\ Numbered(Now) /\ ListFits(Now) /\ BulkFits(Now) /\ muted \in BOOLEAN
         /\ Now.f = form /\ Now.e = epochs /\ Now.c = calls /\ form \in Forms
BY DEF SelectionInv, SelectionTypes, Now, Selecting, Pages

LEMMA SetStep == ASSUME SelectionInv, SetDimension \/ SetChains PROVE SelectionInv'
<1>1. CASE SetDimension
  <2>1. PICK d \in DOMAIN Market : Does(Watcher([Now EXCEPT !.f.dim = d], {}))
    BY <1>1 DEF SetDimension
  <2> DEFINE x == [Now EXCEPT !.f.dim = d]
  <2>2. x = Selecting([form EXCEPT !.dim = d], epochs, calls)
    BY DEF Now, Selecting
  <2>3. [form EXCEPT !.dim = d] \in Forms
    BY NowIs DEF Forms
  <2>4. x \in Pages /\ Numbered(x)
    BY <2>2, <2>3, NowIs DEF Selecting, Pages, Numbered
  <2> HIDE DEF x
  <2>5. Well(Watcher(x, {}))
    BY <2>4, WatcherDoes
  <2>6. QED
    BY <2>1, <2>5, WellBecomes, NowIs DEF Does, x
<1>2. CASE SetChains
  <2>1. PICK cs \in SUBSET Chains : Does(Watcher([Now EXCEPT !.f.chains = cs], form.chains \ cs))
    BY <1>2 DEF SetChains
  <2> DEFINE x == [Now EXCEPT !.f.chains = cs]
  <2>2. x = Selecting([form EXCEPT !.chains = cs], epochs, calls)
    BY DEF Now, Selecting
  <2>3. [form EXCEPT !.chains = cs] \in Forms
    BY NowIs DEF Forms
  <2>4. x \in Pages /\ Numbered(x)
    BY <2>2, <2>3, NowIs DEF Selecting, Pages, Numbered
  <2> HIDE DEF x
  <2>5. Well(Watcher(x, form.chains \ cs))
    BY <2>4, WatcherDoes
  <2>6. QED
    BY <2>1, <2>5, WellBecomes, NowIs DEF Does, x
<1>3. QED
  BY <1>1, <1>2

LEMMA SearchStep == ASSUME SelectionInv, Search PROVE SelectionInv'
<1>1. PICK s \in Terms :
        LET x == [Now EXCEPT !.f.search = s] IN Does(LoadList(IF form.chains = {} THEN NoBulk(x) ELSE x, FALSE))
  BY DEF Search
<1> DEFINE f == [form EXCEPT !.search = s]
           x == Selecting(f, epochs, calls)
<1>2. [Now EXCEPT !.f.search = s] = x
  BY DEF Now, Selecting
<1>3. f \in Forms /\ \A k \in {"dim", "chains", "excluded", "selected", "rows", "listLoading", "listError", "bulkLoading", "bulkError"} : f[k] = form[k]
  BY NowIs DEF Forms
<1> HIDE DEF f
<1>4. x.f = f /\ x.e = epochs /\ x.c = calls /\ x \in Pages /\ CurrentList(x) = CurrentList(Now) /\ CurrentBulk(x) = CurrentBulk(Now)
  BY <1>3, NowIs DEF Selecting, Pages, CurrentList, CurrentBulk
<1> HIDE DEF x
<1>5. f.dim = form.dim /\ f.chains = form.chains /\ f.rows = form.rows /\ f.listLoading = form.listLoading /\ f.bulkLoading = form.bulkLoading
      /\ f.bulkError = form.bulkError /\ f.selected = form.selected /\ f.excluded = form.excluded
  BY <1>3
<1>6. Numbered(x) /\ ListFits(x) /\ BulkFits(x) /\ (WholeOrAwaited(Now) => WholeOrAwaited(x))
  BY <1>4, <1>5, NowIs DEF Numbered, ListFits, BulkFits, WholeOrAwaited, Whole
<1>7. CASE form.chains = {}
  <2>1. Does(LoadList(NoBulk(x), FALSE))
    BY <1>1, <1>2, <1>7
  <2>2. NoBulk(x) \in Pages /\ Numbered(NoBulk(x)) /\ BulkFits(NoBulk(x)) /\ NoBulk(x).f.chains = {}
    BY <1>4, <1>5, <1>6, <1>7, NoBulkDoes
  <2>3. Well(LoadList(NoBulk(x), FALSE))
    BY <2>2, LoadListDoes, NoChainIsWhole DEF Well
  <2>4. QED
    BY <2>1, <2>3, WellBecomes, NowIs DEF Does
<1>8. CASE form.chains # {}
  <2>1. Does(LoadList(x, FALSE))
    BY <1>1, <1>2, <1>8
  <2>2. /\ LoadList(x, FALSE) \in Pages /\ Numbered(LoadList(x, FALSE)) /\ ListFits(LoadList(x, FALSE))
        /\ BulkFits(LoadList(x, FALSE)) /\ (WholeOrAwaited(Now) => WholeOrAwaited(LoadList(x, FALSE)))
    BY <1>4, <1>6, LoadListDoes
  <2>3. QED
    BY <2>1, <2>2, SelectionInvBecomes, NowIs DEF Does, SelectionInv
<1>9. QED
  BY <1>7, <1>8

LEMMA ChangeStep == ASSUME SelectionInv, Change PROVE SelectionInv'
<1> DEFINE own == {r \in form.rows : r.chain \in form.chains}
<1>1. PICK ticked \in SUBSET form.rows :
        Does(Selecting([form EXCEPT !.excluded = (@ \ (own \cap ticked)) \cup (own \ ticked),
                               !.selected = (@ \ form.rows) \cup ticked], epochs, calls))
  BY DEF Change
<1> DEFINE f == [form EXCEPT !.excluded = (@ \ (own \cap ticked)) \cup (own \ ticked), !.selected = (@ \ form.rows) \cup ticked]
           x == Selecting(f, epochs, calls)
<1>2. /\ f \in Forms
      /\ f.excluded = (form.excluded \ (own \cap ticked)) \cup (own \ ticked) /\ f.selected = (form.selected \ form.rows) \cup ticked
      /\ f.dim = form.dim /\ f.chains = form.chains /\ f.rows = form.rows /\ f.listLoading = form.listLoading
      /\ f.bulkLoading = form.bulkLoading
  BY NowIs DEF Forms
<1> HIDE DEF f
<1>3. x.f = f /\ x.e = epochs /\ x.c = calls /\ x \in Pages /\ CurrentList(x) = CurrentList(Now) /\ CurrentBulk(x) = CurrentBulk(Now)
  BY <1>2, NowIs DEF Selecting, Pages, CurrentList, CurrentBulk
<1> HIDE DEF x
<1>4. Numbered(x) /\ ListFits(x) /\ BulkFits(x)
  BY <1>2, <1>3, NowIs DEF Numbered, ListFits, BulkFits
<1>5. form.rows \subseteq Market[form.dim] /\ (~muted => Whole(form))
  <2>1. ~form.listLoading /\ ~form.bulkLoading /\ ~form.bulkError
    BY DEF Change, Blocked
  <2>2. QED
    BY <2>1, NowIs DEF ListFits, BulkFits, SelectionInv, WholeOrAwaited
<1>6. Whole(form) => Whole(f)
  BY <1>2, <1>5 DEF Whole
<1>7. Does(x)
  BY <1>1 DEF x, f
<1>8. muted' = muted
  BY <1>7 DEF Does
<1>9. QED
  BY <1>3, <1>4, <1>5, <1>6, <1>7, <1>8, SelectionInvBecomes, NowIs DEF Does, WholeOrAwaited

LEMMA SelectAllStep == ASSUME SelectionInv, SelectAll PROVE SelectionInv'
<1>1. Does(SelectAllOf(Now))
  BY DEF SelectAll
<1>2. QED
  BY <1>1, SelectAllDoes, SelectionInvBecomes, NowIs DEF Does, SelectionInv

LEMMA ClearStep == ASSUME SelectionInv, ClearForm PROVE SelectionInv'
<1> DEFINE x == IF form.chains = {} THEN Now ELSE Watcher([NoBulk(Now) EXCEPT !.f.chains = {}], form.chains)
           z == NoBulk(x)
           f == [z.f EXCEPT !.excluded = {}, !.selected = {}]
           y == Selecting(f, z.e, x.c)
<1>1. Does(y)
  BY DEF ClearForm
<1>2. x \in Pages /\ Numbered(x) /\ ListFits(x) /\ x.f.chains = {}
  <2>1. CASE form.chains = {}
    BY <2>1, NowIs
  <2>2. CASE form.chains # {}
    <3> DEFINE n == NoBulk(Now)
               g == [n.f EXCEPT !.chains = {}]
    <3>1. n \in Pages /\ Numbered(n)
      BY NowIs, NoBulkDoes
    <3> HIDE DEF n
    <3>2. [n EXCEPT !.f.chains = {}] = Selecting(g, n.e, n.c)
      BY <3>1 DEF Pages, Selecting
    <3>3. g \in Forms /\ g.chains = {}
      BY <3>1 DEF Pages, Forms
    <3> HIDE DEF g
    <3>4. Selecting(g, n.e, n.c) \in Pages /\ Numbered(Selecting(g, n.e, n.c)) /\ Selecting(g, n.e, n.c).f.chains = {}
      BY <3>1, <3>3 DEF Pages, Selecting, Numbered
    <3>5. x = Watcher(Selecting(g, n.e, n.c), form.chains)
      BY <2>2, <3>2 DEF n, g
    <3>6. QED
      BY <3>4, <3>5, WatcherDoes DEF Well
  <2>3. QED
    BY <2>1, <2>2
<1> HIDE DEF x
<1>3. z \in Pages /\ Numbered(z) /\ BulkFits(z) /\ ListFits(z) /\ z.f.chains = {}
  BY <1>2, NoBulkDoes
<1>4. z.c = x.c
  BY DEF NoBulk, Selecting
<1> HIDE DEF z
<1>5. f \in Forms /\ f.chains = {} /\ f.dim = z.f.dim /\ f.rows = z.f.rows /\ f.listLoading = z.f.listLoading /\ f.bulkLoading = z.f.bulkLoading
  BY <1>3 DEF Pages, Forms
<1> HIDE DEF f
<1>6. y.f = f /\ y.e = z.e /\ y.c = z.c /\ y \in Pages /\ CurrentList(y) = CurrentList(z) /\ CurrentBulk(y) = CurrentBulk(z)
  BY <1>3, <1>4, <1>5 DEF Selecting, Pages, CurrentList, CurrentBulk
<1> HIDE DEF y
<1>7. Well(y)
  BY <1>3, <1>5, <1>6, NoChainIsWhole DEF Well, Numbered, ListFits, BulkFits
<1>8. QED
  BY <1>1, <1>7, WellBecomes, NowIs DEF Does

LEMMA RetryStep == ASSUME SelectionInv, RetryForm PROVE SelectionInv'
<1>1. CASE form.chains # {}
  <2>1. Does(SyncChains(LoadList(Now, FALSE)))
    BY <1>1 DEF RetryForm
  <2>2. Well(SyncChains(LoadList(Now, FALSE)))
    BY NowIs, LoadListDoes, SyncDoes
  <2>3. QED
    BY <2>1, <2>2, WellBecomes, NowIs DEF Does
<1>2. CASE form.chains = {}
  <2>1. Does(LoadList(Now, form.bulkError)) /\ form.bulkError \in BOOLEAN
    BY <1>2, NowIs DEF RetryForm, Forms
  <2>2. Well(LoadList(Now, form.bulkError))
    BY <1>2, <2>1, NowIs, LoadListDoes, NoChainIsWhole DEF Well
  <2>3. QED
    BY <2>1, <2>2, WellBecomes, NowIs DEF Does
<1>3. QED
  BY <1>1, <1>2

(* What is left of a page when a call was answered: the parts that rest on the *)
(* calls follow from what the answer makes of the form.                        *)
LEMMA CallGoes ==
  ASSUME SelectionInv, NEW c \in calls, NEW f \in Forms, f.dim = form.dim, f.chains = form.chains,
         (f.listLoading = form.listLoading /\ f.rows = form.rows)
           \/ (c \in CurrentList(Now) /\ f.rows \subseteq Market[form.dim]),
         f.bulkLoading = form.bulkLoading \/ c \in CurrentBulk(Now)
  PROVE  LET x == Selecting(f, epochs, calls \ {c}) IN
         /\ x \in Pages /\ x.f = f /\ x.c = calls \ {c} /\ Numbered(x) /\ ListFits(x) /\ BulkFits(x)
         /\ CurrentList(x) = CurrentList(Now) \ {c} /\ CurrentBulk(x) = CurrentBulk(Now) \ {c}
<1> DEFINE x == Selecting(f, epochs, calls \ {c})
<1>1. x.f = f /\ x.e = epochs /\ x.c = calls \ {c} /\ x \in Pages
  BY NowIs DEF Selecting, Pages
<1> HIDE DEF x
<1>2. CurrentList(x) = CurrentList(Now) \ {c} /\ CurrentBulk(x) = CurrentBulk(Now) \ {c}
  BY <1>1, NowIs DEF CurrentList, CurrentBulk
<1>3. Numbered(x)
  BY <1>1, NowIs DEF Numbered
<1>4. /\ c \in CurrentList(Now) => CurrentList(x) = {}
      /\ c \in CurrentBulk(Now) => CurrentBulk(x) = {}
  BY <1>1, <1>2, NowIs DEF Numbered, CurrentList, CurrentBulk
<1>5. ListFits(x)
  BY <1>1, <1>2, <1>4, NowIs DEF ListFits
<1>6. BulkFits(x)
  BY <1>1, <1>2, <1>4, NowIs DEF BulkFits
<1>7. QED
  BY <1>1, <1>2, <1>3, <1>5, <1>6 DEF x

LEMMA ShownInMarket ==
  ASSUME NEW p \in Settings
  PROVE  Shown(p) \subseteq OfChains(p) /\ OfChains(p) \subseteq Market[p.dim] /\ Market[p.dim] \subseteq Tokens
BY DEF Shown, OfChains, Settings, Tokens

\* An answer or a failure keeps a page well.
LEMMA AnswerDoes ==
  ASSUME SelectionInv, NEW c \in calls, NEW x \in {Answered(c), FailedCall(c)}
  PROVE  /\ x \in Pages /\ Numbered(x) /\ ListFits(x) /\ BulkFits(x)
         /\ WholeOrAwaited(Now) => WholeOrAwaited(x)
         /\ c.again => x.f.bulkError = form.bulkError
         /\ c.again /\ Counts(c) => x.f.chains = {}
<1> USE NowIs
<1>1. /\ c \in Calls /\ c.p \in Settings /\ c.kind \in {"list", "sync", "all"} /\ (c.again => c.kind = "list")
      /\ form.dim \in DOMAIN Market
  BY DEF Pages, Calls, Numbered, Forms
<1>2. c.kind = "list" => (Counts(c) <=> c \in CurrentList(Now)) /\ c \notin CurrentBulk(Now)
  BY DEF Counts, CurrentList, CurrentBulk
<1>3. c.kind # "list" => (Counts(c) <=> c \in CurrentBulk(Now)) /\ c \notin CurrentList(Now)
  BY DEF Counts, CurrentList, CurrentBulk
<1>4. c.again /\ Counts(c) => form.chains = {}
  BY <1>1, <1>2 DEF ListFits
<1>5. CASE ~Counts(c)
  <2>1. x = Selecting(form, epochs, calls \ {c})
    <3>1. Answered(c) = Selecting(form, epochs, calls \ {c})
      BY <1>5 DEF Answered
    <3>2. FailedCall(c) = Selecting(form, epochs, calls \ {c})
      BY <1>5 DEF FailedCall
    <3>3. QED
      BY <3>1, <3>2
  <2>2. /\ x \in Pages /\ x.f = form /\ Numbered(x) /\ ListFits(x) /\ BulkFits(x)
        /\ CurrentBulk(x) = CurrentBulk(Now) \ {c}
    BY <2>1, CallGoes
  <2>3. c \notin CurrentBulk(Now)
    BY <1>1, <1>2, <1>3, <1>5
  <2>4. QED
    BY <1>5, <2>2, <2>3 DEF WholeOrAwaited
<1>6. CASE Counts(c) /\ c.kind = "list"
  <2> DEFINE fs == {[form EXCEPT !.rows = Shown(c.p), !.listLoading = FALSE],
                   [form EXCEPT !.rows = {}, !.listLoading = FALSE, !.listError = TRUE]}
  <2>1. PICK f \in fs : x = Selecting(f, epochs, calls \ {c})
    BY <1>6 DEF Answered, FailedCall
  <2>2. c \in CurrentList(Now) /\ c.p.dim = form.dim
    BY <1>2, <1>6 DEF ListFits
  <2>3. Shown(c.p) \subseteq Market[form.dim] /\ Shown(c.p) \subseteq Tokens
    BY <1>1, <2>2, ShownInMarket
  <2>4. /\ f \in Forms /\ f.dim = form.dim /\ f.chains = form.chains /\ f.rows \subseteq Market[form.dim]
        /\ f.bulkLoading = form.bulkLoading /\ f.bulkError = form.bulkError
        /\ f.selected = form.selected /\ f.excluded = form.excluded
    BY <2>3 DEF Forms
  <2> HIDE DEF fs
  <2>5. /\ x \in Pages /\ x.f = f /\ Numbered(x) /\ ListFits(x) /\ BulkFits(x)
        /\ CurrentBulk(x) = CurrentBulk(Now) \ {c}
    BY <2>1, <2>2, <2>4, CallGoes
  <2>6. QED
    BY <1>2, <1>4, <1>6, <2>4, <2>5 DEF WholeOrAwaited, Whole
<1>7. CASE Counts(c) /\ c.kind # "list"
  <2>1. c \in CurrentBulk(Now) /\ c.p.dim = form.dim /\ c.p.chains = form.chains /\ ~c.again
    BY <1>1, <1>3, <1>7 DEF BulkFits
  <2>2. CurrentBulk(Now) = {c}
    BY <2>1 DEF CurrentBulk, Numbered
  <2>3. Shown(c.p) \subseteq Market[form.dim] /\ Shown(c.p) \subseteq Tokens /\ OfChains(c.p) \subseteq Tokens
    BY <1>1, <2>1, ShownInMarket
  <2>4. CASE x = FailedCall(c)
    <3> DEFINE f == [form EXCEPT !.bulkLoading = FALSE, !.bulkError = TRUE]
    <3>1. x = Selecting(f, epochs, calls \ {c})
      BY <1>7, <2>4 DEF FailedCall
    <3>2. /\ f \in Forms /\ f.dim = form.dim /\ f.chains = form.chains /\ f.rows = form.rows
          /\ f.listLoading = form.listLoading /\ f.bulkError
      BY DEF Forms
    <3> HIDE DEF f
    <3>3. x \in Pages /\ x.f = f /\ Numbered(x) /\ ListFits(x) /\ BulkFits(x)
      BY <2>1, <3>1, <3>2, CallGoes
    <3>4. QED
      BY <2>1, <3>2, <3>3 DEF WholeOrAwaited
  <2>5. CASE x = Answered(c) /\ c.kind = "sync"
    <3> DEFINE f == [form EXCEPT !.bulkLoading = FALSE,
                       !.selected = {r \in @ : r.chain \notin form.chains} \cup (OfChains(c.p) \ form.excluded)]
    <3>1. x = Selecting(f, epochs, calls \ {c})
      BY <1>7, <2>5 DEF Answered
    <3>2. /\ f \in Forms /\ f.dim = form.dim /\ f.chains = form.chains /\ f.rows = form.rows
          /\ f.listLoading = form.listLoading /\ f.excluded = form.excluded
          /\ f.selected = {r \in form.selected : r.chain \notin form.chains} \cup (OfChains(c.p) \ form.excluded)
      BY <2>3 DEF Forms
    <3> HIDE DEF f
    <3>3. x \in Pages /\ x.f = f /\ Numbered(x) /\ ListFits(x) /\ BulkFits(x)
      BY <2>1, <3>1, <3>2, CallGoes
    <3>4. OfChains(c.p) = {r \in Market[form.dim] : r.chain \in form.chains}
      BY <2>1, <2>5 DEF OfChains, BulkFits
    <3>5. Whole(f)
      BY <3>2, <3>4 DEF Whole
    <3>6. QED
      BY <2>1, <3>3, <3>5 DEF WholeOrAwaited
  <2>6. CASE x = Answered(c) /\ c.kind = "all"
    <3> DEFINE f == [form EXCEPT !.bulkLoading = FALSE, !.excluded = @ \ Shown(c.p), !.selected = @ \cup Shown(c.p)]
    <3>1. x = Selecting(f, epochs, calls \ {c})
      BY <1>7, <2>6 DEF Answered
    <3>2. /\ f \in Forms /\ f.dim = form.dim /\ f.chains = form.chains /\ f.rows = form.rows
          /\ f.listLoading = form.listLoading /\ f.excluded = form.excluded \ Shown(c.p)
          /\ f.selected = form.selected \cup Shown(c.p) /\ f.bulkError = form.bulkError
      BY <2>3 DEF Forms
    <3> HIDE DEF f
    <3>3. x \in Pages /\ x.f = f /\ Numbered(x) /\ ListFits(x) /\ BulkFits(x)
      BY <2>1, <3>1, <3>2, CallGoes
    <3>4. Whole(form) => Whole(f)
      BY <2>3, <3>2 DEF Whole
    <3>5. QED
      BY <2>1, <2>2, <2>6, <3>2, <3>3, <3>4 DEF WholeOrAwaited
  <2>7. QED
    BY <1>1, <1>7, <2>4, <2>5, <2>6
<1>8. QED
  BY <1>5, <1>6, <1>7

LEMMA AnswerStep == ASSUME SelectionInv, NEW c \in calls, AnswerCall(c) PROVE SelectionInv'
<1>1. PICK x \in {Answered(c), FailedCall(c)} : Becomes(Resume(c, x))
  BY DEF AnswerCall
<1>2. muted' = (muted \/ (c.again /\ ~Counts(c) /\ form.bulkError)) /\ muted' \in BOOLEAN
  BY NowIs DEF AnswerCall
<1>3. /\ x \in Pages /\ Numbered(x) /\ ListFits(x) /\ BulkFits(x)
      /\ WholeOrAwaited(Now) => WholeOrAwaited(x)
      /\ c.again => x.f.bulkError = form.bulkError
      /\ c.again /\ Counts(c) => x.f.chains = {}
  BY AnswerDoes
<1>4. CASE ~c.again
  BY <1>1, <1>2, <1>3, <1>4, SelectionInvBecomes DEF Resume, SelectionInv
<1>5. CASE c.again
  <2> DEFINE f == [x.f EXCEPT !.bulkError = FALSE]
             y == Selecting(f, x.e, x.c)
  <2>2. /\ f \in Forms /\ f.dim = x.f.dim /\ f.chains = x.f.chains /\ f.rows = x.f.rows /\ f.listLoading = x.f.listLoading
        /\ f.bulkLoading = x.f.bulkLoading /\ f.selected = x.f.selected /\ f.excluded = x.f.excluded /\ ~f.bulkError
    BY <1>3 DEF Pages, Forms
  <2> HIDE DEF f
  <2>3. y.f = f /\ y.e = x.e /\ y.c = x.c /\ y \in Pages /\ CurrentList(y) = CurrentList(x) /\ CurrentBulk(y) = CurrentBulk(x)
    BY <1>3, <2>2 DEF Selecting, Pages, CurrentList, CurrentBulk
  <2>4. Becomes(SelectAllOf(y))
    BY <1>1, <1>5 DEF Resume, f, y
  <2> HIDE DEF y
  <2>5. Numbered(y) /\ ListFits(y) /\ BulkFits(y)
    BY <1>3, <2>2, <2>3 DEF Numbered, ListFits, BulkFits
  <2>6. muted' \/ WholeOrAwaited(y)
    <3>1. CASE Counts(c)
      BY <1>3, <1>5, <2>2, <2>3, <3>1, NoChainIsWhole
    <3>2. CASE ~Counts(c)
      BY <1>2, <1>3, <1>5, <2>2, <2>3, <3>2 DEF WholeOrAwaited, Whole, SelectionInv
    <3>3. QED
      BY <3>1, <3>2
  <2>7. QED
    BY <1>2, <2>3, <2>4, <2>5, <2>6, SelectAllDoes, SelectionInvBecomes
<1>6. QED
  BY <1>4, <1>5

LEMMA SelectionInvStep == SelectionInv /\ [SelectionNext]_uvars => SelectionInv'
<1> SUFFICES ASSUME SelectionInv, [SelectionNext]_uvars PROVE SelectionInv'
  OBVIOUS
<1>1. CASE UNCHANGED uvars
  <2>1. Now' = Now /\ muted' = muted
    BY <1>1 DEF uvars, Now
  <2>2. QED
    BY <2>1 DEF SelectionInv, SelectionTypes, Numbered, ListFits, BulkFits, WholeOrAwaited, CurrentList, CurrentBulk, Whole
<1>2. CASE SelectionNext
  BY <1>2, SetStep, SearchStep, ChangeStep, SelectAllStep, ClearStep, RetryStep, AnswerStep DEF SelectionNext
<1>3. QED
  BY <1>1, <1>2

(* What the user selects stays in step with what is asked for and answered:    *)
(* only the newest answer of each kind counts, and it is of the form as it is. *)
THEOREM SelectionInductive == SelectionSpec => []SelectionInv
BY SelectionInvInit, SelectionInvStep, PTL DEF SelectionSpec

(* Once nothing is loading and nothing has failed, a selected chain is selected *)
(* whole: all its tokens but the excluded ones (useCaSelection).                *)
THEOREM ChainsStayWhole == SelectionSpec => []ChainsWhole
<1>1. SelectionInv => ChainsWhole
  BY NowIs DEF SelectionInv, ChainsWhole, WholeOrAwaited, Whole, Blocked, BulkFits
<1>2. QED
  BY <1>1, SelectionInductive, PTL

(* ------------------------------ ChartDrawing ------------------------------ *)

ChartSpec == ChartInit /\ [][ChartNext]_kvars

Charts ==
  [version : Nat, symbol : Symbols, widget : Nat, ready : BOOLEAN, external : BOOLEAN, showExternal : BOOLEAN,
   showFib : BOOLEAN, selected : Nat, error : BOOLEAN]
Shapes == [layer : Layers, time : Moments, epoch : Nat, v : Nat]
Awaits == [kind : Layers \cup {"rows", "history", "externalRows"}, v : Nat, epoch : Nat, todo : SUBSET Moments]
PictureTypes(p) ==
  /\ DOMAIN p = {"c", "b", "e", "k", "s", "j", "t"}
  /\ p.c \in Charts /\ p.b \in SUBSET Moments /\ p.e \in [Layers -> Nat] /\ p.k \in [Layers -> SUBSET Shapes]
  /\ p.s \in SUBSET Shapes /\ p.j \in SUBSET Awaits /\ p.t \in BOOLEAN

(* The await of a layer that still counts: of its rows or of its drawings.     *)
About(j, layer) == j.kind = layer \/ (j.kind = "rows" /\ layer = "marks")
Current(p, layer) == {j \in p.j : About(j, layer) /\ j.epoch = p.e[layer]}
RowsDue(p) == \E j \in p.j : j.kind = "rows" /\ j.epoch = p.e["marks"]
(* The times a layer shows or is going to show.                                *)
OnChart(p, layer) == {s.time : s \in p.k[layer]}
Due(p, layer) == UNION {j.todo : j \in {i \in Current(p, layer) : i.kind = layer}}

(* Every layer knows what it has put on the chart, each time once.             *)
Canvas(p) ==
  /\ p.s = UNION {p.k[l] : l \in Layers}
  /\ \A l \in Layers : \A s \in p.k[l] : s.layer = l /\ s.time \in p.b
  /\ \A l \in Layers : \A s, u \in p.k[l] : s.time = u.time => s = u
  /\ p.c.ready \/ \A l \in Layers : p.k[l] = {}
(* Of every layer at most one await counts, and what it draws is not drawn.    *)
Awaited(p) ==
  /\ \A l \in Layers : \A j \in p.j : About(j, l) => j.epoch <= p.e[l]
  /\ \A l \in Layers : \A i, j \in Current(p, l) : i = j
  /\ \A l \in Layers : \A j \in Current(p, l) :
       /\ p.c.ready /\ j.v = p.c.version
       /\ j.kind = l => j.todo # {} /\ j.todo \subseteq p.b /\ j.todo \cap OnChart(p, l) = {}
  /\ \A j \in p.j : j.kind \in Layers => j.todo # {} /\ IsFiniteSet(j.todo)
  /\ \A j \in p.j : j.kind \notin Layers => j.v = p.c.version
(* A mount has its widget once its history is there.                           *)
Mounted(p) ==
  /\ p.c.widget \in {0, p.c.version} /\ p.c.version > 0
  /\ p.c.ready => p.c.widget = p.c.version
  /\ p.t => p.c.ready
  /\ \A i, j \in p.j : i.kind = "history" /\ j.kind = "history" => i = j
  /\ \A j \in p.j : j.kind = "history" => p.c.widget = 0
  /\ p.c.widget = 0 => p.c.selected = Nothing
  /\ p.c.selected = Nothing \/ p.c.selected \in p.b \/ p.c.selected \notin MoreBars[p.c.symbol]
Sound(p) == PictureTypes(p) /\ Canvas(p) /\ Awaited(p) /\ Mounted(p)

Target(p, layer) ==
  CASE layer = "marks" -> Loaded(p, layer)
    [] layer = "external" -> IF p.c.showExternal /\ p.c.external THEN Loaded(p, layer) ELSE {}
    [] layer = "fib" -> IF p.c.showFib THEN Loaded(p, layer) ELSE {}
    [] layer = "reference" -> {p.c.selected} \cap p.b
Covered(p, layer) == OnChart(p, layer) \cup Due(p, layer) = Target(p, layer)
Asked(p) == p.c.error \/ p.c.external \/ \E j \in p.j : j.kind = "externalRows"
(* What should be drawn is drawn, or an await or the timer will see to it.     *)
Provided(p) ==
  /\ Asked(p)
  /\ p.c.ready /\ ~p.c.error =>
       /\ Covered(p, "fib") /\ Covered(p, "reference")
       /\ p.t \/ (Covered(p, "external") /\ (RowsDue(p) \/ Covered(p, "marks")))
ChartInv == Sound(Picture) /\ Provided(Picture)

(* Nothing but some layers has changed from p to q.                            *)
SameBut(p, q, L) ==
  /\ q.c = p.c /\ q.b = p.b /\ q.t = p.t
  /\ \A l \in Layers \ L : q.k[l] = p.k[l] /\ Due(q, l) = Due(p, l)
  /\ \A j : j.kind \in {"history", "externalRows"} => (j \in q.j <=> j \in p.j)
  /\ "marks" \notin L => (RowsDue(q) <=> RowsDue(p))

(* ------------------------- what the helpers do ---------------------------- *)

LEMMA WipeDoes ==
  ASSUME NEW p, Sound(p), NEW layer \in Layers
  PROVE  LET q == Wipe(p, layer) IN
         /\ Sound(q) /\ SameBut(p, q, {layer}) /\ q.k[layer] = {} /\ Current(q, layer) = {}
<1> DEFINE q == Wipe(p, layer)
<1>1. PictureTypes(p)
  BY DEF Sound
<1>2. /\ q.c = p.c /\ q.b = p.b /\ q.e = [p.e EXCEPT ![layer] = @ + 1] /\ q.k = [p.k EXCEPT ![layer] = {}]
      /\ q.s = p.s \ p.k[layer] /\ q.j = p.j /\ q.t = p.t
  BY <1>1 DEF Wipe, PictureTypes
<1>3. PictureTypes(q)
  <2>1. DOMAIN q = DOMAIN p
    BY DEF Wipe
  <2>2. q.e \in [Layers -> Nat] /\ q.k \in [Layers -> SUBSET Shapes]
    BY <1>1, <1>2 DEF PictureTypes
  <2>3. QED
    BY <1>1, <1>2, <2>1, <2>2 DEF PictureTypes
<1> HIDE DEF q
<1>4. /\ q.k[layer] = {} /\ q.e[layer] = p.e[layer] + 1 /\ p.e[layer] \in Nat
      /\ \A l \in Layers : l # layer => q.k[l] = p.k[l] /\ q.e[l] = p.e[l]
  BY <1>1, <1>2 DEF PictureTypes
<1>5. Current(q, layer) = {} /\ \A l \in Layers : l # layer => Current(q, l) = Current(p, l)
  <2>1. \A j \in p.j : About(j, layer) => j.epoch <= p.e[layer] /\ j.epoch \in Nat
    BY <1>1 DEF PictureTypes, Sound, Awaited, Awaits
  <2>2. QED
    BY <1>2, <1>4, <2>1 DEF Current
<1>6. Canvas(q)
  <2>1. p.s = UNION {p.k[l] : l \in Layers} /\ \A l \in Layers : \A s \in p.k[l] : s.layer = l
    BY DEF Sound, Canvas
  <2>2. q.s = UNION {q.k[l] : l \in Layers}
    BY <1>2, <1>4, <2>1
  <2>3. QED
    BY <1>2, <1>4, <2>2 DEF Sound, Canvas
<1>7. \A l \in Layers : l # layer => OnChart(q, l) = OnChart(p, l)
  BY <1>4 DEF OnChart
<1>8. Awaited(q)
  <2>1. \A l \in Layers : \A j \in q.j : About(j, l) => j.epoch <= q.e[l]
    <3>1. \A l \in Layers : \A j \in p.j : About(j, l) => j.epoch <= p.e[l] /\ j.epoch \in Nat /\ p.e[l] \in Nat
      BY <1>1 DEF PictureTypes, Sound, Awaited, Awaits
    <3>2. QED
      BY <1>2, <1>4, <3>1
  <2>2. QED
    BY <1>2, <1>5, <1>7, <2>1 DEF Sound, Awaited
<1>9. Mounted(q)
  BY <1>2 DEF Sound, Mounted
<1>10. SameBut(p, q, {layer})
  BY <1>2, <1>4, <1>5 DEF SameBut, Due, RowsDue
<1>11. QED
  BY <1>3, <1>4, <1>5, <1>6, <1>8, <1>9, <1>10 DEF Sound, q

LEMMA AwaitDoes ==
  ASSUME NEW p, Sound(p), NEW layer \in Layers, Current(p, layer) = {}, p.c.ready,
         NEW todo, todo # {}, todo \subseteq p.b, IsFiniteSet(todo), todo \cap OnChart(p, layer) = {}
  PROVE  LET q == Await(p, layer, todo) IN
         /\ Sound(q) /\ SameBut(p, q, {layer}) /\ q.k = p.k /\ Due(q, layer) = todo
<1> DEFINE new == [kind |-> layer, v |-> p.c.version, epoch |-> p.e[layer], todo |-> todo]
           q == Await(p, layer, todo)
<1>1. PictureTypes(p) /\ new \in Awaits
  BY DEF PictureTypes, Sound, Awaits, Charts
<1>2. /\ q.c = p.c /\ q.b = p.b /\ q.e = p.e /\ q.k = p.k /\ q.s = p.s /\ q.j = p.j \cup {new} /\ q.t = p.t
  BY <1>1 DEF Await, PictureTypes
<1>3. PictureTypes(q)
  <2>1. DOMAIN q = DOMAIN p
    BY DEF Await
  <2>2. QED
    BY <1>1, <1>2, <2>1 DEF PictureTypes
<1>a. new.kind = layer /\ new.v = p.c.version /\ new.epoch = p.e[layer] /\ new.todo = todo
  OBVIOUS
<1> HIDE DEF q, new
<1>4. layer \notin {"rows", "history", "externalRows"} /\ \A l \in Layers : About(new, l) <=> l = layer
  BY <1>a DEF Layers, About
<1>5. Current(q, layer) = {new} /\ \A l \in Layers : l # layer => Current(q, l) = Current(p, l)
  BY <1>2, <1>4, <1>a DEF Current
<1>6. Canvas(q)
  BY <1>2 DEF Sound, Canvas
<1>7. \A l \in Layers : OnChart(q, l) = OnChart(p, l)
  BY <1>2 DEF OnChart
<1>8. Awaited(q)
  <2>1. \A l \in Layers : \A j \in q.j : About(j, l) => j.epoch <= q.e[l]
    BY <1>1, <1>2, <1>4, <1>a DEF PictureTypes, Sound, Awaited
  <2>2. \A l \in Layers : \A i, j \in Current(q, l) : i = j
    BY <1>5 DEF Sound, Awaited
  <2>3. \A l \in Layers : \A j \in Current(q, l) :
          /\ q.c.ready /\ j.v = q.c.version
          /\ j.kind = l => j.todo # {} /\ j.todo \subseteq q.b /\ j.todo \cap OnChart(q, l) = {}
    BY <1>2, <1>5, <1>7, <1>a DEF Sound, Awaited
  <2>4. \A j \in q.j : j.kind \in Layers => j.todo # {} /\ IsFiniteSet(j.todo)
    BY <1>2, <1>a DEF Sound, Awaited
  <2>5. \A j \in q.j : j.kind \notin Layers => j.v = q.c.version
    BY <1>2, <1>a DEF Sound, Awaited
  <2>6. QED
    BY <2>1, <2>2, <2>3, <2>4, <2>5 DEF Awaited
<1>9. Mounted(q)
  BY <1>2, <1>4, <1>a DEF Sound, Mounted
<1>10. SameBut(p, q, {layer})
  BY <1>2, <1>4, <1>5, <1>a DEF SameBut, Due, RowsDue
<1>11. Due(q, layer) = todo
  BY <1>5, <1>a DEF Due
<1>12. QED
  BY <1>2, <1>3, <1>6, <1>8, <1>9, <1>10, <1>11 DEF Sound, q

Drawable(p, items) == items \subseteq p.b /\ IsFiniteSet(items)
Redrawn(p, q, layer, items) == Sound(q) /\ SameBut(p, q, {layer}) /\ OnChart(q, layer) \cup Due(q, layer) = items
Wiped(p, layer) == Sound(p) /\ p.c.ready /\ Current(p, layer) = {} /\ p.k[layer] = {}

\* A layer that was wiped is to show what it is told to draw.
LEMMA DrawDoes ==
  ASSUME NEW p, NEW layer \in Layers, Wiped(p, layer), NEW items, Drawable(p, items)
  PROVE  Redrawn(p, Draw(p, layer, items), layer, items)
<1>1. OnChart(p, layer) = {}
  BY DEF OnChart, Wiped
<1>2. CASE items = {}
  BY <1>1, <1>2 DEF Draw, SameBut, Due, Wiped, Redrawn
<1>3. CASE items # {}
  <2>1. Draw(p, layer, items) = Await(p, layer, items) /\ items \cap OnChart(p, layer) = {}
    BY <1>1, <1>3 DEF Draw
  <2> DEFINE q == Await(p, layer, items)
  <2>2. Sound(q) /\ SameBut(p, q, {layer}) /\ q.k = p.k /\ Due(q, layer) = items
    BY <1>3, <2>1, AwaitDoes DEF Drawable, Wiped
  <2> HIDE DEF q
  <2>3. OnChart(q, layer) = {}
    BY <2>2 DEF OnChart, Wiped
  <2>4. QED
    BY <2>1, <2>2, <2>3 DEF q, Redrawn
<1>4. QED
  BY <1>2, <1>3

LEMMA SameTwice ==
  ASSUME NEW p, NEW q, NEW r, NEW L, NEW M, SameBut(p, q, L), SameBut(q, r, M)
  PROVE  SameBut(p, r, L \cup M)
BY DEF SameBut

LEMMA DrawsDoes ==
  ASSUME NEW o, Sound(o), NEW layer \in Layers, o.c.ready, NEW items, Drawable(o, items)
  PROVE  Redrawn(o, Draws(o, layer, items), layer, items)
<1>0. PICK w : w = Wipe(o, layer)
  OBVIOUS
<1>1. Sound(w) /\ SameBut(o, w, {layer}) /\ w.k[layer] = {} /\ Current(w, layer) = {}
  BY <1>0, WipeDoes
<1>2. Wiped(w, layer) /\ Drawable(w, items)
  BY <1>1 DEF SameBut, Drawable, Wiped
<1>3. Redrawn(w, Draw(w, layer, items), layer, items)
  BY <1>2, DrawDoes
<1>4. SameBut(o, Draw(w, layer, items), {layer} \cup {layer})
  BY <1>1, <1>3, SameTwice DEF Redrawn
<1>5. {layer} \cup {layer} = {layer}
  OBVIOUS
<1>6. QED
  BY <1>0, <1>3, <1>4, <1>5 DEF Draws, Redrawn

LEMMA LoadMarkersDoes ==
  ASSUME NEW p, Sound(p), p.c.ready
  PROVE  LET q == LoadMarkers(p) IN Sound(q) /\ SameBut(p, q, {"marks"}) /\ RowsDue(q)
<1> DEFINE r == [p EXCEPT !.e["marks"] = @ + 1]
           new == [kind |-> "rows", v |-> r.c.version, epoch |-> r.e["marks"], todo |-> {}]
           q == LoadMarkers(p)
<1>1. PictureTypes(p) /\ "marks" \in Layers
  BY DEF Sound, Layers
<1>2. r.c = p.c /\ r.e = [p.e EXCEPT !["marks"] = @ + 1]
  BY <1>1 DEF PictureTypes
<1>3. /\ q.c = p.c /\ q.b = p.b /\ q.e = [p.e EXCEPT !["marks"] = @ + 1] /\ q.k = p.k /\ q.s = p.s
      /\ q.j = p.j \cup {new} /\ q.t = p.t
  BY <1>1 DEF LoadMarkers, PictureTypes
<1>4. /\ q.e["marks"] = p.e["marks"] + 1 /\ p.e["marks"] \in Nat
      /\ \A l \in Layers : l # "marks" => q.e[l] = p.e[l]
      /\ q.e \in [Layers -> Nat]
  BY <1>1, <1>3 DEF PictureTypes
<1>a. new.kind = "rows" /\ new.v = p.c.version /\ new.epoch = q.e["marks"] /\ new.todo = {}
  BY <1>2, <1>3
<1>5. new \in Awaits
  BY <1>1, <1>2, <1>4, <1>a, <1>3 DEF PictureTypes, Awaits, Charts
<1>6. PictureTypes(q)
  <2>1. DOMAIN q = DOMAIN p
    BY DEF LoadMarkers
  <2>2. QED
    BY <1>1, <1>3, <1>4, <1>5, <2>1 DEF PictureTypes
<1> HIDE DEF q, new, r
<1>7. \A l \in Layers : About(new, l) <=> l = "marks"
  BY <1>a DEF Layers, About
<1>8. \A l \in Layers : \A j \in p.j : About(j, l) => j.epoch <= p.e[l] /\ j.epoch \in Nat /\ p.e[l] \in Nat
  BY <1>1 DEF PictureTypes, Sound, Awaited, Awaits
<1>9. Current(q, "marks") = {new} /\ \A l \in Layers : l # "marks" => Current(q, l) = Current(p, l)
  BY <1>1, <1>3, <1>4, <1>7, <1>8, <1>a DEF Current
<1>10. Canvas(q)
  BY <1>3 DEF Sound, Canvas
<1>11. \A l \in Layers : OnChart(q, l) = OnChart(p, l)
  BY <1>3 DEF OnChart
<1>12. Awaited(q)
  <2>1. \A l \in Layers : \A j \in q.j : About(j, l) => j.epoch <= q.e[l]
    BY <1>3, <1>4, <1>7, <1>8, <1>a
  <2>2. \A l \in Layers : \A i, j \in Current(q, l) : i = j
    BY <1>9 DEF Sound, Awaited
  <2>3. \A l \in Layers : \A j \in Current(q, l) :
          /\ q.c.ready /\ j.v = q.c.version
          /\ j.kind = l => j.todo # {} /\ j.todo \subseteq q.b /\ j.todo \cap OnChart(q, l) = {}
    BY <1>3, <1>9, <1>11, <1>a DEF Sound, Awaited
  <2>4. \A j \in q.j : j.kind \in Layers => j.todo # {} /\ IsFiniteSet(j.todo)
    BY <1>3, <1>a DEF Sound, Awaited, Layers
  <2>5. \A j \in q.j : j.kind \notin Layers => j.v = q.c.version
    BY <1>3, <1>a DEF Sound, Awaited
  <2>6. QED
    BY <2>1, <2>2, <2>3, <2>4, <2>5 DEF Awaited
<1>13. Mounted(q)
  BY <1>3, <1>a DEF Sound, Mounted
<1>14. SameBut(p, q, {"marks"})
  BY <1>3, <1>9, <1>a DEF SameBut, Due, RowsDue
<1>15. RowsDue(q)
  BY <1>3, <1>a DEF RowsDue
<1>16. QED
  BY <1>6, <1>10, <1>12, <1>13, <1>14, <1>15 DEF Sound, q

\* What a mount makes of a picture, whatever was on it.
Aged(p) ==
  /\ PictureTypes(p)
  /\ \A l \in Layers : \A j \in p.j : About(j, l) => j.epoch <= p.e[l]
  /\ \A j \in p.j : j.kind \in Layers => j.todo # {} /\ IsFiniteSet(j.todo)

IsReset(o, q) ==
  /\ DOMAIN q = DOMAIN o
  /\ q.c \in Charts /\ q.c.version = o.c.version + 1 /\ q.c.symbol = o.c.symbol
  /\ q.c.widget = 0 /\ ~q.c.ready /\ q.c.selected = Nothing
  /\ q.b = {} /\ q.s = {} /\ q.t = FALSE /\ q.e \in [Layers -> Nat] /\ q.k \in [Layers -> SUBSET Shapes]
  /\ \A l \in Layers : q.k[l] = {} /\ q.e[l] = o.e[l] + 1
  /\ \A j : j \in q.j <=> j \in o.j /\ j.kind \in Layers
LEMMA ResetDoes == ASSUME NEW o, PictureTypes(o) PROVE IsReset(o, ResetChart(Wipe(o, "external")))
<1>1. PICK w : w = Wipe(o, "external")
  OBVIOUS
<1>2. /\ DOMAIN w = DOMAIN o
      /\ w.c = o.c /\ w.b = o.b /\ w.e = [o.e EXCEPT !["external"] = @ + 1] /\ w.k = [o.k EXCEPT !["external"] = {}]
      /\ w.s = o.s \ o.k["external"] /\ w.j = o.j /\ w.t = o.t
  BY <1>1 DEF Wipe, PictureTypes
<1>3. PICK n : n = NoSelection(w)
  OBVIOUS
<1>4. /\ DOMAIN n = DOMAIN o
      /\ n.c = [o.c EXCEPT !.selected = Nothing] /\ n.b = o.b /\ n.e = [w.e EXCEPT !["reference"] = @ + 1]
      /\ n.k = [w.k EXCEPT !["reference"] = {}] /\ n.j = o.j /\ n.t = o.t
  BY <1>2, <1>3 DEF NoSelection, PictureTypes
<1>5. PICK q : q = ResetChart(w)
  OBVIOUS
<1>6. /\ DOMAIN q = DOMAIN o /\ q.b = {} /\ q.t = FALSE /\ q.s = {} /\ q.j = {j \in o.j : j.kind \in Layers}
      /\ q.c = [n.c EXCEPT !.version = @ + 1, !.ready = FALSE, !.widget = 0]
      /\ q.e = [n.e EXCEPT !["fib"] = @ + 1, !["marks"] = @ + 1]
      /\ q.k = [n.k EXCEPT !["fib"] = {}, !["marks"] = {}]
  BY <1>3, <1>4, <1>5 DEF ResetChart, PictureTypes
<1>7. /\ q.c \in Charts /\ q.c.version = o.c.version + 1 /\ q.c.symbol = o.c.symbol
      /\ q.c.widget = 0 /\ ~q.c.ready /\ q.c.selected = Nothing
  <2>1. o.c \in Charts
    BY DEF PictureTypes
  <2>2. n.c \in Charts /\ n.c.selected = Nothing /\ n.c.version = o.c.version /\ n.c.symbol = o.c.symbol
    BY <1>4, <2>1 DEF Charts, Nothing
  <2>3. PICK v : v = n.c.version + 1
    OBVIOUS
  <2>4. v \in Nat
    BY <2>2, <2>3 DEF Charts
  <2>5. q.c = [n.c EXCEPT !.version = v, !.ready = FALSE, !.widget = 0]
    BY <1>6, <2>3
  <2>6. PICK u : u = [n.c EXCEPT !.version = v]
    OBVIOUS
  <2>7. u \in Charts /\ u.version = v /\ u.symbol = n.c.symbol /\ u.selected = n.c.selected
    BY <2>2, <2>4, <2>6 DEF Charts
  <2>8. PICK z : z = [u EXCEPT !.ready = FALSE, !.widget = 0]
    OBVIOUS
  <2>9. z \in Charts /\ z.version = v /\ z.symbol = n.c.symbol /\ z.selected = n.c.selected /\ z.widget = 0 /\ ~z.ready
    BY <2>7, <2>8 DEF Charts
  <2>10. q.c = z
    BY <2>5, <2>6, <2>8
  <2>11. QED
    BY <2>2, <2>3, <2>9, <2>10
<1>8. /\ q.e \in [Layers -> Nat] /\ q.k \in [Layers -> SUBSET Shapes]
      /\ \A l \in Layers : q.k[l] = {} /\ q.e[l] = o.e[l] + 1
  <2>1. o.e \in [Layers -> Nat] /\ o.k \in [Layers -> SUBSET Shapes] /\ Layers = {"marks", "external", "fib", "reference"}
    BY DEF PictureTypes, Layers
  <2>2. w.e \in [Layers -> Nat] /\ \A l \in Layers : w.e[l] = IF l = "external" THEN o.e[l] + 1 ELSE o.e[l]
    BY <1>2, <2>1
  <2>3. n.e \in [Layers -> Nat] /\ \A l \in Layers : n.e[l] = IF l = "reference" THEN w.e[l] + 1 ELSE w.e[l]
    BY <1>4, <2>1, <2>2
  <2>4. q.e \in [Layers -> Nat] /\ \A l \in Layers : q.e[l] = IF l \in {"fib", "marks"} THEN n.e[l] + 1 ELSE n.e[l]
    BY <1>6, <2>1, <2>3
  <2>5. w.k \in [Layers -> SUBSET Shapes] /\ \A l \in Layers : w.k[l] = IF l = "external" THEN {} ELSE o.k[l]
    BY <1>2, <2>1
  <2>6. n.k \in [Layers -> SUBSET Shapes] /\ \A l \in Layers : n.k[l] = IF l = "reference" THEN {} ELSE w.k[l]
    BY <1>4, <2>1, <2>5
  <2>7. q.k \in [Layers -> SUBSET Shapes] /\ \A l \in Layers : q.k[l] = IF l \in {"fib", "marks"} THEN {} ELSE n.k[l]
    BY <1>6, <2>1, <2>6
  <2>8. \A l \in Layers : q.k[l] = {}
    BY <2>1, <2>5, <2>6, <2>7
  <2>9. \A l \in Layers : q.e[l] = o.e[l] + 1
    BY <2>1, <2>2, <2>3, <2>4
  <2>10. QED
    BY <2>4, <2>7, <2>8, <2>9
<1>9. IsReset(o, q)
  BY <1>6, <1>7, <1>8 DEF IsReset
<1>10. QED
  BY <1>1, <1>5, <1>9

LEMMA MountDoes ==
  ASSUME NEW p, Aged(p), NEW focus \in SUBSET Moments
  PROVE  LET q == MountChart(p, focus) IN Sound(q) /\ Provided(q)
<1>1. PICK r : r = ResetChart(Wipe(p, "external"))
  OBVIOUS
<1>2. /\ DOMAIN r = DOMAIN p
      /\ r.c \in Charts /\ r.c.version = p.c.version + 1 /\ r.c.symbol = p.c.symbol
      /\ r.c.widget = 0 /\ ~r.c.ready /\ r.c.selected = Nothing
      /\ r.b = {} /\ r.s = {} /\ r.t = FALSE /\ r.e \in [Layers -> Nat] /\ r.k \in [Layers -> SUBSET Shapes]
      /\ \A l \in Layers : r.k[l] = {} /\ r.e[l] = p.e[l] + 1
      /\ \A j : j \in r.j <=> j \in p.j /\ j.kind \in Layers
  <2>1. PictureTypes(p) /\ r = ResetChart(Wipe(p, "external"))
    BY <1>1 DEF Aged
  <2>2. IsReset(p, r)
    BY <2>1, ResetDoes
  <2>3. QED
    BY <2>2 DEF IsReset
<1>3. PICK m : m = [r EXCEPT !.c.external = FALSE, !.c.error = FALSE]
  OBVIOUS
<1>4. /\ DOMAIN m = DOMAIN p
      /\ m.c = [r.c EXCEPT !.external = FALSE, !.error = FALSE] /\ m.b = {} /\ m.s = {} /\ m.t = r.t /\ m.e = r.e /\ m.k = r.k /\ m.j = r.j
  BY <1>2, <1>3 DEF Aged, PictureTypes, Charts
<1> DEFINE rows == [kind |-> "externalRows", v |-> m.c.version, epoch |-> 0, todo |-> {}]
           bars == [kind |-> "history", v |-> m.c.version, epoch |-> 0, todo |-> focus]
           q == MountChart(p, focus)
<1>5. PICK a : a = Await(m, "externalRows", {})
  OBVIOUS
<1>6. "externalRows" \notin Layers /\ "history" \notin Layers
  BY DEF Layers
<1>7. /\ DOMAIN a = DOMAIN p /\ a.c = m.c /\ a.b = m.b /\ a.e = m.e /\ a.k = m.k /\ a.s = m.s /\ a.j = m.j \cup {rows} /\ a.t = m.t
  BY <1>4, <1>5, <1>6 DEF Await, Aged, PictureTypes
<1>8. q = Await(a, "history", focus)
  BY <1>1, <1>3, <1>5 DEF MountChart
<1>9. /\ DOMAIN q = DOMAIN p /\ q.c = m.c /\ q.b = {} /\ q.e = r.e /\ q.k = r.k /\ q.s = {} /\ q.t = r.t
      /\ q.j = r.j \cup {rows, bars}
  BY <1>4, <1>6, <1>7, <1>8 DEF Await, Aged, PictureTypes
<1> HIDE DEF q
<1>10. /\ q.c \in Charts /\ q.c.version = p.c.version + 1 /\ q.c.version \in Nat /\ p.c.version \in Nat
       /\ q.c.widget = 0 /\ ~q.c.ready /\ q.c.selected = Nothing /\ ~q.c.external /\ ~q.c.error
  <2>1. q.c = [r.c EXCEPT !.external = FALSE, !.error = FALSE] /\ r.c \in Charts /\ p.c \in Charts
    BY <1>2, <1>4, <1>9 DEF Aged, PictureTypes
  <2>2. q.c \in Charts /\ p.c.version \in Nat
    BY <2>1 DEF Charts
  <2>3. QED
    BY <1>2, <2>1, <2>2 DEF Charts
<1>11. rows \in Awaits /\ bars \in Awaits /\ rows.v = q.c.version /\ bars.v = q.c.version
  BY <1>9, <1>10 DEF Awaits
<1>12. rows.kind = "externalRows" /\ bars.kind = "history"
  OBVIOUS
<1> HIDE DEF rows, bars
<1>13. \A l \in Layers : ~About(rows, l) /\ ~About(bars, l)
  BY <1>12 DEF Layers, About
<1>14. PictureTypes(q)
  <2>1. q.j \in SUBSET Awaits
    BY <1>2, <1>9, <1>11 DEF PictureTypes, Aged
  <2>2. DOMAIN q = {"c", "b", "e", "k", "s", "j", "t"}
    BY <1>9 DEF PictureTypes, Aged
  <2>3. q.t \in BOOLEAN
    BY <1>1, <1>2, <1>9
  <2>4. QED
    BY <1>2, <1>9, <1>10, <2>1, <2>2, <2>3 DEF PictureTypes
<1>15. \A l \in Layers : \A j \in q.j : About(j, l) => j \in p.j /\ j.epoch < q.e[l]
  BY <1>2, <1>9, <1>13 DEF Aged, PictureTypes, Awaits
<1>16. \A l \in Layers : Current(q, l) = {}
  BY <1>14, <1>15 DEF Current, PictureTypes, Awaits
<1>17. Canvas(q)
  BY <1>2, <1>9, <1>10 DEF Canvas
<1>18. Awaited(q)
  BY <1>2, <1>9, <1>11, <1>12, <1>6, <1>14, <1>15, <1>16 DEF Awaited, Aged, PictureTypes, Awaits
<1>19. Mounted(q)
  BY <1>2, <1>6, <1>9, <1>10, <1>12 DEF Mounted
<1>20. Provided(q)
  BY <1>9, <1>10, <1>12 DEF Provided, Asked
<1>21. QED
  BY <1>14, <1>17, <1>18, <1>19, <1>20 DEF Sound, q

(* --------------------------- layers of a picture -------------------------- *)

LEMMA CoveredSame ==
  ASSUME NEW o, NEW q, NEW L, SameBut(o, q, L), NEW l \in Layers \ L
  PROVE  Covered(q, l) <=> Covered(o, l)
<1>1. OnChart(q, l) = OnChart(o, l) /\ Due(q, l) = Due(o, l)
  BY DEF SameBut, OnChart
<1>2. Target(q, l) = Target(o, l)
  BY DEF SameBut, Target, Loaded
<1>3. QED
  BY <1>1, <1>2 DEF Covered

LEMMA LoadedDrawable ==
  ASSUME NEW p, Sound(p), NEW l \in Layers
  PROVE  Drawable(p, Loaded(p, l)) /\ Drawable(p, {})
<1>1. p.c.symbol \in Symbols
  BY DEF Sound, PictureTypes, Charts
<1>2. IsFiniteSet(Drawings[l][p.c.symbol])
  BY <1>1, DrawingsAssumption
<1>3. IsFiniteSet(Loaded(p, l))
  BY <1>2, FS_Subset DEF Loaded
<1>4. QED
  BY <1>3, FS_EmptySet DEF Drawable, Loaded

LEMMA DrawExternalDoes ==
  ASSUME NEW o, Sound(o), o.c.ready
  PROVE  LET q == DrawExternal(o) IN Sound(q) /\ SameBut(o, q, {"external"}) /\ Covered(q, "external")
<1>1. PICK items : items = Target(o, "external")
  OBVIOUS
<1>2. items = IF o.c.showExternal /\ o.c.external THEN Loaded(o, "external") ELSE {}
  BY <1>1 DEF Target
<1>3. "external" \in Layers /\ Drawable(o, items)
  BY <1>2, LoadedDrawable DEF Layers
<1>4. PICK q : q = Draws(o, "external", items)
  OBVIOUS
<1>5. Sound(q) /\ SameBut(o, q, {"external"}) /\ OnChart(q, "external") \cup Due(q, "external") = items
  <2>1. Redrawn(o, Draws(o, "external", items), "external", items)
    BY <1>3, DrawsDoes
  <2>2. QED
    BY <1>4, <2>1 DEF Redrawn
<1>6. Target(q, "external") = items
  BY <1>1, <1>5 DEF SameBut, Target, Loaded
<1>7. QED
  BY <1>2, <1>4, <1>5, <1>6 DEF DrawExternal, Covered

LEMMA DrawFibDoes ==
  ASSUME NEW o, Sound(o), o.c.ready
  PROVE  LET q == DrawFib(o) IN Sound(q) /\ SameBut(o, q, {"fib"}) /\ Covered(q, "fib")
<1>1. PICK items : items = Target(o, "fib")
  OBVIOUS
<1>2. items = IF o.c.showFib THEN Loaded(o, "fib") ELSE {}
  BY <1>1 DEF Target
<1>3. "fib" \in Layers /\ Drawable(o, items)
  BY <1>2, LoadedDrawable DEF Layers
<1>4. PICK q : q = Draws(o, "fib", items)
  OBVIOUS
<1>5. Sound(q) /\ SameBut(o, q, {"fib"}) /\ OnChart(q, "fib") \cup Due(q, "fib") = items
  <2>1. Redrawn(o, Draws(o, "fib", items), "fib", items)
    BY <1>3, DrawsDoes
  <2>2. QED
    BY <1>4, <2>1 DEF Redrawn
<1>6. Target(q, "fib") = items
  BY <1>1, <1>5 DEF SameBut, Target, Loaded
<1>7. QED
  BY <1>2, <1>4, <1>5, <1>6 DEF DrawFib, Covered

LEMMA DrawReferenceDoes ==
  ASSUME NEW o, Sound(o), o.c.ready
  PROVE  LET q == DrawReference(o) IN
         /\ Sound(q) /\ SameBut(o, q, {"reference"})
         /\ o.c.selected \in o.b \/ Covered(o, "reference") => Covered(q, "reference")
<1>1. CASE o.c.selected # Nothing /\ o.c.selected \in o.b
  <2>1. PICK items : items = {o.c.selected}
    OBVIOUS
  <2>2. "reference" \in Layers /\ Drawable(o, items)
    BY <1>1, <2>1, FS_Singleton DEF Drawable, Layers
  <2>3. PICK q : q = Draws(o, "reference", items)
    OBVIOUS
  <2>4. Sound(q) /\ SameBut(o, q, {"reference"}) /\ OnChart(q, "reference") \cup Due(q, "reference") = items
    <3>1. Redrawn(o, Draws(o, "reference", items), "reference", items)
      BY <2>2, DrawsDoes
    <3>2. QED
      BY <2>3, <3>1 DEF Redrawn
  <2>5. Target(q, "reference") = items
    BY <1>1, <2>1, <2>4 DEF SameBut, Target
  <2>6. QED
    BY <1>1, <2>1, <2>3, <2>4, <2>5 DEF DrawReference, Covered
<1>2. CASE ~(o.c.selected # Nothing /\ o.c.selected \in o.b)
  <2>1. DrawReference(o) = o
    BY <1>2 DEF DrawReference
  <2>2. SameBut(o, o, {"reference"})
    BY DEF SameBut
  <2>3. o.c.selected \notin o.b
    BY <1>2 DEF Sound, PictureTypes, Moments
  <2>4. QED
    BY <2>1, <2>2, <2>3
<1>3. QED
  BY <1>1, <1>2

LEMMA RefreshMarkersDoes ==
  ASSUME NEW o, Sound(o), o.c.ready
  PROVE  LET q == RefreshMarkers(o) IN
         Sound(q) /\ SameBut(o, q, {"marks", "external"}) /\ Covered(q, "external") /\ RowsDue(q)
<1>1. PICK w, m, q : w = Wipe(o, "marks") /\ m = LoadMarkers(w) /\ q = DrawExternal(m)
  OBVIOUS
<1>2. Sound(w) /\ SameBut(o, w, {"marks"})
  BY <1>1, WipeDoes DEF Layers
<1>3. w.c.ready
  BY <1>2 DEF SameBut
<1>4. Sound(m) /\ SameBut(w, m, {"marks"}) /\ RowsDue(m)
  BY <1>1, <1>2, <1>3, LoadMarkersDoes
<1>5. m.c.ready
  BY <1>3, <1>4 DEF SameBut
<1>6. Sound(q) /\ SameBut(m, q, {"external"}) /\ Covered(q, "external")
  BY <1>1, <1>4, <1>5, DrawExternalDoes
<1>7. RowsDue(q)
  BY <1>4, <1>6 DEF SameBut
<1>8. SameBut(o, m, {"marks"} \cup {"marks"})
  BY <1>2, <1>4, SameTwice
<1>9. SameBut(o, q, ({"marks"} \cup {"marks"}) \cup {"external"})
  BY <1>6, <1>8, SameTwice
<1>10. ({"marks"} \cup {"marks"}) \cup {"external"} = {"marks", "external"}
  OBVIOUS
<1>11. QED
  BY <1>1, <1>6, <1>7, <1>9, <1>10 DEF RefreshMarkers

LEMMA ScheduleMarkersDoes ==
  ASSUME NEW o, Sound(o), o.c.ready
  PROVE  LET q == ScheduleMarkers(o) IN
         /\ Sound(q) /\ q.c = o.c /\ q.b = o.b /\ q.t
         /\ \A j : j.kind \in {"history", "externalRows"} => (j \in q.j <=> j \in o.j)
         /\ \A l \in {"fib", "reference"} : Covered(q, l) <=> Covered(o, l)
<1>1. PICK v, w, q : v = Wipe(o, "marks") /\ w = Wipe(v, "external") /\ q = [w EXCEPT !.t = TRUE]
  OBVIOUS
<1>2. "marks" \in Layers /\ "external" \in Layers /\ {"fib", "reference"} = Layers \ ({"marks"} \cup {"external"})
  BY DEF Layers
<1>3. Sound(v) /\ SameBut(o, v, {"marks"})
  BY <1>1, <1>2, WipeDoes
<1>4. Sound(w) /\ SameBut(v, w, {"external"})
  BY <1>1, <1>2, <1>3, WipeDoes
<1>5. SameBut(o, w, {"marks"} \cup {"external"})
  BY <1>3, <1>4, SameTwice
<1>6. /\ DOMAIN q = DOMAIN w /\ q.c = w.c /\ q.b = w.b /\ q.e = w.e /\ q.k = w.k /\ q.s = w.s /\ q.j = w.j /\ q.t = TRUE
  BY <1>1, <1>4 DEF Sound, PictureTypes
<1>7. Sound(q)
  <2>1. w.c = o.c
    BY <1>5 DEF SameBut
  <2>2. PictureTypes(q)
    BY <1>4, <1>6 DEF Sound, PictureTypes
  <2>3. Canvas(q)
    BY <1>4, <1>6 DEF Sound, Canvas
  <2>4. Awaited(q)
    BY <1>4, <1>6 DEF Sound, Awaited, Current, OnChart
  <2>5. Mounted(q)
    BY <1>4, <1>6, <2>1 DEF Sound, Mounted
  <2>6. QED
    BY <2>2, <2>3, <2>4, <2>5 DEF Sound
<1>8. \A l \in Layers \ ({"marks"} \cup {"external"}) : Covered(w, l) <=> Covered(o, l)
  BY <1>5, CoveredSame
<1>9. \A l \in Layers : Covered(q, l) <=> Covered(w, l)
  BY <1>6 DEF Covered, OnChart, Due, Current, Target, Loaded
<1>10. q = ScheduleMarkers(o)
  BY <1>1 DEF ScheduleMarkers
<1>11. QED
  BY <1>2, <1>5, <1>6, <1>7, <1>8, <1>9, <1>10 DEF SameBut

\* An await that is over or was overtaken leaves.
LEMMA GoneDoes ==
  ASSUME NEW o, Sound(o), NEW i \in o.j, \A l \in Layers : i \notin Current(o, l)
  PROVE  LET q == [o EXCEPT !.j = @ \ {i}] IN
         /\ Sound(q) /\ q.c = o.c /\ q.b = o.b /\ q.t = o.t /\ q.j = o.j \ {i}
         /\ \A l \in Layers : Covered(q, l) <=> Covered(o, l)
         /\ RowsDue(q) <=> RowsDue(o)
<1>1. PICK q : q = [o EXCEPT !.j = @ \ {i}]
  OBVIOUS
<1>2. /\ DOMAIN q = DOMAIN o /\ q.c = o.c /\ q.b = o.b /\ q.e = o.e /\ q.k = o.k /\ q.s = o.s /\ q.j = o.j \ {i} /\ q.t = o.t
  BY <1>1 DEF Sound, PictureTypes
<1>3. \A l \in Layers : Current(q, l) = Current(o, l)
  BY <1>2 DEF Current
<1>4. PictureTypes(q)
  BY <1>2 DEF Sound, PictureTypes
<1>5. Canvas(q)
  BY <1>2 DEF Sound, Canvas
<1>6. Awaited(q)
  BY <1>2, <1>3 DEF Sound, Awaited, OnChart
<1>7. Mounted(q)
  BY <1>2 DEF Sound, Mounted
<1>8. \A l \in Layers : Covered(q, l) <=> Covered(o, l)
  BY <1>2, <1>3 DEF Covered, OnChart, Due, Target, Loaded
<1>9. RowsDue(q) <=> RowsDue(o)
  <2>1. "marks" \in Layers
    BY DEF Layers
  <2>2. \A p : RowsDue(p) <=> \E j \in Current(p, "marks") : j.kind = "rows"
    BY DEF RowsDue, Current, About
  <2>3. QED
    BY <1>3, <2>1, <2>2
<1>10. QED
  BY <1>1, <1>2, <1>4, <1>5, <1>6, <1>7, <1>8, <1>9 DEF Sound

(* ------------------------------- the steps -------------------------------- *)

\* The picture after a step has the fields that the step shows.
LEMMA ShowsDoes ==
  ASSUME NEW x, Sound(x), Provided(x), Shows(x)
  PROVE  ChartInv'
<1>1. PICK q : q = Picture'
  OBVIOUS
<1>2. /\ DOMAIN q = DOMAIN x
      /\ q.c = x.c /\ q.b = x.b /\ q.e = x.e /\ q.k = x.k /\ q.s = x.s /\ q.j = x.j /\ q.t = x.t
  BY <1>1 DEF Picture, Shows, Sound, PictureTypes
<1>3. \A l : Current(q, l) = Current(x, l) /\ OnChart(q, l) = OnChart(x, l)
  BY <1>2 DEF Current, OnChart
<1>4. PictureTypes(q)
  BY <1>2 DEF Sound, PictureTypes
<1>5. Canvas(q)
  BY <1>2 DEF Sound, Canvas
<1>6. Awaited(q)
  BY <1>2, <1>3 DEF Sound, Awaited
<1>7. Mounted(q)
  BY <1>2 DEF Sound, Mounted
<1>8. \A l \in Layers : Covered(q, l) <=> Covered(x, l)
  BY <1>2, <1>3 DEF Covered, Due, Target, Loaded
<1>9. RowsDue(q) <=> RowsDue(x)
  BY <1>2 DEF RowsDue
<1>10. Provided(q)
  BY <1>2, <1>8, <1>9 DEF Provided, Asked, Layers
<1>11. Sound(q) /\ Provided(q)
  BY <1>4, <1>5, <1>6, <1>7, <1>10 DEF Sound
<1>12. /\ q.c = chart' /\ q.b = loadedTimes' /\ q.e = epoch' /\ q.k = tracked'
       /\ q.s = canvas' /\ q.j = jobs' /\ q.t = timer'
  BY <1>1 DEF Picture
<1>13. PictureTypes(Picture)'
  BY <1>1, <1>4 DEF PictureTypes, Picture
<1>14. Canvas(Picture)'
  BY <1>5, <1>12 DEF Canvas, Picture
<1>15. Awaited(Picture)'
  BY <1>6, <1>12 DEF Awaited, Current, OnChart, Picture
<1>16. Mounted(Picture)'
  BY <1>7, <1>12 DEF Mounted, Picture
<1>17. RowsDue(Picture)' <=> RowsDue(q)
  BY <1>12 DEF RowsDue, Picture
<1>18. \A l \in {"fib", "reference", "external", "marks"} : Covered(Picture, l)' <=> Covered(q, l)
  BY <1>12 DEF Covered, Due, Current, OnChart, Target, Loaded, Picture
<1>19. Provided(Picture)'
  BY <1>11, <1>12, <1>17, <1>18 DEF Provided, Asked, Picture
<1>20. QED
  BY <1>13, <1>14, <1>15, <1>16, <1>19 DEF ChartInv, Sound

\* What is known before a step.
LEMMA PictureIs ==
  ASSUME ChartInv
  PROVE  /\ Sound(Picture) /\ Provided(Picture) /\ Aged(Picture)
         /\ Picture.c = chart /\ Picture.b = loadedTimes /\ Picture.e = epoch /\ Picture.k = tracked
         /\ Picture.s = canvas /\ Picture.j = jobs /\ Picture.t = timer
         /\ chart \in Charts /\ jobs \subseteq Awaits /\ loadedTimes \subseteq Moments
<1>1. /\ Picture.c = chart /\ Picture.b = loadedTimes /\ Picture.e = epoch /\ Picture.k = tracked
      /\ Picture.s = canvas /\ Picture.j = jobs /\ Picture.t = timer
  BY DEF Picture
<1>2. Sound(Picture) /\ Provided(Picture) /\ Aged(Picture)
  BY DEF ChartInv, Sound, Aged, Awaited
<1>3. QED
  BY <1>1, <1>2 DEF Sound, PictureTypes

\* Changing what is chosen on a chart changes nothing of what is drawn.
LEMMA ChartChanges ==
  ASSUME NEW o, Sound(o), NEW new \in Charts,
         new.version = o.c.version, new.widget = o.c.widget, new.symbol = o.c.symbol,
         new.ready = o.c.ready \/ (new.ready /\ o.c.widget # 0),
         new.selected = o.c.selected \/ (new.selected \in o.b /\ o.c.widget # 0)
  PROVE  LET q == [o EXCEPT !.c = new] IN
         /\ Sound(q) /\ q.c = new /\ q.b = o.b /\ q.t = o.t /\ q.j = o.j
         /\ \A l \in Layers : OnChart(q, l) = OnChart(o, l) /\ Due(q, l) = Due(o, l)
         /\ RowsDue(q) <=> RowsDue(o)
<1>1. PICK q : q = [o EXCEPT !.c = new]
  OBVIOUS
<1>2. /\ DOMAIN q = DOMAIN o /\ q.c = new /\ q.b = o.b /\ q.e = o.e /\ q.k = o.k /\ q.s = o.s /\ q.j = o.j /\ q.t = o.t
  BY <1>1 DEF Sound, PictureTypes
<1>3. \A l : Current(q, l) = Current(o, l) /\ OnChart(q, l) = OnChart(o, l)
  BY <1>2 DEF Current, OnChart
<1>4. PictureTypes(q)
  BY <1>2 DEF Sound, PictureTypes
<1>5. Canvas(q)
  BY <1>2 DEF Sound, Canvas
<1>6. Awaited(q)
  BY <1>2, <1>3 DEF Sound, Awaited
<1>7. Mounted(q)
  BY <1>2 DEF Sound, Mounted, Charts
<1>8. QED
  BY <1>1, <1>2, <1>3, <1>4, <1>5, <1>6, <1>7 DEF Sound, Due, RowsDue

LEMMA MountSteps == ASSUME ChartInv, ShowSymbol \/ Focus PROVE ChartInv'
<1>1. CASE ShowSymbol
  <2>1. PICK s \in Symbols : Acts(MountChart([Picture EXCEPT !.c.symbol = s], {}))
    BY <1>1 DEF ShowSymbol
  <2>2. PICK o : o = [Picture EXCEPT !.c.symbol = s]
    OBVIOUS
  <2>3. /\ DOMAIN o = DOMAIN Picture /\ o.c = [chart EXCEPT !.symbol = s] /\ o.b = loadedTimes /\ o.e = epoch
        /\ o.k = tracked /\ o.s = canvas /\ o.j = jobs /\ o.t = timer
    BY <2>2 DEF Picture
  <2>4. o.c \in Charts
    BY <2>3, PictureIs DEF Charts
  <2>5. Aged(o)
    BY <2>3, <2>4, PictureIs DEF Aged, PictureTypes
  <2>6. Sound(MountChart(o, {})) /\ Provided(MountChart(o, {}))
    BY <2>5, MountDoes
  <2>7. QED
    BY <2>1, <2>2, <2>6, ShowsDoes DEF Acts
<1>2. CASE Focus
  <2>1. PICK t \in Drawings["marks"][chart.symbol] : Acts(MountChart(Picture, {t}))
    BY <1>2 DEF Focus
  <2>2. {t} \in SUBSET Moments
    <3>1. chart.symbol \in Symbols /\ "marks" \in Layers
      BY PictureIs DEF Charts, Layers
    <3>2. Drawings["marks"][chart.symbol] \in SUBSET Moments
      BY <3>1, DrawingsAssumption
    <3>3. QED
      BY <3>2
  <2>3. Sound(MountChart(Picture, {t})) /\ Provided(MountChart(Picture, {t}))
    BY <2>2, MountDoes, PictureIs
  <2>4. QED
    BY <2>1, <2>3, ShowsDoes DEF Acts
<1>3. QED
  BY <1>1, <1>2

LEMMA ChartInit1 == ChartInit => ChartInv
<1> SUFFICES ASSUME ChartInit PROVE ChartInv
  OBVIOUS
<1> DEFINE First(s) == [c |-> [version |-> 0, symbol |-> s, widget |-> 0, ready |-> FALSE, external |-> FALSE,
                   showExternal |-> TRUE, showFib |-> TRUE, selected |-> Nothing, error |-> FALSE],
                 b |-> {}, e |-> [l \in Layers |-> 0], k |-> [l \in Layers |-> {}], s |-> {}, j |-> {}, t |-> FALSE]
<1>1. PICK s \in Symbols :
        LET p == MountChart(First(s), {})
        IN chart = p.c /\ loadedTimes = p.b /\ epoch = p.e /\ tracked = p.k /\ canvas = p.s /\ jobs = p.j /\ timer = p.t
  BY DEF ChartInit
<1>2. PICK o : o = First(s)
  OBVIOUS
<1>3. /\ DOMAIN o = {"c", "b", "e", "k", "s", "j", "t"} /\ o.c \in Charts /\ o.b = {} /\ o.e = [l \in Layers |-> 0]
      /\ o.k = [l \in Layers |-> {}] /\ o.s = {} /\ o.j = {} /\ o.t = FALSE
  BY <1>2 DEF Charts, Nothing
<1>4. Aged(o)
  <2>1. o.e \in [Layers -> Nat] /\ o.k \in [Layers -> SUBSET Shapes]
    BY <1>3
  <2>2. PictureTypes(o)
    BY <1>3, <2>1 DEF PictureTypes
  <2>3. QED
    BY <1>3, <2>2 DEF Aged
<1>5. PICK x : x = MountChart(o, {})
  OBVIOUS
<1>6. Sound(x) /\ Provided(x)
  BY <1>4, <1>5, MountDoes
<1>7. chart = x.c /\ loadedTimes = x.b /\ epoch = x.e /\ tracked = x.k /\ canvas = x.s /\ jobs = x.j /\ timer = x.t
  BY <1>1, <1>2, <1>5
<1>8. PICK q : q = Picture
  OBVIOUS
<1>9. /\ DOMAIN q = DOMAIN x
      /\ q.c = x.c /\ q.b = x.b /\ q.e = x.e /\ q.k = x.k /\ q.s = x.s /\ q.j = x.j /\ q.t = x.t
  BY <1>6, <1>7, <1>8 DEF Picture, Sound, PictureTypes
<1>10. \A l : Current(q, l) = Current(x, l) /\ OnChart(q, l) = OnChart(x, l)
  BY <1>9 DEF Current, OnChart
<1>11. PictureTypes(q) /\ Canvas(q) /\ Awaited(q) /\ Mounted(q)
  BY <1>6, <1>9, <1>10 DEF Sound, PictureTypes, Canvas, Awaited, Mounted
<1>12. \A l \in Layers : Covered(q, l) <=> Covered(x, l)
  BY <1>9, <1>10 DEF Covered, Due, Target, Loaded
<1>13. Provided(q)
  BY <1>6, <1>9, <1>12 DEF Provided, Asked, RowsDue, Layers
<1>14. QED
  BY <1>8, <1>11, <1>13 DEF ChartInv, Sound

LEMMA AskedSame == ASSUME NEW o, NEW q, NEW L, SameBut(o, q, L) PROVE Asked(q) <=> Asked(o)
BY DEF SameBut, Asked

LEMMA TimerStops ==
  ASSUME NEW o, Sound(o)
  PROVE  LET q == [o EXCEPT !.t = FALSE] IN
         /\ Sound(q) /\ q.c = o.c /\ q.b = o.b /\ q.j = o.j
         /\ \A l \in Layers : Covered(q, l) <=> Covered(o, l)
<1>1. PICK q : q = [o EXCEPT !.t = FALSE]
  OBVIOUS
<1>2. /\ DOMAIN q = DOMAIN o /\ q.c = o.c /\ q.b = o.b /\ q.e = o.e /\ q.k = o.k /\ q.s = o.s /\ q.j = o.j /\ q.t = FALSE
  BY <1>1 DEF Sound, PictureTypes
<1>3. \A l : Current(q, l) = Current(o, l) /\ OnChart(q, l) = OnChart(o, l)
  BY <1>2 DEF Current, OnChart
<1>4. PictureTypes(q)
  BY <1>2 DEF Sound, PictureTypes
<1>5. Canvas(q)
  BY <1>2 DEF Sound, Canvas
<1>6. Awaited(q)
  BY <1>2, <1>3 DEF Sound, Awaited
<1>7. Mounted(q)
  BY <1>2 DEF Sound, Mounted
<1>8. \A l \in Layers : Covered(q, l) <=> Covered(o, l)
  BY <1>2, <1>3 DEF Covered, Due, Target, Loaded
<1>9. QED
  BY <1>1, <1>2, <1>4, <1>5, <1>6, <1>7, <1>8 DEF Sound

LEMMA TimerStep == ASSUME ChartInv, TimerFires PROVE ChartInv'
<1>1. PICK o, q : o = [Picture EXCEPT !.t = FALSE] /\ q = RefreshMarkers(o)
  OBVIOUS
<1>2. timer /\ Shows(q)
  BY <1>1 DEF TimerFires
<1>3. /\ Sound(o) /\ o.c = chart /\ o.b = loadedTimes /\ o.j = jobs
      /\ \A l \in Layers : Covered(o, l) <=> Covered(Picture, l)
  BY <1>1, TimerStops, PictureIs
<1>4. chart.ready /\ "fib" \in Layers \ {"marks", "external"} /\ "reference" \in Layers \ {"marks", "external"}
  BY <1>2, PictureIs DEF Sound, Mounted, Layers
<1>5. Sound(q) /\ SameBut(o, q, {"marks", "external"}) /\ Covered(q, "external") /\ RowsDue(q)
  BY <1>1, <1>3, <1>4, RefreshMarkersDoes
<1>6. (Covered(q, "fib") <=> Covered(Picture, "fib")) /\ (Covered(q, "reference") <=> Covered(Picture, "reference"))
  BY <1>3, <1>4, <1>5, CoveredSame
<1>7. Asked(q) /\ q.c = chart
  BY <1>3, <1>5, AskedSame, PictureIs DEF Provided, Asked, SameBut
<1>8. Provided(q)
  BY <1>4, <1>5, <1>6, <1>7, PictureIs DEF Provided
<1>9. QED
  BY <1>2, <1>5, <1>8, ShowsDoes

LEMMA RangeStep == ASSUME ChartInv, RangeMoves PROVE ChartInv'
<1>1. PICK q : q = ScheduleMarkers(Picture)
  OBVIOUS
<1>2. chart.ready /\ Shows(q)
  BY <1>1 DEF RangeMoves, Acts
<1>3. /\ Sound(q) /\ q.c = chart /\ q.t
      /\ \A j : j.kind \in {"history", "externalRows"} => (j \in q.j <=> j \in jobs)
      /\ \A l \in {"fib", "reference"} : Covered(q, l) <=> Covered(Picture, l)
  BY <1>1, <1>2, ScheduleMarkersDoes, PictureIs
<1>4. Provided(q)
  BY <1>2, <1>3, PictureIs DEF Provided, Asked
<1>5. QED
  BY <1>2, <1>3, <1>4, ShowsDoes

LEMMA SelectStep == ASSUME ChartInv, Select PROVE ChartInv'
<1>1. PICK s \in tracked["marks"] : chart.ready /\ Acts(DrawReference([Picture EXCEPT !.c.selected = s.time]))
  BY DEF Select
<1>2. PICK new : new = [chart EXCEPT !.selected = s.time]
  OBVIOUS
<1>3. PICK o, q : o = [Picture EXCEPT !.c = new] /\ q = DrawReference(o)
  OBVIOUS
<1>4. Shows(q)
  <2>1. [Picture EXCEPT !.c.selected = s.time] = [Picture EXCEPT !.c = new]
    BY <1>2 DEF Picture
  <2>2. QED
    BY <1>1, <1>3, <2>1 DEF Acts
<1>5. s.time \in loadedTimes /\ s.time \in Nat /\ chart.widget # 0
  BY PictureIs DEF Sound, Canvas, Mounted, Layers, PictureTypes, Moments
<1>6. new \in Charts /\ new.selected = s.time /\ \A f \in DOMAIN chart \ {"selected"} : new[f] = chart[f]
  BY <1>2, <1>5, PictureIs DEF Charts
<1>7. new.version = chart.version /\ new.widget = chart.widget /\ new.symbol = chart.symbol /\ new.ready = chart.ready
      /\ new.external = chart.external /\ new.showExternal = chart.showExternal /\ new.showFib = chart.showFib /\ new.error = chart.error
  BY <1>2, PictureIs DEF Charts
<1>8. /\ Sound(o) /\ o.c = new /\ o.b = loadedTimes /\ o.t = timer /\ o.j = jobs
      /\ \A l \in Layers : OnChart(o, l) = OnChart(Picture, l) /\ Due(o, l) = Due(Picture, l)
      /\ RowsDue(o) <=> RowsDue(Picture)
  BY <1>3, <1>5, <1>6, <1>7, ChartChanges, PictureIs
<1>9. \A l \in Layers \ {"reference"} : Covered(o, l) <=> Covered(Picture, l)
  BY <1>7, <1>8, PictureIs DEF Covered, Target, Loaded, Layers
<1>10. Sound(q) /\ SameBut(o, q, {"reference"}) /\ Covered(q, "reference")
  BY <1>1, <1>3, <1>5, <1>6, <1>7, <1>8, DrawReferenceDoes
<1>11. \A l \in Layers \ {"reference"} : Covered(q, l) <=> Covered(Picture, l)
  BY <1>9, <1>10, CoveredSame
<1>12. Asked(q) /\ q.c = new /\ q.t = timer /\ (RowsDue(q) <=> RowsDue(Picture))
  BY <1>7, <1>8, <1>10, AskedSame, PictureIs DEF Provided, Asked, SameBut
<1>13. Provided(q)
  BY <1>7, <1>10, <1>11, <1>12, PictureIs DEF Provided, Layers
<1>14. QED
  BY <1>4, <1>10, <1>13, ShowsDoes

LEMMA ToggleExternalStep == ASSUME ChartInv, ToggleExternal PROVE ChartInv'
<1>1. PICK new : new = [chart EXCEPT !.showExternal = ~@]
  OBVIOUS
<1>2. PICK o, q : o = [Picture EXCEPT !.c = new] /\ q = IF chart.ready THEN DrawExternal(o) ELSE o
  OBVIOUS
<1>3. Shows(q)
  <2>1. [Picture EXCEPT !.c.showExternal = ~@] = [Picture EXCEPT !.c = new]
    BY <1>1 DEF Picture
  <2>2. QED
    BY <1>2, <2>1 DEF ToggleExternal, Acts
<1>4. /\ new \in Charts /\ new.version = chart.version /\ new.widget = chart.widget /\ new.symbol = chart.symbol
      /\ new.ready = chart.ready /\ new.external = chart.external /\ new.showFib = chart.showFib
      /\ new.selected = chart.selected /\ new.error = chart.error
  BY <1>1, PictureIs DEF Charts
<1>5. /\ Sound(o) /\ o.c = new /\ o.b = loadedTimes /\ o.t = timer /\ o.j = jobs
      /\ \A l \in Layers : OnChart(o, l) = OnChart(Picture, l) /\ Due(o, l) = Due(Picture, l)
      /\ RowsDue(o) <=> RowsDue(Picture)
  BY <1>2, <1>4, ChartChanges, PictureIs
<1>6. \A l \in Layers \ {"external"} : Covered(o, l) <=> Covered(Picture, l)
  BY <1>4, <1>5, PictureIs DEF Covered, Target, Loaded, Layers
<1>7. Asked(o)
  BY <1>4, <1>5, PictureIs DEF Provided, Asked
<1>8. CASE ~chart.ready
  BY <1>2, <1>3, <1>4, <1>5, <1>7, <1>8, ShowsDoes DEF Provided
<1>9. CASE chart.ready
  <2>1. Sound(q) /\ SameBut(o, q, {"external"}) /\ Covered(q, "external")
    BY <1>2, <1>4, <1>5, <1>9, DrawExternalDoes
  <2>2. \A l \in Layers \ {"external"} : Covered(q, l) <=> Covered(Picture, l)
    BY <1>6, <2>1, CoveredSame
  <2>3. Asked(q) /\ q.c = new /\ q.t = timer /\ (RowsDue(q) <=> RowsDue(Picture))
    BY <1>5, <1>7, <2>1, AskedSame DEF SameBut
  <2>4. Provided(q)
    BY <1>4, <1>9, <2>1, <2>2, <2>3, PictureIs DEF Provided, Layers
  <2>5. QED
    BY <1>3, <2>1, <2>4, ShowsDoes
<1>10. QED
  BY <1>8, <1>9

LEMMA ToggleFibStep == ASSUME ChartInv, ToggleFib PROVE ChartInv'
<1>1. PICK new : new = [chart EXCEPT !.showFib = ~@]
  OBVIOUS
<1>2. PICK o, q : o = [Picture EXCEPT !.c = new] /\ q = IF chart.ready THEN DrawFib(o) ELSE o
  OBVIOUS
<1>3. Shows(q)
  <2>1. [Picture EXCEPT !.c.showFib = ~@] = [Picture EXCEPT !.c = new]
    BY <1>1 DEF Picture
  <2>2. QED
    BY <1>2, <2>1 DEF ToggleFib, Acts
<1>4. /\ new \in Charts /\ new.version = chart.version /\ new.widget = chart.widget /\ new.symbol = chart.symbol
      /\ new.ready = chart.ready /\ new.external = chart.external /\ new.showExternal = chart.showExternal
      /\ new.selected = chart.selected /\ new.error = chart.error
  BY <1>1, PictureIs DEF Charts
<1>5. /\ Sound(o) /\ o.c = new /\ o.b = loadedTimes /\ o.t = timer /\ o.j = jobs
      /\ \A l \in Layers : OnChart(o, l) = OnChart(Picture, l) /\ Due(o, l) = Due(Picture, l)
      /\ RowsDue(o) <=> RowsDue(Picture)
  BY <1>2, <1>4, ChartChanges, PictureIs
<1>6. \A l \in Layers \ {"fib"} : Covered(o, l) <=> Covered(Picture, l)
  BY <1>4, <1>5, PictureIs DEF Covered, Target, Loaded, Layers
<1>7. Asked(o)
  BY <1>4, <1>5, PictureIs DEF Provided, Asked
<1>8. CASE ~chart.ready
  BY <1>2, <1>3, <1>4, <1>5, <1>7, <1>8, ShowsDoes DEF Provided
<1>9. CASE chart.ready
  <2>1. Sound(q) /\ SameBut(o, q, {"fib"}) /\ Covered(q, "fib")
    BY <1>2, <1>4, <1>5, <1>9, DrawFibDoes
  <2>2. \A l \in Layers \ {"fib"} : Covered(q, l) <=> Covered(Picture, l)
    BY <1>6, <2>1, CoveredSame
  <2>3. Asked(q) /\ q.c = new /\ q.t = timer /\ (RowsDue(q) <=> RowsDue(Picture))
    BY <1>5, <1>7, <2>1, AskedSame DEF SameBut
  <2>4. Provided(q)
    BY <1>4, <1>9, <2>1, <2>2, <2>3, PictureIs DEF Provided, Layers
  <2>5. QED
    BY <1>3, <2>1, <2>4, ShowsDoes
<1>10. QED
  BY <1>8, <1>9

LEMMA BarsStep == ASSUME ChartInv, BarsLoad PROVE ChartInv'
<1>1. PICK o : o = [Picture EXCEPT !.b = @ \cup MoreBars[chart.symbol]]
  OBVIOUS
<1>2. PICK p, q : p = ScheduleMarkers(o) /\ q = IF chart.ready THEN DrawFib(p) ELSE p
  OBVIOUS
<1>3. chart.widget # 0 /\ Shows(q)
  BY <1>1, <1>2 DEF BarsLoad, Acts
<1>4. /\ DOMAIN o = DOMAIN Picture /\ o.c = chart /\ o.b = loadedTimes \cup MoreBars[chart.symbol] /\ o.e = epoch
      /\ o.k = tracked /\ o.s = canvas /\ o.j = jobs /\ o.t = timer
  BY <1>1 DEF Picture
<1>5. \A l : Current(o, l) = Current(Picture, l) /\ OnChart(o, l) = OnChart(Picture, l) /\ Due(o, l) = Due(Picture, l)
  BY <1>4, PictureIs DEF Current, OnChart, Due
<1>6. chart.symbol \in Symbols /\ MoreBars[chart.symbol] \in SUBSET Moments
  BY PictureIs, DrawingsAssumption DEF Charts
<1>7. Sound(o)
  <2>1. PictureTypes(o)
    BY <1>4, <1>6, PictureIs DEF Sound, PictureTypes
  <2>2. Canvas(o)
    BY <1>4, PictureIs DEF Sound, Canvas
  <2>3. Awaited(o)
    BY <1>4, <1>5, PictureIs DEF Sound, Awaited
  <2>4. Mounted(o)
    BY <1>4, PictureIs DEF Sound, Mounted
  <2>5. QED
    BY <2>1, <2>2, <2>3, <2>4 DEF Sound
<1>8. Asked(o)
  BY <1>4, PictureIs DEF Provided, Asked
<1>9. CASE ~chart.ready
  <2>1. q = o
    BY <1>2, <1>4, <1>9 DEF ScheduleMarkers
  <2>2. QED
    BY <1>3, <1>4, <1>7, <1>8, <1>9, <2>1, ShowsDoes DEF Provided
<1>10. CASE chart.ready
  <2>1. Covered(o, "reference") <=> Covered(Picture, "reference")
    <3>1. chart.selected = Nothing \/ chart.selected \in loadedTimes \/ chart.selected \notin MoreBars[chart.symbol]
      BY PictureIs DEF Sound, Mounted
    <3>2. Nothing \notin loadedTimes \cup MoreBars[chart.symbol]
      BY <1>6, PictureIs DEF Moments
    <3>3. {chart.selected} \cap o.b = {chart.selected} \cap loadedTimes
      BY <1>4, <3>1, <3>2
    <3>4. Target(o, "reference") = Target(Picture, "reference")
      BY <1>4, <3>3, PictureIs DEF Target
    <3>5. QED
      BY <1>5, <3>4 DEF Covered
  <2>2. /\ Sound(p) /\ p.c = o.c /\ p.t
        /\ \A j : j.kind \in {"history", "externalRows"} => (j \in p.j <=> j \in o.j)
        /\ Covered(p, "reference") <=> Covered(o, "reference")
    BY <1>2, <1>4, <1>7, <1>10, ScheduleMarkersDoes
  <2>3. Asked(p)
    BY <1>8, <2>2 DEF Asked
  <2>4. Sound(q) /\ SameBut(p, q, {"fib"}) /\ Covered(q, "fib")
    BY <1>2, <1>4, <1>10, <2>2, DrawFibDoes
  <2>5. "reference" \in Layers \ {"fib"}
    BY DEF Layers
  <2>6. ~q.c.error => Covered(q, "reference")
    <3>1. Covered(q, "reference") <=> Covered(p, "reference")
      BY <2>4, <2>5, CoveredSame
    <3>2. q.c = chart
      BY <1>4, <2>2, <2>4 DEF SameBut
    <3>3. ~chart.error => Covered(Picture, "reference")
      BY <1>10, PictureIs DEF Provided
    <3>4. QED
      BY <2>1, <2>2, <3>1, <3>2, <3>3
  <2>7. Asked(q) /\ q.t
    BY <2>2, <2>3, <2>4, AskedSame DEF SameBut
  <2>8. Provided(q)
    BY <2>4, <2>6, <2>7 DEF Provided
  <2>9. QED
    BY <1>3, <2>4, <2>8, ShowsDoes
<1>11. QED
  BY <1>9, <1>10

LEMMA ReadyStep == ASSUME ChartInv, ChartReady PROVE ChartInv'
<1>1. PICK new : new = [chart EXCEPT !.ready = TRUE]
  OBVIOUS
<1>2. PICK o, r, m, f, q :
        /\ o = [Picture EXCEPT !.c = new] /\ r = DrawReference(o)
        /\ m = RefreshMarkers(r) /\ f = DrawFib(m) /\ q = LoadMarkers(f)
  OBVIOUS
<1>3. chart.widget # 0 /\ ~chart.ready /\ Shows(q)
  <2>1. [Picture EXCEPT !.c.ready = TRUE] = [Picture EXCEPT !.c = new]
    BY <1>1 DEF Picture
  <2>2. QED
    BY <1>2, <2>1 DEF ChartReady
<1>4. /\ new \in Charts /\ new.version = chart.version /\ new.widget = chart.widget /\ new.symbol = chart.symbol
      /\ new.ready /\ new.external = chart.external /\ new.showExternal = chart.showExternal /\ new.showFib = chart.showFib
      /\ new.selected = chart.selected /\ new.error = chart.error
  BY <1>1, PictureIs DEF Charts
<1>5. /\ Sound(o) /\ o.c = new /\ o.b = loadedTimes /\ o.t = timer /\ o.j = jobs
      /\ \A l \in Layers : OnChart(o, l) = OnChart(Picture, l) /\ Due(o, l) = Due(Picture, l)
  BY <1>2, <1>3, <1>4, ChartChanges, PictureIs
<1>6. "reference" \in Layers /\ "reference" \in Layers \ {"fib"} /\ "reference" \in Layers \ {"marks"}
      /\ "reference" \in Layers \ {"marks", "external"} /\ "external" \in Layers \ {"fib"} /\ "external" \in Layers \ {"marks"}
      /\ "fib" \in Layers \ {"marks"}
  BY DEF Layers
<1>7. OnChart(o, "reference") = {} /\ Due(o, "reference") = {}
  <2>1. tracked["reference"] = {} /\ Current(Picture, "reference") = {}
    BY <1>3, <1>6, PictureIs DEF Sound, Canvas, Awaited
  <2>2. OnChart(Picture, "reference") = {} /\ Due(Picture, "reference") = {}
    BY <2>1, PictureIs DEF OnChart, Due
  <2>3. QED
    BY <1>5, <1>6, <2>2
<1>8. o.c.selected \in o.b \/ Covered(o, "reference")
  <2>1. {o.c.selected} \cap o.b = {} => Target(o, "reference") = {}
    BY DEF Target
  <2>2. QED
    BY <1>7, <2>1 DEF Covered
<1>9. Sound(r) /\ SameBut(o, r, {"reference"}) /\ Covered(r, "reference")
  BY <1>2, <1>4, <1>5, <1>8, DrawReferenceDoes
<1>10. r.c = new
  BY <1>5, <1>9 DEF SameBut
<1>11. Sound(m) /\ SameBut(r, m, {"marks", "external"}) /\ Covered(m, "external")
  BY <1>2, <1>4, <1>9, <1>10, RefreshMarkersDoes
<1>12. m.c = new /\ Covered(m, "reference")
  BY <1>6, <1>9, <1>10, <1>11, CoveredSame DEF SameBut
<1>13. Sound(f) /\ SameBut(m, f, {"fib"}) /\ Covered(f, "fib")
  BY <1>2, <1>4, <1>11, <1>12, DrawFibDoes
<1>14. f.c = new /\ Covered(f, "reference") /\ Covered(f, "external")
  BY <1>6, <1>11, <1>12, <1>13, CoveredSame DEF SameBut
<1>15. Sound(q) /\ SameBut(f, q, {"marks"}) /\ RowsDue(q)
  BY <1>2, <1>4, <1>13, <1>14, LoadMarkersDoes
<1>16. Covered(q, "reference") /\ Covered(q, "external") /\ Covered(q, "fib")
  BY <1>6, <1>13, <1>14, <1>15, CoveredSame
<1>17. Asked(q)
  <2>1. Asked(o)
    BY <1>4, <1>5, PictureIs DEF Provided, Asked
  <2>2. QED
    BY <1>9, <1>11, <1>13, <1>15, <2>1, AskedSame
<1>18. Provided(q)
  BY <1>15, <1>16, <1>17 DEF Provided
<1>19. QED
  BY <1>3, <1>15, <1>18, ShowsDoes

LEMMA HistoryStep == ASSUME ChartInv, NEW j \in jobs, HistoryLoads(j) PROVE ChartInv'
<1>1. j.kind = "history" /\ j.v = chart.version /\ chart.widget = 0 /\ ~chart.ready /\ j \in Awaits
      /\ j.kind \notin Layers /\ chart.selected = Nothing /\ ~timer
  BY PictureIs DEF HistoryLoads, Sound, Awaited, Mounted, Layers
<1>2. PICK b : b = FirstBars[chart.symbol] \cup {t \in j.todo : t \in MoreBars[chart.symbol]}
  OBVIOUS
<1>3. b \in SUBSET Moments /\ j.todo \in SUBSET Moments
  BY <1>1, <1>2, DrawingsAssumption, PictureIs DEF Charts, Awaits
<1>4. PICK sel : sel = IF j.todo = {} THEN chart.selected ELSE CHOOSE t \in j.todo : TRUE
  OBVIOUS
<1>5. sel = Nothing \/ sel \in j.todo
  BY <1>1, <1>4
<1>6. sel \in Nat /\ (sel = Nothing \/ sel \in b \/ sel \notin MoreBars[chart.symbol])
  BY <1>2, <1>3, <1>5 DEF Nothing, Moments
<1>7. PICK new : new = IF j.todo = {} THEN [chart EXCEPT !.widget = j.v]
                       ELSE [[chart EXCEPT !.widget = j.v] EXCEPT !.selected = CHOOSE t \in j.todo : TRUE]
  OBVIOUS
<1>8. /\ new \in Charts /\ new.version = chart.version /\ new.widget = j.v /\ new.symbol = chart.symbol
      /\ new.ready = chart.ready /\ new.external = chart.external /\ new.error = chart.error /\ new.selected = sel
  <2>1. PICK u : u = [chart EXCEPT !.widget = j.v]
    OBVIOUS
  <2>2. /\ u \in Charts /\ u.version = chart.version /\ u.widget = j.v /\ u.symbol = chart.symbol
        /\ u.ready = chart.ready /\ u.external = chart.external /\ u.error = chart.error /\ u.selected = chart.selected
    BY <1>1, <2>1, PictureIs DEF Charts, Awaits
  <2>3. CASE j.todo = {}
    BY <1>4, <1>7, <2>1, <2>2, <2>3
  <2>4. CASE j.todo # {}
    <3>1. new = [u EXCEPT !.selected = sel]
      BY <1>4, <1>7, <2>1, <2>4
    <3>2. QED
      BY <1>6, <2>2, <3>1 DEF Charts
  <2>5. QED
    BY <2>3, <2>4
<1>9. PICK x : x = [[[Picture EXCEPT !.b = b] EXCEPT !.c = new] EXCEPT !.j = @ \ {j}]
  OBVIOUS
<1>10. /\ DOMAIN x = DOMAIN Picture /\ x.c = new /\ x.b = b /\ x.e = epoch
       /\ x.k = tracked /\ x.s = canvas /\ x.j = jobs \ {j} /\ x.t = timer
  BY <1>9 DEF Picture
<1>11. Shows(x)
  BY <1>1, <1>2, <1>7, <1>10 DEF HistoryLoads, Settles, Of, Shows, Picture
<1>12. \A l \in Layers : Current(Picture, l) = {} /\ OnChart(Picture, l) = {} /\ tracked[l] = {}
  BY <1>1, PictureIs DEF Sound, Canvas, Awaited, OnChart
<1>13. \A l \in Layers : Current(x, l) = {} /\ OnChart(x, l) = {}
  BY <1>10, <1>12, PictureIs DEF Current, OnChart
<1>14. PictureTypes(x)
  BY <1>3, <1>8, <1>10, PictureIs DEF Sound, PictureTypes
<1>15. Canvas(x)
  BY <1>10, <1>12, PictureIs DEF Sound, Canvas
<1>16. Awaited(x)
  BY <1>8, <1>10, <1>13, PictureIs DEF Sound, Awaited
<1>17. Mounted(x)
  BY <1>1, <1>6, <1>8, <1>10, PictureIs DEF Sound, Mounted
<1>18. Provided(x)
  BY <1>1, <1>8, <1>10, PictureIs DEF Provided, Asked
<1>19. QED
  BY <1>11, <1>14, <1>15, <1>16, <1>17, <1>18, ShowsDoes DEF Sound

LEMMA ExternalStep == ASSUME ChartInv, NEW j \in jobs, ExternalLoads(j) PROVE ChartInv'
<1>1. j.kind = "externalRows" /\ j.v = chart.version /\ \A l \in Layers : ~About(j, l)
  BY PictureIs DEF ExternalLoads, Sound, Awaited, Layers, About
<1>2. PICK new : new = [chart EXCEPT !.external = TRUE]
  OBVIOUS
<1>3. PICK o, q, x : o = [Picture EXCEPT !.c = new] /\ q = (IF chart.ready THEN DrawExternal(o) ELSE o) /\ x = [q EXCEPT !.j = @ \ {j}]
  OBVIOUS
<1>4. Shows(x)
  <2>1. [Picture EXCEPT !.c.external = TRUE] = [Picture EXCEPT !.c = new]
    BY <1>2 DEF Picture
  <2>2. QED
    BY <1>1, <1>3, <2>1 DEF ExternalLoads, Settles, Of
<1>5. /\ new \in Charts /\ new.version = chart.version /\ new.widget = chart.widget /\ new.symbol = chart.symbol
      /\ new.ready = chart.ready /\ new.external /\ new.showExternal = chart.showExternal /\ new.showFib = chart.showFib
      /\ new.selected = chart.selected /\ new.error = chart.error
  BY <1>2, PictureIs DEF Charts
<1>6. /\ Sound(o) /\ o.c = new /\ o.b = loadedTimes /\ o.t = timer /\ o.j = jobs
      /\ \A l \in Layers : OnChart(o, l) = OnChart(Picture, l) /\ Due(o, l) = Due(Picture, l)
      /\ RowsDue(o) <=> RowsDue(Picture)
  BY <1>3, <1>5, ChartChanges, PictureIs
<1>7. \A l \in Layers \ {"external"} : Covered(o, l) <=> Covered(Picture, l)
  BY <1>5, <1>6, PictureIs DEF Covered, Target, Loaded, Layers
<1>8. /\ Sound(q) /\ q.c = new /\ q.t = timer /\ j \in q.j /\ (RowsDue(q) <=> RowsDue(Picture))
      /\ \A l \in Layers \ {"external"} : Covered(q, l) <=> Covered(Picture, l)
      /\ chart.ready => Covered(q, "external")
  <2>1. CASE ~chart.ready
    BY <1>3, <1>6, <1>7, <2>1
  <2>2. CASE chart.ready
    <3>1. Sound(q) /\ SameBut(o, q, {"external"}) /\ Covered(q, "external")
      BY <1>3, <1>5, <1>6, <2>2, DrawExternalDoes
    <3>2. \A l \in Layers \ {"external"} : Covered(q, l) <=> Covered(Picture, l)
      BY <1>7, <3>1, CoveredSame
    <3>3. j \in q.j /\ q.c = new /\ q.t = timer /\ (RowsDue(q) <=> RowsDue(Picture))
      BY <1>1, <1>6, <3>1 DEF SameBut
    <3>4. QED
      BY <3>1, <3>2, <3>3
  <2>3. QED
    BY <2>1, <2>2
<1>9. \A l \in Layers : j \notin Current(q, l)
  BY <1>1 DEF Current
<1>10. /\ Sound(x) /\ x.c = q.c /\ x.t = q.t
       /\ \A l \in Layers : Covered(x, l) <=> Covered(q, l)
       /\ RowsDue(x) <=> RowsDue(q)
  BY <1>3, <1>8, <1>9, GoneDoes
<1>11. Provided(x)
  BY <1>5, <1>8, <1>10, PictureIs DEF Provided, Asked, Layers
<1>12. QED
  BY <1>4, <1>10, <1>11, ShowsDoes

LEMMA FailsStep == ASSUME ChartInv, NEW j \in jobs, CallFails(j) PROVE ChartInv'
<1>1. j.kind \notin Layers /\ Of(j)
  BY PictureIs DEF CallFails, Sound, Awaited, Layers, Of
<1>2. PICK new : new = [chart EXCEPT !.error = TRUE]
  OBVIOUS
<1>3. PICK x : x = [[Picture EXCEPT !.j = @ \ {j}] EXCEPT !.c = new]
  OBVIOUS
<1>4. /\ DOMAIN x = DOMAIN Picture /\ x.c = new /\ x.b = loadedTimes /\ x.e = epoch
      /\ x.k = tracked /\ x.s = canvas /\ x.j = jobs \ {j} /\ x.t = timer
  BY <1>3 DEF Picture
<1>5. /\ new \in Charts /\ new.version = chart.version /\ new.widget = chart.widget /\ new.symbol = chart.symbol
      /\ new.ready = chart.ready /\ new.selected = chart.selected /\ new.error
  BY <1>2, PictureIs DEF Charts
<1>6. Shows(x)
  <2>1. [chart EXCEPT !.error = @ \/ Of(j)] = new
    BY <1>1, <1>2
  <2>2. QED
    BY <1>1, <1>4, <2>1 DEF CallFails, Shows, Picture
<1>7. \A l : OnChart(x, l) = OnChart(Picture, l) /\ Current(x, l) \subseteq Current(Picture, l)
  BY <1>4, PictureIs DEF OnChart, Current
<1>8. PictureTypes(x)
  BY <1>4, <1>5, PictureIs DEF Sound, PictureTypes
<1>9. Canvas(x)
  BY <1>4, <1>5, PictureIs DEF Sound, Canvas
<1>10. Awaited(x)
  BY <1>4, <1>5, <1>7, PictureIs DEF Sound, Awaited
<1>11. Mounted(x)
  BY <1>4, <1>5, PictureIs DEF Sound, Mounted
<1>12. Provided(x)
  BY <1>4, <1>5 DEF Provided, Asked
<1>13. QED
  BY <1>6, <1>8, <1>9, <1>10, <1>11, <1>12, ShowsDoes DEF Sound

\* An await that was overtaken leaves, and nothing else changes.
LEMMA StaleStep ==
  ASSUME ChartInv, NEW j \in jobs, j.kind # "externalRows", \A l \in Layers : j \notin Current(Picture, l),
         Settles(j, Picture)
  PROVE  ChartInv'
<1>1. PICK x : x = [Picture EXCEPT !.j = @ \ {j}]
  OBVIOUS
<1>2. /\ Sound(x) /\ x.c = chart /\ x.t = timer /\ x.j = jobs \ {j}
      /\ \A l \in Layers : Covered(x, l) <=> Covered(Picture, l)
      /\ RowsDue(x) <=> RowsDue(Picture)
  BY <1>1, GoneDoes, PictureIs
<1>3. Provided(x)
  BY <1>2, PictureIs DEF Provided, Asked, Layers
<1>4. QED
  BY <1>1, <1>2, <1>3, ShowsDoes DEF Settles

LEMMA RowsStep == ASSUME ChartInv, NEW j \in jobs, RowsLoad(j) PROVE ChartInv'
<1>1. j.kind = "rows" /\ Of(j) /\ "marks" \in Layers /\ \A l \in Layers : About(j, l) <=> l = "marks"
  BY PictureIs DEF RowsLoad, Sound, Awaited, Layers, Of, About
<1>2. CASE j.epoch # epoch["marks"]
  <2>1. \A l \in Layers : j \notin Current(Picture, l)
    BY <1>1, <1>2, PictureIs DEF Current
  <2>2. Settles(j, Picture)
    BY <1>2 DEF RowsLoad
  <2>3. QED
    BY <1>1, <2>1, <2>2, StaleStep
<1>3. CASE j.epoch = epoch["marks"]
  <2>1. j \in Current(Picture, "marks") /\ chart.ready
    BY <1>1, <1>3, PictureIs DEF Current, Sound, Awaited
  <2>2. PICK o : o = [Picture EXCEPT !.s = @ \ tracked["marks"], !.k["marks"] = {}]
    OBVIOUS
  <2>3. PICK r : r = [o EXCEPT !.j = @ \ {j}]
    OBVIOUS
  <2>4. /\ DOMAIN o = DOMAIN Picture /\ o.c = chart /\ o.b = loadedTimes /\ o.e = epoch
        /\ o.k = [tracked EXCEPT !["marks"] = {}] /\ o.s = canvas \ tracked["marks"] /\ o.j = jobs /\ o.t = timer
    BY <2>2 DEF Picture
  <2>5. /\ DOMAIN r = DOMAIN Picture /\ r.c = chart /\ r.b = loadedTimes /\ r.e = epoch
        /\ r.k = o.k /\ r.s = o.s /\ r.j = jobs \ {j} /\ r.t = timer
    BY <2>3, <2>4 DEF Picture
  <2>6. r.k \in [Layers -> SUBSET Shapes] /\ r.k["marks"] = {} /\ \A l \in Layers : l # "marks" => r.k[l] = tracked[l]
    BY <1>1, <2>4, <2>5, PictureIs DEF Sound, PictureTypes
  <2>7. Current(r, "marks") = {} /\ \A l \in Layers : l # "marks" => Current(r, l) = Current(Picture, l)
    <3>1. \A i \in Current(Picture, "marks") : i = j
      BY <1>1, <2>1, PictureIs DEF Sound, Awaited
    <3>2. QED
      BY <1>1, <2>5, <3>1, PictureIs DEF Current
  <2>8. \A l \in Layers : l # "marks" => OnChart(r, l) = OnChart(Picture, l)
    BY <2>6, PictureIs DEF OnChart
  <2>9. PictureTypes(r)
    BY <2>4, <2>5, <2>6, PictureIs DEF Sound, PictureTypes
  <2>10. Canvas(r)
    <3>1. canvas = UNION {tracked[l] : l \in Layers} /\ \A l \in Layers : \A s \in tracked[l] : s.layer = l
      BY PictureIs DEF Sound, Canvas
    <3>2. r.s = UNION {r.k[l] : l \in Layers}
      BY <1>1, <2>4, <2>5, <2>6, <3>1
    <3>3. QED
      BY <2>5, <2>6, <3>2, PictureIs DEF Sound, Canvas
  <2>11. Awaited(r)
    BY <2>5, <2>7, <2>8, PictureIs DEF Sound, Awaited
  <2>12. Mounted(r)
    BY <2>5, PictureIs DEF Sound, Mounted
  <2>13. Wiped(r, "marks") /\ Sound(r)
    BY <2>1, <2>5, <2>6, <2>7, <2>9, <2>10, <2>11, <2>12 DEF Wiped, Sound
  <2>14. PICK items : items = Loaded(r, "marks")
    OBVIOUS
  <2>15. Drawable(r, items)
    BY <1>1, <2>13, <2>14, LoadedDrawable
  <2>16. PICK y : y = Draw(r, "marks", items)
    OBVIOUS
  <2>17. Sound(y) /\ SameBut(r, y, {"marks"}) /\ OnChart(y, "marks") \cup Due(y, "marks") = items
    <3>1. Redrawn(r, Draw(r, "marks", items), "marks", items)
      BY <1>1, <2>13, <2>15, DrawDoes
    <3>2. QED
      BY <2>16, <3>1 DEF Redrawn
  <2>18. Shows(y)
    <3>1. PICK x : x = Draw(o, "marks", items)
      OBVIOUS
    <3>2. items = Loaded(o, "marks")
      BY <2>4, <2>5, <2>14 DEF Loaded
    <3>3. Settles(j, x)
      BY <1>1, <1>3, <2>2, <3>1, <3>2 DEF RowsLoad
    <3>4. PICK n : n = [kind |-> "marks", v |-> chart.version, epoch |-> epoch["marks"], todo |-> items]
      OBVIOUS
    <3>5. n # j
      BY <1>1, <3>4
    <3>6. /\ x.c = y.c /\ x.b = y.b /\ x.e = y.e /\ x.k = y.k /\ x.s = y.s /\ x.t = y.t /\ x.j \ {j} = y.j
          /\ DOMAIN x = DOMAIN Picture
      <4>1. CASE items = {}
        BY <2>4, <2>5, <2>16, <3>1, <4>1 DEF Draw
      <4>2. CASE items # {}
        <5>1. x = [o EXCEPT !.j = @ \cup {n}] /\ y = [r EXCEPT !.j = @ \cup {n}]
          BY <1>1, <2>4, <2>5, <2>16, <3>1, <3>4, <4>2 DEF Draw, Await
        <5>2. /\ DOMAIN x = DOMAIN o /\ x.c = o.c /\ x.b = o.b /\ x.e = o.e /\ x.k = o.k /\ x.s = o.s /\ x.j = o.j \cup {n} /\ x.t = o.t
          BY <2>4, <5>1, PictureIs DEF Sound, PictureTypes
        <5>3. /\ y.c = r.c /\ y.b = r.b /\ y.e = r.e /\ y.k = r.k /\ y.s = r.s /\ y.j = r.j \cup {n} /\ y.t = r.t
          BY <2>5, <5>1, PictureIs DEF Sound, PictureTypes
        <5>4. QED
          BY <2>4, <2>5, <3>5, <5>2, <5>3
      <4>3. QED
        BY <4>1, <4>2
    <3>7. QED
      BY <3>3, <3>6, PictureIs DEF Settles, Shows, Sound, PictureTypes
  <2>19. Covered(y, "marks")
    BY <2>14, <2>17 DEF Covered, Target, Loaded, SameBut
  <2>20. \A l \in Layers \ {"marks"} : Covered(y, l) <=> Covered(Picture, l)
    <3>1. \A l \in Layers \ {"marks"} : Covered(r, l) <=> Covered(Picture, l)
      BY <2>5, <2>7, <2>8, PictureIs DEF Covered, Due, Target, Loaded
    <3>2. QED
      BY <2>17, <3>1, CoveredSame
  <2>21. Asked(y) /\ y.c = chart /\ y.t = timer
    <3>1. Asked(r)
      BY <1>1, <2>5, PictureIs DEF Provided, Asked
    <3>2. QED
      BY <2>5, <2>17, <3>1, AskedSame DEF SameBut
  <2>22. Provided(y)
    BY <2>19, <2>20, <2>21, PictureIs DEF Provided, Layers
  <2>23. QED
    BY <2>17, <2>18, <2>22, ShowsDoes
<1>4. QED
  BY <1>2, <1>3

LEMMA EarliestDrawing == ASSUME NEW S \in SUBSET Nat, S # {} PROVE Min(S) \in S
<1> DEFINE R == {ss \in Nat \X Nat : ss[1] < ss[2]}
<1>1. IsWellFoundedOn(R, Nat)
  BY NatLessThanWellFounded DEF OpToRel
<1>2. PICK x \in S : \A y \in S : ~ (<<y, x>> \in R)
  BY <1>1, WFMin
<1>3. ASSUME NEW y \in S PROVE x <= y
  <2>1. PICK p : p = <<y, x>>
    OBVIOUS
  <2>2. p \in Nat \X Nat /\ p[1] = y /\ p[2] = x
    BY <2>1
  <2>3. ~(p[1] < p[2])
    BY <2>1, <2>2, <1>2
  <2>4. QED
    BY <2>2, <2>3
<1>4. QED
  BY <1>3 DEF Min

LEMMA MadeStep == ASSUME ChartInv, NEW j \in jobs, Made(j) PROVE ChartInv'
<1>1. PICK k : k = j.kind
  OBVIOUS
<1>2. k \in Layers /\ j \in Awaits /\ j.kind = k /\ j.todo # {} /\ IsFiniteSet(j.todo) /\ j.todo \in SUBSET Moments
      /\ k # "rows" /\ \A l \in Layers : About(j, l) <=> l = k
  BY <1>1, PictureIs DEF Made, Sound, Awaited, Layers, Awaits, About
<1>3. PICK t : t = Min(j.todo)
  OBVIOUS
<1>4. t \in j.todo /\ t \in Moments
  BY <1>2, <1>3, EarliestDrawing DEF Moments
<1>5. j \in Current(Picture, k) <=> j.epoch = epoch[k]
  BY <1>2, PictureIs DEF Current
<1>6. j.epoch = epoch[k] => Of(j) /\ chart.ready /\ chart.widget = j.v
  BY <1>2, <1>5, PictureIs DEF Sound, Awaited, Mounted, Of
<1>7. CASE j.epoch # epoch[k]
  <2>1. \A l \in Layers : j \notin Current(Picture, l)
    BY <1>2, <1>5, <1>7 DEF Current
  <2>2. Settles(j, Picture)
    BY <1>2, <1>7 DEF Made, StillCurrent
  <2>3. QED
    BY <1>2, <2>1, <2>2, StaleStep DEF Layers
<1>8. CASE j.epoch = epoch[k]
  <2>1. PICK shape : shape = [layer |-> k, time |-> t, epoch |-> j.epoch, v |-> j.v]
    OBVIOUS
  <2>2. shape \in Shapes /\ shape.layer = k /\ shape.time = t
    BY <1>2, <1>4, <2>1 DEF Shapes, Awaits
  <2>3. PICK rest : rest = [j EXCEPT !.todo = j.todo \ {t}]
    OBVIOUS
  <2>4. rest \in Awaits /\ rest.kind = k /\ rest.v = j.v /\ rest.epoch = j.epoch /\ rest.todo = j.todo \ {t} /\ rest # j
    BY <1>2, <1>4, <2>3 DEF Awaits
  <2>5. PICK left : left = IF j.todo = {t} THEN {} ELSE {rest}
    OBVIOUS
  <2>6. PICK x : x = [Picture EXCEPT !.s = canvas \cup {shape}, !.k[k] = tracked[k] \cup {shape}, !.j = (jobs \cup left) \ {j}]
    OBVIOUS
  <2>7. /\ DOMAIN x = DOMAIN Picture /\ x.c = chart /\ x.b = loadedTimes /\ x.e = epoch
        /\ x.k = [tracked EXCEPT ![k] = tracked[k] \cup {shape}] /\ x.s = canvas \cup {shape}
        /\ x.j = (jobs \ {j}) \cup left /\ x.t = timer
    BY <2>4, <2>5, <2>6 DEF Picture
  <2>8. Shows(x)
    <3>1. PICK p : p = [Picture EXCEPT !.s = IF chart.widget = j.v THEN @ \cup {shape} ELSE @, !.k[j.kind] = @ \cup {shape},
                 !.j = IF j.todo = {t} THEN @ ELSE @ \cup {[j EXCEPT !.todo = j.todo \ {t}]}]
      OBVIOUS
    <3>2. Settles(j, p)
      BY <1>1, <1>2, <1>3, <1>6, <1>8, <2>1, <3>1 DEF Made, StillCurrent
    <3>3. /\ p.c = chart /\ p.b = loadedTimes /\ p.e = epoch
          /\ p.k = [tracked EXCEPT ![k] = @ \cup {shape}] /\ p.s = canvas \cup {shape}
          /\ p.j = jobs \cup left /\ p.t = timer /\ DOMAIN p = DOMAIN Picture
      BY <1>1, <1>6, <1>8, <2>3, <2>5, <3>1 DEF Picture
    <3>4. [tracked EXCEPT ![k] = @ \cup {shape}] = [tracked EXCEPT ![k] = tracked[k] \cup {shape}]
      OBVIOUS
    <3>5. x.j = p.j \ {j}
      BY <2>4, <2>5, <2>7, <3>3
    <3>6. QED
      BY <2>7, <3>2, <3>3, <3>4, <3>5 DEF Settles, Shows, Picture
  <2>9. x.k \in [Layers -> SUBSET Shapes] /\ x.k[k] = tracked[k] \cup {shape} /\ \A l \in Layers : l # k => x.k[l] = tracked[l]
    BY <1>2, <2>2, <2>7, PictureIs DEF Sound, PictureTypes
  <2>10. j \in Current(Picture, k) /\ \A i \in Current(Picture, k) : i = j
    BY <1>2, <1>5, <1>8, PictureIs DEF Sound, Awaited
  <2>11. \A l \in Layers : About(rest, l) <=> l = k
    BY <1>2, <2>4 DEF About, Layers
  <2>12. Current(x, k) = left /\ \A l \in Layers : l # k => Current(x, l) = Current(Picture, l)
    BY <1>2, <1>8, <2>4, <2>5, <2>7, <2>10, <2>11, PictureIs DEF Current
  <2>13. OnChart(x, k) = OnChart(Picture, k) \cup {t} /\ \A l \in Layers : l # k => OnChart(x, l) = OnChart(Picture, l)
    BY <2>2, <2>9, PictureIs DEF OnChart
  <2>14. t \notin OnChart(Picture, k) /\ j.todo \subseteq loadedTimes /\ j.todo \cap OnChart(Picture, k) = {}
    BY <1>2, <1>4, <2>10, PictureIs DEF Sound, Awaited
  <2>15. PictureTypes(x)
    BY <2>2, <2>4, <2>5, <2>7, <2>9, PictureIs DEF Sound, PictureTypes
  <2>16. Canvas(x)
    <3>1. canvas = UNION {tracked[l] : l \in Layers}
          /\ (\A l \in Layers : \A s \in tracked[l] : s.layer = l /\ s.time \in loadedTimes)
          /\ \A l \in Layers : \A s, u \in tracked[l] : s.time = u.time => s = u
      BY PictureIs DEF Sound, Canvas
    <3>2. x.s = UNION {x.k[l] : l \in Layers}
      BY <1>2, <2>7, <2>9, <3>1
    <3>3. \A l \in Layers : \A s \in x.k[l] : s.layer = l /\ s.time \in x.b
      BY <1>4, <2>2, <2>7, <2>9, <2>14, <3>1
    <3>4. \A l \in Layers : \A s, u \in x.k[l] : s.time = u.time => s = u
      <4>1. \A s \in tracked[k] : s.time # t
        BY <2>14, PictureIs DEF OnChart
      <4>2. QED
        BY <2>2, <2>9, <3>1, <4>1
    <3>5. QED
      BY <1>6, <1>8, <2>7, <3>2, <3>3, <3>4 DEF Canvas
  <2>17. IsFiniteSet(rest.todo)
    BY <1>2, <2>4, FS_Subset
  <2>18. Awaited(x)
    <3>1. \A l \in Layers : \A i \in x.j : About(i, l) => i.epoch <= x.e[l]
      BY <1>2, <2>4, <2>5, <2>7, <2>11, PictureIs DEF Sound, Awaited
    <3>2. \A l \in Layers : \A i, m \in Current(x, l) : i = m
      BY <2>5, <2>12, PictureIs DEF Sound, Awaited
    <3>3. \A l \in Layers : \A i \in Current(x, l) :
            /\ x.c.ready /\ i.v = x.c.version
            /\ i.kind = l => i.todo # {} /\ i.todo \subseteq x.b /\ i.todo \cap OnChart(x, l) = {}
      <4>1. ASSUME NEW l \in Layers, l # k, NEW i \in Current(x, l)
            PROVE  /\ x.c.ready /\ i.v = x.c.version
                   /\ i.kind = l => i.todo # {} /\ i.todo \subseteq x.b /\ i.todo \cap OnChart(x, l) = {}
        BY <2>7, <2>12, <2>13, <4>1, PictureIs DEF Sound, Awaited
      <4>2. ASSUME NEW i \in Current(x, k)
            PROVE  /\ x.c.ready /\ i.v = x.c.version
                   /\ i.kind = k => i.todo # {} /\ i.todo \subseteq x.b /\ i.todo \cap OnChart(x, k) = {}
        <5>1. i = rest /\ j.todo # {t}
          BY <2>5, <2>12
        <5>2. rest.todo # {} /\ rest.todo \subseteq loadedTimes /\ rest.todo \cap (OnChart(Picture, k) \cup {t}) = {}
          BY <1>4, <2>4, <2>14, <5>1
        <5>3. QED
          BY <1>6, <1>8, <2>4, <2>7, <2>13, <5>1, <5>2 DEF Of
      <4>3. QED
        BY <4>1, <4>2
    <3>4. \A i \in x.j : i.kind \in Layers => i.todo # {} /\ IsFiniteSet(i.todo)
      <4>1. \A i \in left : i = rest /\ rest.todo # {}
        BY <1>4, <2>4, <2>5
      <4>2. QED
        BY <2>7, <2>17, <4>1, PictureIs DEF Sound, Awaited
    <3>5. \A i \in x.j : i.kind \notin Layers => i.v = x.c.version
      BY <1>2, <2>4, <2>5, <2>7, PictureIs DEF Sound, Awaited
    <3>6. QED
      BY <3>1, <3>2, <3>3, <3>4, <3>5 DEF Awaited
  <2>19. Mounted(x)
    <3>1. \A i \in x.j : i.kind = "history" => i \in jobs
      BY <1>2, <2>4, <2>5, <2>7 DEF Layers
    <3>2. QED
      BY <2>7, <3>1, PictureIs DEF Sound, Mounted
  <2>20. OnChart(x, k) \cup Due(x, k) = OnChart(Picture, k) \cup Due(Picture, k)
    <3>1. Due(Picture, k) = j.todo
      BY <1>2, <2>10 DEF Due
    <3>2. Due(x, k) = j.todo \ {t}
      <4>1. CASE j.todo = {t}
        BY <2>5, <2>12, <4>1 DEF Due
      <4>2. CASE j.todo # {t}
        BY <2>4, <2>5, <2>12, <4>2 DEF Due
      <4>3. QED
        BY <4>1, <4>2
    <3>3. QED
      BY <1>4, <2>13, <3>1, <3>2
  <2>21. \A l \in Layers : Covered(x, l) <=> Covered(Picture, l)
    <3>1. \A l \in Layers : Target(x, l) = Target(Picture, l)
      BY <2>7, PictureIs DEF Target, Loaded
    <3>2. \A l \in Layers : l # k => Due(x, l) = Due(Picture, l)
      BY <2>12 DEF Due
    <3>3. QED
      BY <2>13, <2>20, <3>1, <3>2 DEF Covered
  <2>22. (RowsDue(Picture) => RowsDue(x)) /\ (Asked(Picture) => Asked(x))
    <3>1. \A i \in jobs : i # j => i \in x.j
      BY <2>7
    <3>2. j.kind # "rows" /\ j.kind # "externalRows"
      BY <1>2 DEF Layers
    <3>3. QED
      BY <2>7, <3>1, <3>2, PictureIs DEF RowsDue, Asked
  <2>23. Provided(x)
    BY <2>7, <2>21, <2>22, PictureIs DEF Provided, Layers
  <2>24. QED
    BY <2>8, <2>15, <2>16, <2>18, <2>19, <2>23, ShowsDoes DEF Sound
<1>9. QED
  BY <1>7, <1>8

LEMMA ChartStays == ASSUME ChartInv, UNCHANGED kvars PROVE ChartInv'
<1>1. Shows(Picture)
  BY DEF Shows, Picture, kvars
<1>2. QED
  BY <1>1, ShowsDoes, PictureIs

LEMMA ChartInvStep == ASSUME ChartInv, [ChartNext]_kvars PROVE ChartInv'
<1>1. CASE ChartReady
  BY <1>1, ReadyStep
<1>2. CASE TimerFires
  BY <1>2, TimerStep
<1>3. CASE BarsLoad
  BY <1>3, BarsStep
<1>4. CASE RangeMoves
  BY <1>4, RangeStep
<1>5. CASE ShowSymbol \/ Focus
  BY <1>5, MountSteps
<1>6. CASE Select
  BY <1>6, SelectStep
<1>7. CASE ToggleExternal
  BY <1>7, ToggleExternalStep
<1>8. CASE ToggleFib
  BY <1>8, ToggleFibStep
<1>9. CASE \E j \in jobs : HistoryLoads(j) \/ ExternalLoads(j) \/ RowsLoad(j) \/ Made(j) \/ CallFails(j)
  BY <1>9, HistoryStep, ExternalStep, RowsStep, MadeStep, FailsStep
<1>10. CASE UNCHANGED kvars
  BY <1>10, ChartStays
<1>11. QED
  BY <1>1, <1>2, <1>3, <1>4, <1>5, <1>6, <1>7, <1>8, <1>9, <1>10 DEF ChartNext

(* Whatever overtakes whatever, what a layer should show is shown or is going  *)
(* to be: by the await of its epoch, by the rows that are under way, or by the *)
(* timer; and every shape on the canvas is known to its layer.                 *)
THEOREM ChartInductive == ChartSpec => []ChartInv
<1>1. ChartInit => ChartInv
  BY ChartInit1
<1>2. ChartInv /\ [ChartNext]_kvars => ChartInv'
  BY ChartInvStep
<1>3. QED
  BY <1>1, <1>2, PTL DEF ChartSpec

LEMMA OneShapeEach ==
  ASSUME NEW S, NEW T, IsFiniteSet(T), T = {s.time : s \in S}, \A s, u \in S : s.time = u.time => s = u
  PROVE  Cardinality(S) = Cardinality(T)
<1> DEFINE shapeOf == [t \in T |-> CHOOSE s \in S : s.time = t]
<1>1. \A t \in T : shapeOf[t] \in S /\ shapeOf[t].time = t
  OBVIOUS
<1>2. \A s \in S : s.time \in T /\ shapeOf[s.time] = s
  BY <1>1
<1>3. shapeOf \in Bijection(T, S)
  <2>1. shapeOf \in [T -> S]
    BY <1>1
  <2> HIDE DEF shapeOf
  <2>2. \A a, b \in T : shapeOf[a] = shapeOf[b] => a = b
    BY <1>1
  <2>3. \A s \in S : \E t \in T : shapeOf[t] = s
    BY <1>2
  <2>4. QED
    BY <2>1, <2>2, <2>3, Fun_IsBij
<1>4. ExistsBijection(T, S)
  BY <1>3 DEF ExistsBijection
<1>5. QED
  BY <1>4, FS_Bijection

(* Once nothing is under way and nothing has failed, the chart is complete.    *)
LEMMA CompleteAtRest == ASSUME ChartInv PROVE ChartComplete
<1> SUFFICES ASSUME jobs = {}, ~timer, chart.ready, ~chart.error, NEW l \in Layers
             PROVE  LET drawn == {s \in canvas : s.layer = l} IN
               {s.time : s \in drawn} = Wanted(l) /\ Cardinality(drawn) = Cardinality(Wanted(l)) /\ drawn = tracked[l]
  BY DEF ChartComplete
<1> DEFINE drawn == {s \in canvas : s.layer = l}
<1>1. drawn = tracked[l]
  BY PictureIs DEF Sound, Canvas
<1>2. \A s, u \in drawn : s.time = u.time => s = u
  BY <1>1, PictureIs DEF Sound, Canvas
<1>3. Covered(Picture, l) /\ chart.external
  BY PictureIs DEF Provided, Asked, RowsDue, Layers
<1>4. Due(Picture, l) = {}
  BY PictureIs DEF Due, Current
<1>5. Target(Picture, l) = Wanted(l)
  BY <1>3, PictureIs DEF Target, Wanted, Layers
<1>6. {s.time : s \in drawn} = Wanted(l)
  BY <1>1, <1>3, <1>4, <1>5, PictureIs DEF Covered, OnChart
<1>7. IsFiniteSet(Wanted(l))
  <2>1. IsFiniteSet(Loaded(Picture, l)) /\ IsFiniteSet({})
    BY PictureIs, LoadedDrawable DEF Drawable
  <2>2. IsFiniteSet({chart.selected} \cap loadedTimes)
    BY FS_Singleton, FS_Subset
  <2>3. QED
    BY <2>1, <2>2 DEF Wanted, Layers
<1> HIDE DEF drawn
<1>8. Cardinality(drawn) = Cardinality(Wanted(l))
  BY <1>2, <1>6, <1>7, OneShapeEach
<1>9. QED
  BY <1>1, <1>6, <1>8 DEF drawn

(* ChartComplete, for every number of symbols, drawings, mounts and failures.  *)
THEOREM ChartStaysComplete == ChartSpec => []ChartComplete
<1>1. ChartInv => ChartComplete
  BY CompleteAtRest
<1>2. QED
  BY <1>1, ChartInductive, PTL

(* -------------------------------- Evidence -------------------------------- *)

(* Rising: in the order of time.  Two such sequences of the same candles are    *)
(* one, and joining them piece by piece keeps the order.                        *)
Rising(s) == \A i, j \in DOMAIN s : i < j => s[i].time < s[j].time
Before(a, b) == \A x \in Range(a), y \in Range(b) : x.time < y.time

LEMMA InRange ==
  ASSUME NEW S, NEW a \in Seq(S)
  PROVE  /\ Len(a) \in Nat /\ DOMAIN a = 1..Len(a)
         /\ \A i \in 1..Len(a) : a[i] \in Range(a) /\ a[i] \in S
         /\ \A x \in Range(a) : x \in S /\ \E i \in 1..Len(a) : a[i] = x
<1>1. Len(a) \in Nat /\ DOMAIN a = 1..Len(a) /\ \A i \in 1..Len(a) : a[i] \in S
  BY LenProperties, ElementOfSeq
<1>2. QED
  BY <1>1 DEF Range

LEMMA SameSequence ==
  ASSUME NEW a \in Seq(Candle), NEW b \in Seq(Candle), Rising(a), Rising(b), Range(a) = Range(b)
  PROVE  a = b
<1>1. /\ Len(a) \in Nat /\ DOMAIN a = 1..Len(a) /\ Len(b) \in Nat /\ DOMAIN b = 1..Len(b)
      /\ \A i \in 1..Len(a) : a[i].time \in Nat /\ \E j \in 1..Len(b) : b[j] = a[i]
      /\ \A i \in 1..Len(b) : b[i].time \in Nat /\ \E j \in 1..Len(a) : a[j] = b[i]
  <2>1. /\ Len(a) \in Nat /\ DOMAIN a = 1..Len(a) /\ Len(b) \in Nat /\ DOMAIN b = 1..Len(b)
        /\ \A i \in 1..Len(a) : a[i] \in Candle /\ a[i] \in Range(a)
        /\ \A i \in 1..Len(b) : b[i] \in Candle /\ b[i] \in Range(b)
    BY InRange
  <2>2. /\ \A x \in Range(a) : \E j \in 1..Len(a) : a[j] = x
        /\ \A x \in Range(b) : \E j \in 1..Len(b) : b[j] = x
    BY InRange
  <2>3. \A x \in Candle : x.time \in Nat
    BY DEF Candle
  <2>4. QED
    BY <2>1, <2>2, <2>3
<1> DEFINE Wrong == {i \in Nat : i \in 1..Len(a) /\ i \in 1..Len(b) /\ a[i] # b[i]}
<1>2. Wrong = {}
  <2> SUFFICES ASSUME Wrong # {} PROVE FALSE
    OBVIOUS
  <2>1. PICK i \in Wrong : \A k \in Wrong : i <= k
    <3>1. Wrong \in SUBSET Nat
      OBVIOUS
    <3> HIDE DEF Wrong
    <3>2. QED
      BY <3>1, MinIsLeast
  <2>2. PICK j \in 1..Len(b) : b[j] = a[i]
    BY <1>1
  <2>3. PICK k \in 1..Len(a) : a[k] = b[i]
    BY <1>1
  <2>4. j > i /\ k > i
    <3>0. i \in Nat /\ i \in 1..Len(a) /\ i \in 1..Len(b) /\ a[i] # b[i]
      BY <2>1
    <3>1. \A m \in 1..(i - 1) : a[m] = b[m]
      <4> SUFFICES ASSUME NEW m \in 1..(i - 1), a[m] # b[m] PROVE FALSE
        OBVIOUS
      <4>1. m \in Wrong /\ ~(i <= m)
        BY <3>0, <1>1
      <4>2. QED
        BY <4>1, <2>1
    <3>2. j # i /\ k # i
      BY <2>1, <2>2, <2>3
    <3>3. CASE j < i
      <4>1. a[j] = b[j] /\ a[j].time < a[i].time /\ a[i].time \in Nat
        <5>1. j \in DOMAIN a /\ i \in DOMAIN a /\ j \in 1..(i - 1) /\ j < i
          BY <1>1, <3>0, <2>2, <3>3
        <5>2. a[j] = b[j]
          BY <5>1, <3>1
        <5>3. a[j].time < a[i].time
          BY <5>1 DEF Rising
        <5>4. QED
          BY <5>2, <5>3, <3>0, <1>1
      <4>2. QED
        BY <2>2, <4>1
    <3>4. CASE k < i
      <4>1. a[k] = b[k] /\ b[k].time < b[i].time /\ b[i].time \in Nat
        <5>1. k \in DOMAIN b /\ i \in DOMAIN b /\ k \in 1..(i - 1) /\ k < i
          BY <1>1, <3>0, <2>3, <3>4
        <5>2. a[k] = b[k]
          BY <5>1, <3>1
        <5>3. b[k].time < b[i].time
          BY <5>1 DEF Rising
        <5>4. QED
          BY <5>2, <5>3, <3>0, <1>1
      <4>2. QED
        BY <2>3, <4>1
    <3>5. QED
      BY <3>0, <3>2, <3>3, <3>4, <1>1
  <2>5. b[i].time < b[j].time /\ a[i].time < a[k].time /\ a[i].time \in Nat /\ b[i].time \in Nat
    BY <1>1, <2>1, <2>2, <2>3, <2>4 DEF Rising
  <2>6. QED
    BY <2>2, <2>3, <2>5
<1>3. \A i \in 1..Len(a) : i \in 1..Len(b) => a[i] = b[i]
  <2> SUFFICES ASSUME NEW i \in 1..Len(a), i \in 1..Len(b), a[i] # b[i] PROVE FALSE
    OBVIOUS
  <2>1. i \in Wrong
    BY <1>1
  <2>2. QED
    BY <2>1, <1>2
<1>4. Len(a) <= Len(b)
  <2> SUFFICES ASSUME Len(b) < Len(a) PROVE FALSE
    BY <1>1
  <2>1. PICK n : n = Len(b) + 1
    OBVIOUS
  <2>2. n \in 1..Len(a)
    BY <1>1, <2>1
  <2>3. PICK j \in 1..Len(b) : b[j] = a[n]
    BY <1>1, <2>2
  <2>4. a[j] = a[n] /\ a[j].time < a[n].time /\ a[n].time \in Nat
    <3>1. j \in 1..Len(a) /\ j < n
      <4>1. Len(a) \in Nat /\ Len(b) \in Nat /\ Len(b) < Len(a) /\ j \in 1..Len(b)
        BY <1>1
      <4>2. QED
        BY ONLY <4>1, <2>1
    <3>2. a[j] = b[j] /\ a[j].time < a[n].time
      BY <1>1, <1>3, <2>2, <2>3, <3>1 DEF Rising
    <3>3. QED
      BY <1>1, <2>2, <2>3, <3>2
  <2>5. QED
    BY <2>4
<1>5. Len(b) <= Len(a)
  <2> SUFFICES ASSUME Len(a) < Len(b) PROVE FALSE
    BY <1>1
  <2>1. PICK n : n = Len(a) + 1
    OBVIOUS
  <2>2. n \in 1..Len(b)
    BY <1>1, <2>1
  <2>3. PICK j \in 1..Len(a) : a[j] = b[n]
    BY <1>1, <2>2
  <2>4. b[j] = b[n] /\ b[j].time < b[n].time /\ b[n].time \in Nat
    <3>1. j \in 1..Len(b) /\ j < n
      <4>1. Len(a) \in Nat /\ Len(b) \in Nat /\ Len(a) < Len(b) /\ j \in 1..Len(a)
        BY <1>1
      <4>2. QED
        BY ONLY <4>1, <2>1
    <3>2. a[j] = b[j] /\ b[j].time < b[n].time
      BY <1>1, <1>3, <2>2, <2>3, <3>1 DEF Rising
    <3>3. QED
      BY <1>1, <2>2, <2>3, <3>2
  <2>5. QED
    BY <2>4
<1>6. Len(a) = Len(b)
  <2>1. Len(a) \in Nat /\ Len(b) \in Nat
    BY <1>1
  <2>2. QED
    BY ONLY <2>1, <1>4, <1>5
<1>7. QED
  BY <1>1, <1>3, <1>6, SeqEqual

LEMMA Joined ==
  ASSUME NEW a \in Seq(Candle), NEW b \in Seq(Candle), Rising(a), Rising(b), Before(a, b)
  PROVE  a \o b \in Seq(Candle) /\ Rising(a \o b) /\ Range(a \o b) = Range(a) \cup Range(b)
<1>1. /\ Len(a) \in Nat /\ DOMAIN a = 1..Len(a) /\ Len(b) \in Nat /\ DOMAIN b = 1..Len(b)
      /\ \A i \in 1..Len(a) : a[i] \in Range(a)
      /\ \A i \in 1..Len(b) : b[i] \in Range(b)
  BY InRange
<1>2. PICK c : c = a \o b
  OBVIOUS
<1>3. c \in Seq(Candle) /\ Len(c) = Len(a) + Len(b) /\ DOMAIN c = 1..Len(c)
  BY <1>2, ConcatProperties, LenProperties
<1>4. \A i \in 1..Len(c) : c[i] = IF i <= Len(a) THEN a[i] ELSE b[i - Len(a)]
  BY <1>2, <1>3, ConcatProperties
<1>5. Rising(c)
  <2> SUFFICES ASSUME NEW i \in 1..Len(c), NEW j \in 1..Len(c), i < j PROVE c[i].time < c[j].time
    BY <1>3 DEF Rising
  <2>1. CASE j <= Len(a)
    <3>1. i \in 1..Len(a) /\ j \in 1..Len(a) /\ c[i] = a[i] /\ c[j] = a[j]
      BY <1>1, <1>3, <1>4, <2>1
    <3>2. QED
      BY <1>1, <3>1 DEF Rising
  <2>2. CASE j > Len(a) /\ i <= Len(a)
    <3>1. i \in 1..Len(a) /\ j - Len(a) \in 1..Len(b) /\ c[i] = a[i] /\ c[j] = b[j - Len(a)]
      BY <1>1, <1>3, <1>4, <2>2
    <3>2. QED
      BY <1>1, <3>1 DEF Before
  <2>3. CASE i > Len(a)
    <3>1. /\ i - Len(a) \in 1..Len(b) /\ j - Len(a) \in 1..Len(b) /\ i - Len(a) < j - Len(a)
          /\ c[i] = b[i - Len(a)] /\ c[j] = b[j - Len(a)]
      BY <1>1, <1>3, <1>4, <2>3
    <3>2. QED
      BY <1>1, <3>1 DEF Rising
  <2>4. QED
    BY <1>1, <1>3, <2>1, <2>2, <2>3
<1>6. QED
  BY <1>2, <1>3, <1>5, RangeConcatenation

(* FlattenSeq joins its pieces from the left: after m of them it has their      *)
(* candles, in the order of time when the pieces are.                           *)
Joins(g, q, m) == g = [i \in 1..m |-> IF i = 1 THEN q[i] ELSE g[i - 1] \o q[i]]

LEMMA JoinsExist == ASSUME NEW q, NEW m \in Nat PROVE \E g : Joins(g, q, m)
<1> DEFINE Wrong == {k \in Nat : ~\E g : Joins(g, q, k)}
<1>1. Wrong = {}
  <2> SUFFICES ASSUME Wrong # {} PROVE FALSE
    OBVIOUS
  <2>1. PICK k \in Wrong : \A l \in Wrong : k <= l
    <3>1. Wrong \in SUBSET Nat
      OBVIOUS
    <3> HIDE DEF Wrong
    <3>2. QED
      BY <3>1, MinIsLeast
  <2>2. k # 0
    <3>1. PICK g : g = [i \in 1..0 |-> q]
      OBVIOUS
    <3>2. DOMAIN g = {} /\ 1..0 = {}
      BY <3>1
    <3>3. g = [i \in 1..0 |-> IF i = 1 THEN q[i] ELSE g[i - 1] \o q[i]]
      BY <3>1, <3>2
    <3>4. \E h : Joins(h, q, 0)
      BY <3>3 DEF Joins
    <3>5. ~\E h : Joins(h, q, k)
      BY <2>1
    <3>6. QED
      BY <3>4, <3>5
  <2>3. k - 1 \in Nat /\ k - 1 \notin Wrong
    BY <2>1, <2>2
  <2>4. PICK g : Joins(g, q, k - 1)
    BY <2>3
  <2>5. PICK f : f = [i \in 1..k |-> IF i < k THEN g[i] ELSE IF i = 1 THEN q[i] ELSE g[i - 1] \o q[i]]
    OBVIOUS
  <2>6. DOMAIN g = 1..(k - 1) /\ \A i \in 1..(k - 1) : g[i] = IF i = 1 THEN q[i] ELSE g[i - 1] \o q[i]
    BY <2>4 DEF Joins
  <2>7. ASSUME NEW i \in 1..k PROVE f[i] = IF i = 1 THEN q[i] ELSE f[i - 1] \o q[i]
    <3>1. CASE i = k
      <4>1. i # 1 => f[i - 1] = g[i - 1]
        BY <2>5, <2>1, <2>2, <3>1
      <4>2. f[i] = IF i = 1 THEN q[i] ELSE g[i - 1] \o q[i]
        BY <2>5, <2>1, <3>1
      <4>3. QED
        BY <4>1, <4>2
    <3>2. CASE i < k
      <4>1. f[i] = g[i] /\ i \in 1..(k - 1)
        BY <2>5, <2>1, <3>2
      <4>2. i # 1 => f[i - 1] = g[i - 1]
        BY <2>5, <2>1, <3>2
      <4>3. QED
        BY <4>1, <4>2, <2>6
    <3>3. QED
      BY <2>1, <3>1, <3>2
  <2>8. f = [i \in 1..k |-> IF i = 1 THEN q[i] ELSE f[i - 1] \o q[i]]
    BY <2>5, <2>7
  <2>9. QED
    BY <2>1, <2>8 DEF Joins
<1>2. QED
  BY <1>1

LEMMA FlattenIs ==
  ASSUME NEW q, NEW n \in Nat, n # 0, Len(q) = n
  PROVE  \E g : Joins(g, q, n) /\ FlattenSeq(q) = g[n]
<1>1. PICK g : g = CHOOSE f : f = [i \in 1..n |-> IF i = 1 THEN q[i] ELSE f[i - 1] \o q[i]]
  OBVIOUS
<1>2. Joins(g, q, n)
  BY <1>1, JoinsExist DEF Joins
<1>3. FlattenSeq(q) = g[n]
  BY <1>1 DEF FlattenSeq
<1>4. QED
  BY <1>2, <1>3

Pieces(q, S, n) == n \in Nat /\ q = [i \in 1..n |-> q[i]] /\ Len(q) = n /\ \A i \in 1..n : q[i] \in Seq(S)
MadeOf(s, q, S, m) == s \in Seq(S) /\ \A x : x \in Range(s) <=> \E i \in 1..m : x \in Range(q[i])

LEMMA JoinsElements ==
  ASSUME NEW S, NEW n, NEW q, NEW g, Joins(g, q, n), Pieces(q, S, n)
  PROVE  \A m \in 1..n : MadeOf(g[m], q, S, m)
<1>0. n \in Nat /\ \A i \in 1..n : q[i] \in Seq(S)
  BY DEF Pieces
<1>1. \A i \in 1..n : g[i] = IF i = 1 THEN q[i] ELSE g[i - 1] \o q[i]
  BY DEF Joins
<1> DEFINE Fine(m) == MadeOf(g[m], q, S, m)
           Wrong == {m \in Nat : m \in 1..n /\ ~Fine(m)}
<1>2. Wrong = {}
  <2> SUFFICES ASSUME Wrong # {} PROVE FALSE
    OBVIOUS
  <2>1. PICK m \in Wrong : \A l \in Wrong : m <= l
    <3>1. Wrong \in SUBSET Nat
      OBVIOUS
    <3> HIDE DEF Wrong
    <3>2. QED
      BY <3>1, MinIsLeast
  <2>2. m \in Nat /\ m \in 1..n /\ ~Fine(m)
    BY <2>1
  <2>3. m # 1
    <3> SUFFICES ASSUME m = 1 PROVE FALSE
      OBVIOUS
    <3>1. g[m] = q[m] /\ q[m] \in Seq(S) /\ 1..m = {m}
      BY <1>0, <1>1, <2>2
    <3>2. QED
      BY <3>1, <2>2 DEF MadeOf
  <2>4. m - 1 \in Nat /\ m - 1 \in 1..n /\ ~(m <= m - 1)
    BY <1>0, <2>2, <2>3
  <2>5. Fine(m - 1)
    <3>1. m - 1 \notin Wrong
      BY <2>1, <2>4
    <3>2. QED
      BY <2>4, <3>1
  <2>6. g[m] = g[m - 1] \o q[m] /\ q[m] \in Seq(S)
    BY <1>0, <1>1, <2>2, <2>3
  <2>7. g[m] \in Seq(S) /\ Range(g[m]) = Range(g[m - 1]) \cup Range(q[m])
    BY <2>5, <2>6, ConcatProperties, RangeConcatenation DEF MadeOf
  <2>8. 1..m = (1..(m - 1)) \cup {m}
    BY <2>2
  <2>9. QED
    BY <2>2, <2>5, <2>7, <2>8 DEF MadeOf
<1>3. ASSUME NEW m \in 1..n PROVE Fine(m)
  <2>1. m \in Nat /\ m \notin Wrong
    BY <1>0, <1>2
  <2>2. QED
    BY <2>1
<1>4. QED
  BY <1>3

LEMMA FlattenElements ==
  ASSUME NEW S, NEW n, NEW q, Pieces(q, S, n)
  PROVE  MadeOf(FlattenSeq(q), q, S, n)
<1>0. n \in Nat /\ q = [i \in 1..n |-> q[i]] /\ Len(q) = n
  BY DEF Pieces
<1>1. CASE n = 0
  <2>1. FlattenSeq(q) = q
    BY <1>0, <1>1 DEF FlattenSeq
  <2>2. 1..n = {} /\ Range(q) = {}
    BY <1>0, <1>1 DEF Range
  <2>3. q \in Seq(S)
    BY <1>0, <1>1
  <2>4. QED
    BY <2>1, <2>2, <2>3 DEF MadeOf
<1>2. CASE n # 0
  <2>1. PICK g : Joins(g, q, n) /\ FlattenSeq(q) = g[n]
    BY <1>0, <1>2, FlattenIs
  <2>2. \A m \in 1..n : MadeOf(g[m], q, S, m)
    BY <2>1, JoinsElements
  <2>3. n \in 1..n
    BY <1>0, <1>2
  <2>4. QED
    BY <2>1, <2>2, <2>3
<1>3. QED
  BY <1>1, <1>2

LEMMA FlattenRises ==
  ASSUME NEW n, NEW q, Pieces(q, Candle, n),
         \A i \in 1..n : Rising(q[i]), \A i, j \in 1..n : i < j => Before(q[i], q[j])
  PROVE  Rising(FlattenSeq(q))
<1>0. n \in Nat /\ q = [i \in 1..n |-> q[i]] /\ Len(q) = n /\ \A i \in 1..n : q[i] \in Seq(Candle)
  BY DEF Pieces
<1>1. CASE n = 0
  <2>1. FlattenSeq(q) = q /\ DOMAIN q = {}
    BY <1>0, <1>1 DEF FlattenSeq
  <2>2. QED
    BY <2>1 DEF Rising
<1>2. CASE n # 0
  <2>1. PICK g : Joins(g, q, n) /\ FlattenSeq(q) = g[n]
    BY <1>0, <1>2, FlattenIs
  <2>2. \A i \in 1..n : g[i] = IF i = 1 THEN q[i] ELSE g[i - 1] \o q[i]
    BY <2>1 DEF Joins
  <2>3. \A m \in 1..n : MadeOf(g[m], q, Candle, m)
    BY <2>1, JoinsElements
  <2> DEFINE Wrong == {m \in Nat : m \in 1..n /\ ~Rising(g[m])}
  <2>4. Wrong = {}
    <3> SUFFICES ASSUME Wrong # {} PROVE FALSE
      OBVIOUS
    <3>1. PICK m \in Wrong : \A l \in Wrong : m <= l
      <4>1. Wrong \in SUBSET Nat
        OBVIOUS
      <4> HIDE DEF Wrong
      <4>2. QED
        BY <4>1, MinIsLeast
    <3>2. m \in Nat /\ m \in 1..n /\ ~Rising(g[m])
      BY <3>1
    <3>3. m # 1
      BY <2>2, <3>2
    <3>4. m - 1 \in Nat /\ m - 1 \in 1..n /\ ~(m <= m - 1)
      BY <1>0, <3>2, <3>3
    <3>5. Rising(g[m - 1])
      <4>1. m - 1 \notin Wrong
        BY <3>1, <3>4
      <4>2. QED
        BY <3>4, <4>1
    <3>6. g[m] = g[m - 1] \o q[m] /\ q[m] \in Seq(Candle) /\ Rising(q[m])
      BY <1>0, <2>2, <3>2, <3>3
    <3>7. Before(g[m - 1], q[m])
      <4> SUFFICES ASSUME NEW x \in Range(g[m - 1]), NEW y \in Range(q[m]) PROVE x.time < y.time
        BY DEF Before
      <4>1. PICK i \in 1..(m - 1) : x \in Range(q[i])
        BY <2>3, <3>4 DEF MadeOf
      <4>2. i \in 1..n /\ i < m
        BY <1>0, <3>2
      <4>3. Before(q[i], q[m])
        BY <4>2, <3>2
      <4>4. QED
        BY <4>1, <4>3 DEF Before
    <3>8. Rising(g[m])
      <4>1. PICK a : a = g[m - 1]
        OBVIOUS
      <4>2. PICK b : b = q[m]
        OBVIOUS
      <4>3. a \in Seq(Candle) /\ Rising(a) /\ b \in Seq(Candle) /\ Rising(b) /\ Before(a, b)
        BY <2>3, <3>4, <3>5, <3>6, <3>7, <4>1, <4>2 DEF MadeOf
      <4>4. Rising(a \o b)
        BY ONLY <4>3, Joined
      <4>5. QED
        BY <4>1, <4>2, <4>4, <3>6
    <3>9. QED
      BY <3>2, <3>8
  <2>5. n \in Nat /\ n \in 1..n /\ n \notin Wrong
    BY <1>0, <2>4, <1>2
  <2>6. Rising(g[n])
    BY <2>5
  <2>7. QED
    BY <2>1, <2>6
<1>3. QED
  BY <1>1, <1>2

(* The chunks hold the series from the first candle to the last.                *)
Raws == UNION {Range(frozen[k]) : k \in DOMAIN frozen}
FrozenFits ==
  /\ frozen \in Seq(Seq(Candle))
  /\ \A k \in 1..Len(frozen) : frozen[k] # <<>> /\ Rising(frozen[k])
  /\ \A k, l \in 1..Len(frozen) : k < l => Before(frozen[k], frozen[l])

LEMMA EarlierLater ==
  ASSUME NEW a \in Int, NEW b \in Int, NEW c \in Nat \ {0}
  PROVE  /\ a * c \in Int /\ (a - 1) * c = a * c - c /\ (a + 1) * c = a * c + c
         /\ a <= b => a * c <= b * c
         /\ a < b => a * c + c <= b * c
         /\ a * c < b * c => a < b
         /\ a * c <= b * c => a <= b
<1>1. a * c \in Int /\ b * c \in Int /\ (a - 1) * c = a * c - c /\ (a + 1) * c = a * c + c /\ (b - a) * c = b * c - a * c
  OBVIOUS
<1>2. \A d \in Nat : d * c \in Nat
  OBVIOUS
<1>3. a <= b => a * c <= b * c
  <2>1. a <= b => (b - a) * c \in Nat
    BY <1>2
  <2>2. QED
    BY <1>1, <2>1
<1>4. a < b => a * c + c <= b * c
  <2>1. a < b => b - a - 1 \in Nat
    OBVIOUS
  <2>2. (b - a - 1) * c = b * c - a * c - c
    OBVIOUS
  <2>3. a < b => (b - a - 1) * c \in Nat
    BY <1>2, <2>1
  <2>4. QED
    BY <1>1, <2>2, <2>3
<1>5. b <= a => b * c <= a * c
  <2>1. b <= a => (a - b) * c \in Nat
    BY <1>2
  <2>2. (a - b) * c = a * c - b * c
    OBVIOUS
  <2>3. QED
    BY <1>1, <2>1, <2>2
<1>6. a * c < b * c => a < b
  BY <1>1, <1>5
<1>7. b < a => b * c + c <= a * c
  <2>1. b < a => a - b - 1 \in Nat
    OBVIOUS
  <2>2. (a - b - 1) * c = a * c - b * c - c
    OBVIOUS
  <2>3. b < a => (a - b - 1) * c \in Nat
    BY <1>2, <2>1
  <2>4. QED
    BY <1>1, <2>2, <2>3
<1>8. a * c <= b * c => a <= b
  BY <1>1, <1>7
<1>9. QED
  BY <1>1, <1>3, <1>4, <1>6, <1>8

LEMMA Divided ==
  ASSUME NEW a \in Int, NEW c \in Nat \ {0}
  PROVE  a \div c \in Int /\ (a \div c) * c <= a /\ a < (a \div c) * c + c /\ (a \in Nat => a \div c \in Nat)
OBVIOUS

LEMMA LesserOf == ASSUME NEW a \in Int, NEW b \in Int PROVE Min({a, b}) = IF a <= b THEN a ELSE b
<1>1. PICK m : m = IF a <= b THEN a ELSE b
  OBVIOUS
<1>2. m \in {a, b} /\ \A y \in {a, b} : m <= y
  BY <1>1
<1>3. \A x \in {a, b} : (\A y \in {a, b} : x <= y) => x = m
  BY <1>1
<1>4. QED
  BY <1>1, <1>2, <1>3 DEF Min

LEMMA GreaterOf == ASSUME NEW a \in Int, NEW b \in Int PROVE Max({a, b}) = IF a >= b THEN a ELSE b
<1>1. PICK m : m = IF a >= b THEN a ELSE b
  OBVIOUS
<1>2. m \in {a, b} /\ \A y \in {a, b} : m >= y
  BY <1>1
<1>3. \A x \in {a, b} : (\A y \in {a, b} : x >= y) => x = m
  BY <1>1
<1>4. QED
  BY <1>1, <1>2, <1>3 DEF Max

LEMMA ChunksFit == ASSUME NEW s \in Series, frozen = Chunked(s) PROVE FrozenFits
<1>1. s \in Seq(Candle) /\ Len(s) \in Nat /\ DOMAIN s = 1..Len(s) /\ ChunkSize \in Nat \ {0} /\ Rising(s)
  BY EvidenceAssumption, LenProperties DEF Rising
<1>2. PICK n \in Nat : n = Len(s)
  BY <1>1
<1>3. PICK m : m = (n + ChunkSize - 1) \div ChunkSize
  OBVIOUS
<1>4. m \in Nat /\ m * ChunkSize <= n + ChunkSize - 1
  BY <1>1, <1>2, <1>3, Divided
<1>5. ASSUME NEW k \in 1..m PROVE
         \E a, b \in Nat : /\ a = (k - 1) * ChunkSize /\ b <= k * ChunkSize /\ a < b /\ b <= n
                           /\ frozen[k] = SubSeq(s, a + 1, b)
  <2>1. PICK a \in Int : a = (k - 1) * ChunkSize
    BY <1>1, <1>4
  <2>2. PICK e \in Int : e = k * ChunkSize
    BY <1>1, <1>4
  <2>3. e = a + ChunkSize /\ e <= m * ChunkSize
    <3>1. k \in Int /\ m \in Int /\ k <= m
      BY <1>4
    <3>2. (k - 1) * ChunkSize = k * ChunkSize - ChunkSize /\ k * ChunkSize <= m * ChunkSize
      BY <3>1, <1>1, EarlierLater
    <3>3. QED
      BY <2>1, <2>2, <3>2, <1>1
  <2>4. a \in Nat
    <3>1. k - 1 \in Nat
      BY <1>4
    <3>2. QED
      BY <3>1, <2>1, <1>1
  <2>5. PICK b : b = Min({e, n})
    OBVIOUS
  <2>6. b \in Nat /\ b <= e /\ b <= n /\ (b = e \/ b = n)
    BY <1>1, <2>2, <2>3, <2>4, <2>5, LesserOf
  <2>7. a < b
    BY <1>1, <1>4, <2>3, <2>4, <2>6
  <2>8. frozen[k] = SubSeq(s, a + 1, b)
    BY <1>2, <1>3, <2>1, <2>2, <2>5 DEF Chunked
  <2>9. QED
    BY <2>1, <2>2, <2>4, <2>6, <2>7, <2>8
<1>6. ASSUME NEW k \in 1..m, NEW a \in Nat, NEW b \in Nat, a < b, b <= n, frozen[k] = SubSeq(s, a + 1, b)
      PROVE  /\ frozen[k] \in Seq(Candle) /\ Len(frozen[k]) = b - a /\ \A i \in 1..(b - a) : frozen[k][i] = s[a + i]
             /\ Rising(frozen[k]) /\ frozen[k] # <<>>
             /\ \A x \in Range(frozen[k]) : \E i \in (a + 1)..b : x = s[i]
  <2>1. \A i \in (a + 1)..b : s[i] \in Candle
    BY <1>1, <1>2, <1>6, ElementOfSeq
  <2>2. /\ frozen[k] \in Seq(Candle) /\ Len(frozen[k]) = b - a
        /\ \A i \in 1..(b - a) : frozen[k][i] = s[a + i]
    <3>1. a + 1 \in Int /\ b \in Int /\ a + 1 <= b /\ b - (a + 1) + 1 = b - a
      BY <1>6
    <3>2. /\ SubSeq(s, a + 1, b) \in Seq(Candle)
          /\ Len(SubSeq(s, a + 1, b)) = IF a + 1 <= b THEN b - (a + 1) + 1 ELSE 0
          /\ \A i \in 1..(b - (a + 1) + 1) : SubSeq(s, a + 1, b)[i] = s[a + 1 + i - 1]
      BY <2>1, <3>1, SubSeqProperties
    <3>3. \A i \in 1..(b - a) : a + 1 + i - 1 = a + i
      BY <1>6
    <3>4. QED
      BY <1>6, <3>1, <3>2, <3>3
  <2>3. DOMAIN frozen[k] = 1..(b - a)
    BY <2>2, LenProperties
  <2>4. Rising(frozen[k])
    <3> SUFFICES ASSUME NEW i \in 1..(b - a), NEW j \in 1..(b - a), i < j PROVE frozen[k][i].time < frozen[k][j].time
      BY <2>3 DEF Rising
    <3>1. a + i \in 1..n /\ a + j \in 1..n /\ a + i < a + j
      BY <1>6
    <3>2. s[a + i].time < s[a + j].time
      BY <1>1, <1>2, <3>1 DEF Rising
    <3>3. QED
      BY <2>2, <3>2
  <2>5. \A x \in Range(frozen[k]) : \E i \in (a + 1)..b : x = s[i]
    <3> SUFFICES ASSUME NEW x \in Range(frozen[k]) PROVE \E i \in (a + 1)..b : x = s[i]
      OBVIOUS
    <3>1. PICK i \in 1..(b - a) : frozen[k][i] = x
      BY <2>2, InRange
    <3>2. x = s[a + i]
      BY <2>2, <3>1
    <3>3. a + i \in (a + 1)..b
      BY ONLY <1>6, i \in 1..(b - a)
    <3>4. QED
      BY <3>2, <3>3
  <2>6. frozen[k] # <<>>
    <3>1. Len(frozen[k]) # 0
      BY <2>2, <1>6
    <3>2. QED
      BY <3>1
  <2>7. QED
    BY <2>2, <2>4, <2>5, <2>6
<1>7. frozen = [k \in 1..m |-> frozen[k]]
  BY <1>2, <1>3 DEF Chunked
<1>8. \A k \in 1..m : frozen[k] \in Seq(Candle) /\ Rising(frozen[k]) /\ frozen[k] # <<>>
  BY <1>5, <1>6
<1>9. frozen \in Seq(Seq(Candle)) /\ Len(frozen) = m
  BY <1>4, <1>7, <1>8
<1>10. ASSUME NEW k \in 1..m, NEW l \in 1..m, k < l PROVE Before(frozen[k], frozen[l])
  <2> SUFFICES ASSUME NEW x \in Range(frozen[k]), NEW y \in Range(frozen[l]) PROVE x.time < y.time
    BY DEF Before
  <2>1. PICK a, b \in Nat : a = (k - 1) * ChunkSize /\ b <= k * ChunkSize /\ a < b /\ b <= n /\ frozen[k] = SubSeq(s, a + 1, b)
    BY <1>5
  <2>2. PICK c, d \in Nat : c = (l - 1) * ChunkSize /\ d <= l * ChunkSize /\ c < d /\ d <= n /\ frozen[l] = SubSeq(s, c + 1, d)
    BY <1>5
  <2>3. b <= c
    <3>1. k \in Int /\ l - 1 \in Int /\ k <= l - 1
      BY <1>4, <1>10
    <3>2. k * ChunkSize <= (l - 1) * ChunkSize /\ k * ChunkSize \in Int
      BY <3>1, <1>1, EarlierLater
    <3>3. QED
      BY <2>1, <2>2, <3>2
  <2>4. PICK i \in (a + 1)..b : x = s[i]
    <3>1. k \in 1..m /\ a \in Nat /\ b \in Nat /\ a < b /\ b <= n /\ frozen[k] = SubSeq(s, a + 1, b)
      BY <2>1
    <3>2. \A z \in Range(frozen[k]) : \E i \in (a + 1)..b : z = s[i]
      BY ONLY <3>1, <1>6
    <3>3. QED
      BY <3>2
  <2>5. PICK j \in (c + 1)..d : y = s[j]
    <3>1. l \in 1..m /\ c \in Nat /\ d \in Nat /\ c < d /\ d <= n /\ frozen[l] = SubSeq(s, c + 1, d)
      BY <2>2
    <3>2. \A z \in Range(frozen[l]) : \E h \in (c + 1)..d : z = s[h]
      BY ONLY <3>1, <1>6
    <3>3. QED
      BY <3>2
  <2>6. i \in 1..n /\ j \in 1..n /\ i < j
    <3>1. a \in Nat /\ b <= n /\ c \in Nat /\ d <= n /\ b <= c /\ n \in Nat /\ b \in Nat /\ d \in Nat
      BY <2>1, <2>2, <2>3
    <3>2. QED
      BY ONLY <3>1, i \in (a + 1)..b, j \in (c + 1)..d
  <2>7. QED
    BY <1>1, <1>2, <2>4, <2>5, <2>6 DEF Rising
<1>11. QED
  BY <1>8, <1>9, <1>10 DEF FrozenFits

(* What a run plays: the raw candles, and after each, step by step, its close   *)
(* again until the next one.                                                    *)
Filled(y, p, k) ==
  /\ y = Flatline(p, p.time + k * BarStep)
  /\ \E q \in Raws : y.time < q.time
  /\ \A q \in Raws : q.time <= p.time \/ y.time < q.time
Played(y) == y \in Raws \/ \E p \in Raws, k \in Nat \ {0} : Filled(y, p, k)

(* The cursor stands at the first raw candle after the last one played.         *)
ReaderFits ==
  /\ reader.chunk \in 1..(Len(frozen) + 1) /\ reader.offset \in Nat
  /\ reader.chunk <= Len(frozen) => reader.offset \in 1..Len(frozen[reader.chunk])
  /\ reader = [chunk |-> reader.chunk, offset |-> reader.offset, previous |-> reader.previous]
  /\ reader.previous = NoCandle \/ Played(reader.previous)
  /\ \A k \in 1..Len(frozen) : \A i \in 1..Len(frozen[k]) :
       reader.previous.time < frozen[k][i].time <=> (k > reader.chunk \/ (k = reader.chunk /\ i >= reader.offset))

LEMMA RawsAre ==
  ASSUME FrozenFits
  PROVE  /\ Len(frozen) \in Nat /\ DOMAIN frozen = 1..Len(frozen)
         /\ \A k \in 1..Len(frozen) : /\ frozen[k] \in Seq(Candle) /\ Len(frozen[k]) \in Nat \ {0}
                                      /\ DOMAIN frozen[k] = 1..Len(frozen[k])
                                      /\ \A i \in 1..Len(frozen[k]) : frozen[k][i] \in Range(frozen[k]) /\ frozen[k][i] \in Raws
         /\ \A q \in Raws : q \in Candle /\ q.time \in Nat /\ \E k \in 1..Len(frozen) : \E i \in 1..Len(frozen[k]) : q = frozen[k][i]
<1>1. Len(frozen) \in Nat /\ DOMAIN frozen = 1..Len(frozen) /\ \A k \in 1..Len(frozen) : frozen[k] \in Seq(Candle)
  BY LenProperties, ElementOfSeq DEF FrozenFits
<1>2. \A k \in 1..Len(frozen) : frozen[k] # <<>>
  BY DEF FrozenFits
<1>3. ASSUME NEW k \in 1..Len(frozen)
      PROVE  /\ Len(frozen[k]) \in Nat \ {0} /\ DOMAIN frozen[k] = 1..Len(frozen[k])
             /\ \A i \in 1..Len(frozen[k]) : frozen[k][i] \in Range(frozen[k]) /\ frozen[k][i] \in Raws
             /\ \A q \in Range(frozen[k]) : q \in Candle /\ \E i \in 1..Len(frozen[k]) : q = frozen[k][i]
  <2>1. frozen[k] \in Seq(Candle) /\ frozen[k] # <<>> /\ k \in DOMAIN frozen
    BY <1>1, <1>2
  <2>2. Len(frozen[k]) \in Nat \ {0}
    BY <2>1, EmptySeq
  <2>3. /\ DOMAIN frozen[k] = 1..Len(frozen[k]) /\ \A i \in 1..Len(frozen[k]) : frozen[k][i] \in Range(frozen[k])
        /\ \A q \in Range(frozen[k]) : q \in Candle /\ \E i \in 1..Len(frozen[k]) : q = frozen[k][i]
    BY <2>1, InRange
  <2>4. QED
    BY <2>1, <2>2, <2>3 DEF Raws
<1>4. ASSUME NEW q \in Raws PROVE q \in Candle /\ q.time \in Nat /\ \E k \in 1..Len(frozen) : \E i \in 1..Len(frozen[k]) : q = frozen[k][i]
  <2>1. PICK k \in 1..Len(frozen) : q \in Range(frozen[k])
    BY <1>1 DEF Raws
  <2>2. q \in Candle /\ \E i \in 1..Len(frozen[k]) : q = frozen[k][i]
    BY <1>3, <2>1
  <2>3. q.time \in Nat
    BY <2>2 DEF Candle
  <2>4. QED
    BY <2>2, <2>3
<1>5. QED
  BY <1>1, <1>3, <1>4

LEMMA RawsRise ==
  ASSUME FrozenFits, NEW k \in 1..Len(frozen), NEW i \in 1..Len(frozen[k]), NEW l \in 1..Len(frozen), NEW j \in 1..Len(frozen[l]),
         k < l \/ (k = l /\ i < j)
  PROVE  frozen[k][i].time < frozen[l][j].time
<1>1. /\ frozen[k][i] \in Range(frozen[k]) /\ frozen[l][j] \in Range(frozen[l])
      /\ DOMAIN frozen[k] = 1..Len(frozen[k])
  BY RawsAre
<1>2. (k < l => Before(frozen[k], frozen[l])) /\ Rising(frozen[k])
  BY DEF FrozenFits
<1>3. QED
  BY <1>1, <1>2 DEF Before, Rising

LEMMA OneRawEach == ASSUME FrozenFits, NEW p \in Raws, NEW q \in Raws, p.time = q.time PROVE p = q
<1>1. PICK k \in 1..Len(frozen) : \E i \in 1..Len(frozen[k]) : p = frozen[k][i]
  BY RawsAre
<1>2. PICK i \in 1..Len(frozen[k]) : p = frozen[k][i]
  BY <1>1
<1>3. PICK l \in 1..Len(frozen) : \E j \in 1..Len(frozen[l]) : q = frozen[l][j]
  BY RawsAre
<1>4. PICK j \in 1..Len(frozen[l]) : q = frozen[l][j]
  BY <1>3
<1>5. p.time \in Nat
  BY RawsAre
<1>6. ~(k < l \/ (k = l /\ i < j))
  <2> SUFFICES ASSUME k < l \/ (k = l /\ i < j) PROVE FALSE
    OBVIOUS
  <2>1. frozen[k][i].time < frozen[l][j].time
    BY RawsRise
  <2>2. QED
    BY <1>2, <1>4, <1>5, <2>1
<1>7. ~(l < k \/ (l = k /\ j < i))
  <2> SUFFICES ASSUME l < k \/ (l = k /\ j < i) PROVE FALSE
    OBVIOUS
  <2>1. frozen[l][j].time < frozen[k][i].time
    BY RawsRise
  <2>2. QED
    BY <1>2, <1>4, <1>5, <2>1
<1>8. k = l /\ i = j
  <2>1. Len(frozen) \in Nat /\ Len(frozen[k]) \in Nat /\ Len(frozen[l]) \in Nat
    BY RawsAre
  <2>2. k \in Nat /\ l \in Nat /\ i \in Nat /\ j \in Nat
    BY <2>1
  <2>3. QED
    BY <1>6, <1>7, <2>2
<1>9. QED
  BY <1>2, <1>4, <1>8

LEMMA Based ==
  ASSUME FrozenFits, NEW y, Played(y)
  PROVE  /\ y \in Candle /\ y.time \in Nat
         /\ \E p \in Raws : \E k \in Nat : /\ y.time = p.time + k * BarStep /\ y.close = p.close /\ p.time <= y.time
                                           /\ \A q \in Raws : q.time <= p.time \/ y.time < q.time
<1>1. \A q \in Raws : q \in Candle /\ q.time \in Nat
  BY RawsAre
<1>2. CASE y \in Raws
  <2>1. y \in Candle /\ y.time \in Nat
    BY <1>1, <1>2
  <2>2. 0 \in Nat /\ 0 * BarStep = 0
    BY EvidenceAssumption
  <2>3. y.time = y.time + 0 * BarStep /\ y.close = y.close /\ y.time <= y.time
    BY <2>1, <2>2
  <2>4. \A q \in Raws : q.time <= y.time \/ y.time < q.time
    BY <1>1, <2>1
  <2>5. QED
    BY <1>2, <2>1, <2>2, <2>3, <2>4
<1>3. CASE \E p \in Raws, k \in Nat \ {0} : Filled(y, p, k)
  <2>1. PICK p \in Raws, k \in Nat \ {0} : Filled(y, p, k)
    BY <1>3
  <2>2. p \in Candle /\ p.time \in Nat /\ p.close \in Int
    BY <1>1 DEF Candle
  <2>3. k * BarStep \in Nat
    BY EvidenceAssumption
  <2>4. y = [time |-> p.time + k * BarStep, open |-> p.close, close |-> p.close, vol |-> 0]
    BY <2>1 DEF Filled, Flatline
  <2>5. y \in Candle /\ y.time \in Nat /\ y.time = p.time + k * BarStep /\ y.close = p.close /\ p.time <= y.time
    <3>1. PICK t \in Nat : t = p.time + k * BarStep
      BY <2>2, <2>3
    <3>2. y = [time |-> t, open |-> p.close, close |-> p.close, vol |-> 0] /\ p.time <= t
      BY <2>2, <2>3, <2>4, <3>1
    <3>3. QED
      BY <2>2, <3>1, <3>2 DEF Candle
  <2>6. \A q \in Raws : q.time <= p.time \/ y.time < q.time
    BY <2>1 DEF Filled
  <2>7. k \in Nat
    OBVIOUS
  <2>8. QED
    BY <2>5, <2>6, <2>7
<1>4. QED
  BY <1>2, <1>3 DEF Played

LEMMA AtCursor ==
  ASSUME FrozenFits, ReaderFits
  PROVE  /\ reader.previous.time \in Int
         /\ More => /\ Raw \in Raws /\ Raw.time \in Nat /\ reader.previous.time < Raw.time
                    /\ \A q \in Raws : q.time <= reader.previous.time \/ Raw.time <= q.time
         /\ ~More => \A q \in Raws : q.time <= reader.previous.time
<1>1. reader.previous.time \in Int
  <2>1. CASE reader.previous = NoCandle
    BY <2>1 DEF NoCandle
  <2>2. CASE Played(reader.previous)
    BY <2>2, Based
  <2>3. QED
    BY <2>1, <2>2 DEF ReaderFits
<1>2. Len(frozen) \in Nat /\ \A k \in 1..Len(frozen) : Len(frozen[k]) \in Nat \ {0}
  BY RawsAre
<1>3. ASSUME NEW q \in Raws
      PROVE  q.time <= reader.previous.time \/ (More /\ (Raw.time <= q.time))
  <2>1. PICK k \in 1..Len(frozen) : \E i \in 1..Len(frozen[k]) : q = frozen[k][i]
    BY RawsAre
  <2>2. PICK i \in 1..Len(frozen[k]) : q = frozen[k][i]
    BY <2>1
  <2>3. q.time \in Nat
    BY RawsAre
  <2> SUFFICES ASSUME ~(q.time <= reader.previous.time) PROVE More /\ Raw.time <= q.time
    OBVIOUS
  <2>4. reader.previous.time < frozen[k][i].time
    BY <1>1, <2>2, <2>3
  <2>5. k > reader.chunk \/ (k = reader.chunk /\ i >= reader.offset)
    BY <2>4 DEF ReaderFits
  <2>6. reader.chunk \in Nat /\ reader.chunk <= Len(frozen) /\ reader.chunk \in 1..Len(frozen)
    <3>1. reader.chunk \in 1..(Len(frozen) + 1)
      BY DEF ReaderFits
    <3>2. QED
      BY <1>2, <2>5, <3>1
  <2>7. reader.offset \in 1..Len(frozen[reader.chunk])
    BY <2>6 DEF ReaderFits
  <2>8. Raw.time <= q.time
    <3>1. PICK l : l = reader.chunk
      OBVIOUS
    <3>2. PICK j : j = reader.offset
      OBVIOUS
    <3>3. l \in 1..Len(frozen) /\ j \in 1..Len(frozen[l]) /\ Raw = frozen[l][j]
      BY <2>6, <2>7, <3>1, <3>2 DEF Raw
    <3>4. CASE l = k /\ j = i
      BY <2>2, <2>3, <3>3, <3>4
    <3>5. CASE l < k \/ (l = k /\ j < i)
      <4>1. frozen[l][j].time < frozen[k][i].time
        BY ONLY FrozenFits, <3>3, <3>5, k \in 1..Len(frozen), i \in 1..Len(frozen[k]), RawsRise
      <4>2. frozen[l][j] \in Raws
        BY <3>3, RawsAre
      <4>3. frozen[l][j].time \in Nat
        BY <4>2, RawsAre
      <4>4. QED
        BY <2>2, <2>3, <3>3, <4>1, <4>3
    <3>6. (l < k \/ (l = k /\ j < i)) \/ (l = k /\ j = i)
      <4>1. l \in Nat /\ k \in Nat /\ i \in Nat /\ j \in Nat
        BY <1>2, <3>3
      <4>2. k > l \/ (k = l /\ i >= j)
        BY <2>5, <3>1, <3>2
      <4>3. QED
        BY ONLY <4>1, <4>2
    <3>7. QED
      BY <3>4, <3>5, <3>6
  <2>9. QED
    BY <2>6, <2>8 DEF More
<1>4. ASSUME More PROVE Raw \in Raws /\ Raw.time \in Nat /\ reader.previous.time < Raw.time
  <2>1. reader.chunk \in 1..Len(frozen)
    <3>1. reader.chunk \in 1..(Len(frozen) + 1)
      BY DEF ReaderFits
    <3>2. QED
      BY <1>2, <1>4, <3>1 DEF More
  <2>2. reader.offset \in 1..Len(frozen[reader.chunk]) /\ reader.offset \in Nat
    BY <1>4 DEF ReaderFits, More
  <2>3. Raw \in Raws
    BY <2>1, <2>2, RawsAre DEF Raw
  <2>4. reader.previous.time < Raw.time
    BY <2>1, <2>2 DEF ReaderFits, Raw
  <2>5. QED
    BY <2>3, <2>4, RawsAre
<1>5. QED
  BY <1>1, <1>3, <1>4

(* The candle that peek answers with is played, and the next one after the last *)
(* one: at most a step away, and nothing in between.                            *)
NextAfter(c, b) ==
  /\ Played(c) /\ b.time < c.time /\ (b # NoCandle => c.time <= b.time + BarStep)
  /\ \A y : Played(y) /\ b.time < y.time /\ y.time <= c.time => y = c

LEMMA PeekedIsNext ==
  ASSUME FrozenFits, ReaderFits, More
  PROVE  NextAfter(Peeked, reader.previous)
<1>0. BarStep \in Nat \ {0}
  BY EvidenceAssumption
<1>1. PICK b : b = reader.previous
  OBVIOUS
<1>2. PICK r : r = Raw
  OBVIOUS
<1>3. PICK c : c = Peeked
  OBVIOUS
<1>4. /\ b.time \in Int /\ r \in Raws /\ r.time \in Nat /\ b.time < r.time
      /\ \A q \in Raws : q.time <= b.time \/ r.time <= q.time
      /\ b = NoCandle \/ Played(b)
  BY <1>1, <1>2, AtCursor DEF ReaderFits
<1>5. c = IF b # NoCandle /\ b.time + BarStep < r.time THEN Flatline(b, b.time + BarStep) ELSE r
  BY <1>1, <1>2, <1>3 DEF Peeked
<1>6. ASSUME NEW p \in Raws, NEW k \in Nat, b.time = p.time + k * BarStep, p.time <= b.time, b # NoCandle,
             \A q \in Raws : q.time <= p.time \/ b.time < q.time,
             NEW y, NEW o \in Raws, NEW n \in Nat \ {0}, Filled(y, o, n), b.time < y.time, y.time <= r.time
      PROVE  o = p /\ y.time = p.time + n * BarStep /\ k + 1 <= n /\ y.time < r.time
  <2>1. p.time \in Nat /\ o.time \in Nat
    BY RawsAre
  <2>2. n * BarStep \in Nat \ {0} /\ k * BarStep \in Nat
    BY <1>0
  <2>3. y.time = o.time + n * BarStep /\ \A q \in Raws : q.time <= o.time \/ y.time < q.time
    BY <1>6 DEF Filled, Flatline
  <2>4. y.time < r.time
    <3>1. r.time <= o.time \/ y.time < r.time
      BY <2>3, <1>4
    <3>2. QED
      BY <1>4, <1>6, <2>1, <2>2, <2>3, <3>1
  <2>5. o.time <= b.time
    <3>1. o.time <= b.time \/ r.time <= o.time
      BY <1>4
    <3>2. QED
      BY <1>4, <2>1, <2>2, <2>3, <2>4, <3>1
  <2>6. o.time <= p.time
    <3>1. o.time <= p.time \/ b.time < o.time
      BY <1>6
    <3>2. QED
      BY <1>4, <2>1, <2>5, <3>1
  <2>7. p.time <= o.time
    <3>1. p.time <= o.time \/ y.time < p.time
      BY <2>3
    <3>2. QED
      BY <1>4, <1>6, <2>1, <2>2, <2>3, <3>1
  <2>8. o = p
    BY <2>1, <2>6, <2>7, OneRawEach
  <2>9. k * BarStep < n * BarStep
    BY <1>6, <2>1, <2>2, <2>3, <2>8
  <2>10. k < n
    BY <1>0, <2>9, EarlierLater
  <2>11. QED
    BY <2>3, <2>4, <2>8, <2>10
<1>7. CASE b # NoCandle /\ b.time + BarStep < r.time
  <2>1. PICK p \in Raws : \E k \in Nat : /\ b.time = p.time + k * BarStep /\ b.close = p.close /\ p.time <= b.time
                                         /\ \A q \in Raws : q.time <= p.time \/ b.time < q.time
    BY <1>4, <1>7, Based
  <2>2. PICK k \in Nat : /\ b.time = p.time + k * BarStep /\ b.close = p.close /\ p.time <= b.time
                         /\ \A q \in Raws : q.time <= p.time \/ b.time < q.time
    BY <2>1
  <2>3. p.time \in Nat /\ k * BarStep \in Nat /\ (k + 1) * BarStep = k * BarStep + BarStep /\ k + 1 \in Nat \ {0}
    BY RawsAre, <1>0
  <2>4. c = [time |-> b.time + BarStep, open |-> b.close, close |-> b.close, vol |-> 0] /\ c.time = b.time + BarStep
    BY <1>5, <1>7 DEF Flatline
  <2>5. c = Flatline(p, p.time + (k + 1) * BarStep)
    <3>1. p.time + (k + 1) * BarStep = b.time + BarStep
      BY <2>2, <2>3, <1>0
    <3>2. QED
      BY <2>2, <2>4, <3>1 DEF Flatline
  <2>6. Filled(c, p, k + 1)
    <3>1. c.time < r.time
      BY <1>7, <2>4
    <3>2. ASSUME NEW q \in Raws PROVE q.time <= p.time \/ c.time < q.time
      <4>1. q.time \in Nat /\ (q.time <= p.time \/ b.time < q.time) /\ (q.time <= b.time \/ r.time <= q.time)
        BY <1>4, <2>2, RawsAre
      <4>2. QED
        BY <1>0, <1>4, <2>3, <2>4, <3>1, <4>1
    <3>3. QED
      BY <1>4, <2>5, <3>1, <3>2 DEF Filled
  <2>7. Played(c)
    BY <2>3, <2>6 DEF Played
  <2>8. ASSUME NEW y, Played(y), b.time < y.time, y.time <= c.time PROVE y = c
    <3>1. y.time \in Nat
      BY <2>8, Based
    <3>2. y \notin Raws
      <4> SUFFICES ASSUME y \in Raws PROVE FALSE
        OBVIOUS
      <4>1. y.time <= b.time \/ r.time <= y.time
        BY <1>4
      <4>2. QED
        BY <1>0, <1>4, <1>7, <2>4, <2>8, <3>1, <4>1
    <3>3. PICK o \in Raws, n \in Nat \ {0} : Filled(y, o, n)
      BY <2>8, <3>2 DEF Played
    <3>4. y.time <= r.time
      BY <1>0, <1>4, <1>7, <2>4, <2>8, <3>1
    <3>5. o = p /\ y.time = p.time + n * BarStep /\ k + 1 <= n
      BY <1>6, <1>7, <2>2, <2>8, <3>3, <3>4
    <3>6. n * BarStep <= (k + 1) * BarStep
      <4>1. n * BarStep \in Nat
        BY <1>0
      <4>2. QED
        BY <1>0, <2>2, <2>3, <2>4, <2>8, <3>5, <4>1
    <3>7. n = k + 1
      <4>1. n <= k + 1
        BY <1>0, <3>6, EarlierLater
      <4>2. QED
        BY <3>5, <4>1
    <3>8. y = Flatline(o, o.time + n * BarStep)
      BY <3>3 DEF Filled
    <3>9. QED
      BY <2>5, <3>5, <3>7, <3>8
  <2>9. QED
    BY <1>0, <1>1, <1>3, <1>4, <2>4, <2>7, <2>8 DEF NextAfter
<1>8. CASE ~(b # NoCandle /\ b.time + BarStep < r.time)
  <2>1. c = r /\ Played(c)
    BY <1>4, <1>5, <1>8 DEF Played
  <2>2. ASSUME NEW y, Played(y), b.time < y.time, y.time <= c.time PROVE y = c
    <3>1. y.time \in Nat
      BY <2>2, Based
    <3>2. CASE y \in Raws
      <4>1. y.time <= b.time \/ r.time <= y.time
        BY <1>4, <3>2
      <4>2. y.time = r.time
        BY <1>4, <2>1, <2>2, <3>1, <4>1
      <4>3. QED
        BY <1>4, <2>1, <3>2, <4>2, OneRawEach
    <3>3. CASE y \notin Raws
      <4>1. PICK o \in Raws, n \in Nat \ {0} : Filled(y, o, n)
        BY <2>2, <3>3 DEF Played
      <4>2. o.time \in Nat /\ n * BarStep \in Nat \ {0}
        BY RawsAre, <1>0
      <4>3. y.time = o.time + n * BarStep /\ \A q \in Raws : q.time <= o.time \/ y.time < q.time
        BY <4>1 DEF Filled, Flatline
      <4>4. b # NoCandle
        <5>1. o.time <= b.time \/ r.time <= o.time
          BY <1>4
        <5>2. o.time <= b.time
          BY <1>4, <2>1, <2>2, <3>1, <4>2, <4>3, <5>1
        <5>3. b.time # -1
          BY <1>4, <4>2, <5>2
        <5>4. QED
          BY <5>3 DEF NoCandle
      <4>5. PICK p \in Raws : \E k \in Nat : /\ b.time = p.time + k * BarStep /\ b.close = p.close /\ p.time <= b.time
                                             /\ \A q \in Raws : q.time <= p.time \/ b.time < q.time
        BY <1>4, <4>4, Based
      <4>6. PICK k \in Nat : /\ b.time = p.time + k * BarStep /\ b.close = p.close /\ p.time <= b.time
                             /\ \A q \in Raws : q.time <= p.time \/ b.time < q.time
        BY <4>5
      <4>7. o = p /\ y.time = p.time + n * BarStep /\ k + 1 <= n /\ y.time < r.time
        BY <1>6, <2>1, <2>2, <4>1, <4>4, <4>6
      <4>8. (k + 1) * BarStep = k * BarStep + BarStep /\ (k + 1) * BarStep <= n * BarStep /\ k * BarStep \in Nat
        <5>1. k + 1 \in Int /\ n \in Int /\ k \in Int
          OBVIOUS
        <5>2. (k + 1) * BarStep <= n * BarStep
          BY <1>0, <4>7, <5>1, EarlierLater
        <5>3. (k + 1) * BarStep = k * BarStep + BarStep /\ k * BarStep \in Nat
          BY <1>0
        <5>4. QED
          BY <5>2, <5>3
      <4>9. b.time + BarStep <= y.time
        BY <1>0, <1>4, <4>2, <4>3, <4>6, <4>7, <4>8
      <4>10. QED
        BY <1>0, <1>4, <1>8, <4>4, <4>7, <4>9, <3>1
    <3>4. QED
      BY <3>2, <3>3
  <2>3. b # NoCandle => c.time <= b.time + BarStep
    BY <1>0, <1>4, <1>8, <2>1
  <2>4. QED
    BY <1>1, <1>3, <1>4, <2>1, <2>2, <2>3 DEF NextAfter
<1>9. QED
  BY <1>7, <1>8

LEMMA SamePlayed == ASSUME frozen' = frozen PROVE (FrozenFits' <=> FrozenFits) /\ \A y : Played(y)' <=> Played(y)
BY DEF FrozenFits, Played, Filled, Raws

LEMMA ReaderMoves ==
  ASSUME FrozenFits, ReaderFits, More, frozen' = frozen, reader' = Consumed(Peeked)
  PROVE  ReaderFits' /\ reader'.previous = Peeked
<1>1. PICK ch \in 1..Len(frozen) : ch = reader.chunk
  <2>1. reader.chunk \in 1..(Len(frozen) + 1) /\ Len(frozen) \in Nat
    BY RawsAre DEF ReaderFits
  <2>2. QED
    BY <2>1 DEF More
<1>2. PICK off \in 1..Len(frozen[ch]) : off = reader.offset
  BY <1>1 DEF ReaderFits, More
<1>3. PICK b : b = reader.previous
  OBVIOUS
<1>4. PICK c : c = Peeked
  OBVIOUS
<1>5. /\ b.time \in Int /\ Raw \in Raws /\ Raw.time \in Nat /\ b.time < Raw.time /\ Raw = frozen[ch][off]
      /\ \A q \in Raws : q.time <= b.time \/ Raw.time <= q.time
  BY <1>1, <1>2, <1>3, AtCursor DEF Raw
<1>6. Played(c) /\ b.time < c.time /\ c.time \in Nat
  <2>1. NextAfter(c, b)
    BY <1>3, <1>4, PeekedIsNext
  <2>2. QED
    BY <2>1, Based DEF NextAfter
<1>7. \A k \in 1..Len(frozen) : \A i \in 1..Len(frozen[k]) : frozen[k][i] \in Raws /\ frozen[k][i].time \in Nat
  <2>1. \A k \in 1..Len(frozen) : \A i \in 1..Len(frozen[k]) : frozen[k][i] \in Raws
    BY RawsAre
  <2>2. QED
    BY <2>1, RawsAre
<1>8. ch \in Nat /\ off \in Nat /\ Len(frozen) \in Nat /\ \A k \in 1..Len(frozen) : Len(frozen[k]) \in Nat \ {0}
  BY RawsAre
<1>9. /\ reader = [chunk |-> ch, offset |-> off, previous |-> b]
      /\ \A k \in 1..Len(frozen) : \A i \in 1..Len(frozen[k]) :
           b.time < frozen[k][i].time <=> (k > ch \/ (k = ch /\ i >= off))
  BY <1>1, <1>2, <1>3 DEF ReaderFits
<1>10. c = Raw \/ c.time < Raw.time
  <2>1. c = Raw \/ (b.time + BarStep < Raw.time /\ c = Flatline(b, b.time + BarStep))
    BY <1>3, <1>4 DEF Peeked
  <2>2. QED
    BY <2>1 DEF Flatline
<1>11. CASE c # Raw
  <2>1. reader' = [chunk |-> ch, offset |-> off, previous |-> c]
    <3>1. reader' = [reader EXCEPT !.previous = c]
      BY <1>4, <1>11 DEF Consumed
    <3>2. QED
      BY <1>9, <3>1
  <2>2. ASSUME NEW k \in 1..Len(frozen), NEW i \in 1..Len(frozen[k])
        PROVE  c.time < frozen[k][i].time <=> (k > ch \/ (k = ch /\ i >= off))
    <3>1. frozen[k][i] \in Raws /\ frozen[k][i].time \in Nat
      BY <1>7
    <3>2. frozen[k][i].time <= b.time \/ Raw.time <= frozen[k][i].time
      BY <1>5, <3>1
    <3>3. c.time < frozen[k][i].time <=> b.time < frozen[k][i].time
      BY <1>5, <1>6, <1>10, <1>11, <3>1, <3>2
    <3>4. QED
      BY <1>9, <3>3
  <2>3. reader'.chunk = ch /\ reader'.offset = off /\ reader'.previous = c
    BY <2>1
  <2>4. ReaderFits'
    BY <1>1, <1>2, <1>6, <1>8, <2>1, <2>2, <2>3, SamePlayed DEF ReaderFits
  <2>5. QED
    BY <1>4, <2>3, <2>4
<1>12. CASE c = Raw
  <2>1. ASSUME NEW k \in 1..Len(frozen), NEW i \in 1..Len(frozen[k])
        PROVE  c.time < frozen[k][i].time <=> (k > ch \/ (k = ch /\ i > off))
    <3>1. k \in Nat /\ i \in Nat
      BY <1>8
    <3>2. CASE k > ch \/ (k = ch /\ i > off)
      <4>1. ch < k \/ (ch = k /\ off < i)
        BY <1>8, <3>1, <3>2
      <4>2. frozen[ch][off].time < frozen[k][i].time
        BY <4>1, RawsRise
      <4>3. QED
        BY <1>5, <1>12, <3>2, <4>2
    <3>3. CASE k < ch \/ (k = ch /\ i < off)
      <4>1. frozen[k][i].time < frozen[ch][off].time
        BY <3>3, RawsRise
      <4>2. QED
        BY <1>5, <1>7, <1>8, <1>12, <3>1, <3>3, <4>1
    <3>4. CASE k = ch /\ i = off
      BY <1>5, <1>8, <1>12, <3>1, <3>4
    <3>5. QED
      BY <1>8, <3>1, <3>2, <3>3, <3>4
  <2>2. CASE off = Len(frozen[ch])
    <3>1. reader' = [chunk |-> ch + 1, offset |-> 1, previous |-> c]
      BY <1>1, <1>2, <1>4, <1>12, <2>2 DEF Consumed
    <3>2. reader'.chunk = ch + 1 /\ reader'.offset = 1 /\ reader'.previous = c
      BY <3>1
    <3>3. ASSUME NEW k \in 1..Len(frozen), NEW i \in 1..Len(frozen[k])
          PROVE  c.time < frozen[k][i].time <=> (k > ch + 1 \/ (k = ch + 1 /\ i >= 1))
      <4>1. c.time < frozen[k][i].time <=> (k > ch \/ (k = ch /\ i > off))
        BY <2>1
      <4>2. k \in Nat /\ i \in Nat /\ i >= 1 /\ (k = ch => i <= off)
        BY <1>8, <2>2
      <4>3. QED
        BY <1>8, <4>1, <4>2
    <3>4. ch + 1 \in 1..(Len(frozen) + 1) /\ (ch + 1 <= Len(frozen) => 1 \in 1..Len(frozen[ch + 1]))
      BY <1>8
    <3>5. ReaderFits'
      BY <1>6, <1>8, <3>1, <3>2, <3>3, <3>4, SamePlayed DEF ReaderFits
    <3>6. QED
      BY <1>4, <3>2, <3>5
  <2>3. CASE off # Len(frozen[ch])
    <3>1. reader' = [chunk |-> ch, offset |-> off + 1, previous |-> c]
      <4>1. reader' = [reader EXCEPT !.offset = @ + 1, !.previous = c]
        BY <1>1, <1>2, <1>4, <1>12, <2>3 DEF Consumed
      <4>2. QED
        BY <1>9, <4>1
    <3>2. reader'.chunk = ch /\ reader'.offset = off + 1 /\ reader'.previous = c
      BY <3>1
    <3>3. ASSUME NEW k \in 1..Len(frozen), NEW i \in 1..Len(frozen[k])
          PROVE  c.time < frozen[k][i].time <=> (k > ch \/ (k = ch /\ i >= off + 1))
      <4>1. c.time < frozen[k][i].time <=> (k > ch \/ (k = ch /\ i > off))
        BY <2>1
      <4>2. k \in Nat /\ i \in Nat
        BY <1>8
      <4>3. QED
        BY <1>8, <4>1, <4>2
    <3>4. ch \in 1..(Len(frozen) + 1) /\ off + 1 \in Nat /\ off + 1 \in 1..Len(frozen[ch])
      BY <1>8, <2>3
    <3>5. ReaderFits'
      BY <1>6, <1>8, <3>1, <3>2, <3>3, <3>4, SamePlayed DEF ReaderFits
    <3>6. QED
      BY <1>4, <3>2, <3>5
  <2>4. QED
    BY <2>2, <2>3
<1>13. QED
  BY <1>11, <1>12

(* What the engine was given: everything played so far, in order, no two        *)
(* neighbours more than a step apart.                                           *)
SeenFits ==
  /\ seen \in Seq(Candle) /\ Rising(seen)
  /\ \A i, j \in 1..Len(seen) : i <= j => seen[j].time <= seen[i].time + (j - i) * BarStep
  /\ \A y : y \in Range(seen) <=> Played(y) /\ y.time <= reader.previous.time
  /\ reader.previous = IF seen = <<>> THEN NoCandle ELSE seen[Len(seen)]

LEMMA SeenGrows ==
  ASSUME FrozenFits, ReaderFits, SeenFits, More, frozen' = frozen, reader' = Consumed(Peeked), seen' = Append(seen, Peeked)
  PROVE  SeenFits'
<1>0. BarStep \in Nat \ {0}
  BY EvidenceAssumption
<1>1. PICK b : b = reader.previous
  OBVIOUS
<1>2. PICK c : c = Peeked
  OBVIOUS
<1>3. reader'.previous = c
  BY <1>2, ReaderMoves
<1>4. /\ Played(c) /\ b.time < c.time /\ (b # NoCandle => c.time <= b.time + BarStep) /\ c \in Candle /\ c.time \in Nat /\ b.time \in Int
      /\ \A y : Played(y) /\ b.time < y.time /\ y.time <= c.time => y = c
  <2>1. NextAfter(c, b)
    BY <1>1, <1>2, PeekedIsNext
  <2>2. b.time \in Int
    BY <1>1, AtCursor
  <2>3. QED
    BY <2>1, <2>2, Based DEF NextAfter
<1>5. PICK n \in Nat : n = Len(seen)
  BY LenProperties DEF SeenFits
<1>6. /\ seen \in Seq(Candle) /\ DOMAIN seen = 1..n
      /\ \A i \in 1..n : seen[i] \in Candle /\ seen[i].time \in Nat
      /\ \A i, j \in 1..n : i < j => seen[i].time < seen[j].time
      /\ \A i, j \in 1..n : i <= j => seen[j].time <= seen[i].time + (j - i) * BarStep
  <2>1. seen \in Seq(Candle)
    BY DEF SeenFits
  <2>2. DOMAIN seen = 1..n
    BY <1>5, <2>1, LenProperties
  <2>3. \A i \in 1..n : seen[i] \in Candle
    BY <1>5, <2>1, ElementOfSeq
  <2>4. \A i, j \in 1..n : i < j => seen[i].time < seen[j].time
    BY <2>2 DEF SeenFits, Rising
  <2>5. QED
    BY <1>5, <2>1, <2>2, <2>3, <2>4 DEF SeenFits, Candle
<1>7. /\ seen' \in Seq(Candle) /\ Len(seen') = n + 1 /\ DOMAIN seen' = 1..(n + 1) /\ seen' # <<>>
      /\ \A i \in 1..n : seen'[i] = seen[i]
      /\ seen'[n + 1] = c
  <2>1. seen' = Append(seen, c)
    BY <1>2
  <2>2. /\ seen' \in Seq(Candle) /\ Len(seen') = n + 1 /\ seen' # <<>>
        /\ \A i \in 1..n : seen'[i] = seen[i]
        /\ seen'[n + 1] = c
    BY <1>4, <1>5, <1>6, <2>1, AppendProperties
  <2>3. DOMAIN seen' = 1..(n + 1)
    BY <2>2, LenProperties
  <2>4. QED
    BY <2>2, <2>3
<1>8. n # 0 => b = seen[n] /\ b # NoCandle /\ n \in 1..n
  <2>1. n # 0 => seen # <<>> /\ n \in 1..n
    BY <1>5
  <2>2. n # 0 => b = seen[n]
    BY <1>1, <1>5, <2>1 DEF SeenFits
  <2>3. n # 0 => seen[n].time \in Nat
    BY <1>6, <2>1
  <2>4. QED
    BY <2>1, <2>2, <2>3 DEF NoCandle
<1>9. \A i \in 1..n : seen[i].time <= b.time /\ b # NoCandle /\ b.time <= seen[i].time + (n - i) * BarStep
  <2> SUFFICES ASSUME NEW i \in 1..n PROVE seen[i].time <= b.time /\ b # NoCandle /\ b.time <= seen[i].time + (n - i) * BarStep
    OBVIOUS
  <2>1. n # 0 /\ i <= n
    OBVIOUS
  <2>2. b = seen[n] /\ b # NoCandle /\ n \in 1..n
    BY <1>8, <2>1
  <2>3. i = n \/ i < n
    BY <2>1
  <2>4. seen[n].time \in Nat /\ (i < n => seen[i].time < seen[n].time) /\ seen[n].time <= seen[i].time + (n - i) * BarStep
    BY <1>6, <2>1, <2>2
  <2>5. seen[i].time \in Nat
    BY <1>6
  <2>6. QED
    BY <2>2, <2>3, <2>4, <2>5
<1>10. Rising(seen')
  <2> SUFFICES ASSUME NEW i \in 1..(n + 1), NEW j \in 1..(n + 1), i < j PROVE seen'[i].time < seen'[j].time
    BY <1>7 DEF Rising
  <2>1. CASE j = n + 1
    <3>1. i \in 1..n
      BY <2>1
    <3>2. seen[i].time <= b.time /\ seen[i].time \in Nat
      BY <1>6, <1>9, <3>1
    <3>3. QED
      BY <1>4, <1>7, <2>1, <3>1, <3>2
  <2>2. CASE j # n + 1
    <3>1. i \in 1..n /\ j \in 1..n
      BY <2>2
    <3>2. QED
      BY <1>6, <1>7, <3>1
  <2>3. QED
    BY <2>1, <2>2
<1>11. ASSUME NEW i \in 1..(n + 1), NEW j \in 1..(n + 1), i <= j
       PROVE  seen'[j].time <= seen'[i].time + (j - i) * BarStep
  <2>1. CASE j = n + 1 /\ i = n + 1
    <3>1. (j - i) * BarStep = 0
      BY <1>0, <2>1
    <3>2. QED
      BY <1>4, <1>7, <2>1, <3>1
  <2>2. CASE j = n + 1 /\ i \in 1..n
    <3>1. seen[i].time \in Nat /\ b.time <= seen[i].time + (n - i) * BarStep /\ c.time <= b.time + BarStep
      BY <1>4, <1>6, <1>9, <2>2
    <3>2. (j - i) * BarStep = (n - i) * BarStep + BarStep /\ (n - i) * BarStep \in Int
      BY <1>0, <2>2
    <3>3. c.time <= seen[i].time + (j - i) * BarStep
      <4>1. PICK d \in Int : d = (n - i) * BarStep
        BY <3>2
      <4>2. PICK e \in Int : e = (j - i) * BarStep
        BY <3>2, <1>0
      <4>3. e = d + BarStep /\ b.time <= seen[i].time + d
        BY <3>1, <3>2, <4>1, <4>2
      <4>4. c.time <= seen[i].time + e
        BY ONLY <1>0, <1>4, <3>1, <4>1, <4>2, <4>3
      <4>5. QED
        BY <4>2, <4>4
    <3>4. QED
      BY <1>7, <2>2, <3>3
  <2>3. CASE i \in 1..n /\ j \in 1..n
    BY <1>6, <1>7, <1>11, <2>3
  <2>4. i \in 1..n \/ i = n + 1
    OBVIOUS
  <2>5. j \in 1..n \/ (j = n + 1)
    OBVIOUS
  <2>6. ~(i = n + 1 /\ j \in 1..n)
    BY <1>11
  <2>7. QED
    BY <2>1, <2>2, <2>3, <2>4, <2>5, <2>6
<1>12. ASSUME NEW y PROVE y \in Range(seen') <=> Played(y) /\ y.time <= c.time
  <2>1. y \in Range(seen') <=> y \in Range(seen) \/ y = c
    <3>1. y \in Range(seen') <=> \E i \in 1..(n + 1) : seen'[i] = y
      BY <1>7 DEF Range
    <3>2. y \in Range(seen) <=> \E i \in 1..n : seen[i] = y
      BY <1>6 DEF Range
    <3>3. 1..(n + 1) = (1..n) \cup {n + 1}
      OBVIOUS
    <3>4. QED
      BY <1>7, <3>1, <3>2, <3>3
  <2>2. y \in Range(seen) <=> Played(y) /\ y.time <= b.time
    BY <1>1 DEF SeenFits
  <2>3. Played(y) => y.time \in Nat
    BY Based
  <2>4. QED
    BY <1>4, <2>1, <2>2, <2>3
<1>13. \A y : Played(y)' <=> Played(y)
  BY SamePlayed
<1>14. seen'[Len(seen')] = c
  BY <1>7
<1>15. QED
  BY <1>3, <1>7, <1>10, <1>11, <1>12, <1>13, <1>14 DEF SeenFits

LEMMA MaxIsGreatest ==
  ASSUME NEW n \in Nat, NEW S \in SUBSET (1..n), S # {}
  PROVE  Max(S) \in S /\ \A y \in S : y <= Max(S)
<1> DEFINE D == {n - x : x \in S}
<1>1. D \in SUBSET Nat /\ D # {}
  <2>1. \A x \in S : n - x \in Nat
    OBVIOUS
  <2>2. QED
    BY <2>1
<1>2. PICK d \in D : \A e \in D : d <= e
  <2> HIDE DEF D
  <2>1. QED
    BY <1>1, MinIsLeast
<1>3. PICK x \in S : d = n - x
  BY <1>2
<1>4. \A y \in S : y <= x
  <2> SUFFICES ASSUME NEW y \in S PROVE y <= x
    OBVIOUS
  <2>1. n - x <= n - y
    BY <1>2, <1>3
  <2>2. x \in Nat /\ y \in Nat
    OBVIOUS
  <2>3. QED
    BY ONLY <2>1, <2>2, n \in Nat
<1>5. \A y \in S : x >= y
  BY <1>4
<1>6. QED
  BY <1>5 DEF Max

LEMMA IsInterval ==
  ASSUME NEW n \in Nat, NEW S \in SUBSET (1..n), S # {}, \A k, l \in S : \A m \in k..l : m \in S
  PROVE  /\ Min(S) \in S /\ Max(S) \in S /\ Min(S) <= Max(S) /\ S = Min(S)..Max(S)
         /\ Cardinality(S) = Max(S) - Min(S) + 1
<1>1. S \in SUBSET Nat
  OBVIOUS
<1>2. Min(S) \in S /\ \A y \in S : Min(S) <= y
  BY <1>1, MinIsLeast
<1>3. Max(S) \in S /\ \A y \in S : y <= Max(S)
  BY MaxIsGreatest
<1>4. PICK a \in S : a = Min(S)
  BY <1>2
<1>5. PICK b \in S : b = Max(S)
  BY <1>3
<1>6. a \in Int /\ b \in Int /\ a <= b
  BY <1>2, <1>4, <1>5
<1>7. S = a..b
  <2>1. \A m \in a..b : m \in S
    OBVIOUS
  <2>2. \A m \in S : m \in a..b
    BY <1>2, <1>3, <1>4, <1>5
  <2>3. QED
    BY <2>1, <2>2
<1>8. Cardinality(a..b) = b - a + 1
  BY <1>6, FS_Interval
<1>9. QED
  BY <1>2, <1>3, <1>4, <1>5, <1>6, <1>7, <1>8

LEMMA ChunkEnds ==
  ASSUME FrozenFits
  PROVE  /\ \A k \in 1..Len(frozen) : /\ frozen[k][1] \in Range(frozen[k]) /\ Last(frozen[k]) \in Range(frozen[k])
                                      /\ frozen[k][1].time \in Nat /\ Last(frozen[k]).time \in Nat
                                      /\ \A q \in Range(frozen[k]) : /\ q \in Raws /\ q.time \in Nat
                                                                     /\ frozen[k][1].time <= q.time /\ q.time <= Last(frozen[k]).time
         /\ \A k, l \in 1..Len(frozen) : k < l => Last(frozen[k]).time < frozen[l][1].time
         /\ \A q \in Raws : \E k \in 1..Len(frozen) : q \in Range(frozen[k])
<1>1. ASSUME NEW k \in 1..Len(frozen)
      PROVE  /\ frozen[k][1] \in Range(frozen[k]) /\ Last(frozen[k]) \in Range(frozen[k])
             /\ \A q \in Range(frozen[k]) : /\ q \in Raws /\ q.time \in Nat
                                            /\ frozen[k][1].time <= q.time /\ q.time <= Last(frozen[k]).time
  <2>1. /\ frozen[k] \in Seq(Candle) /\ Len(frozen[k]) \in Nat \ {0} /\ DOMAIN frozen[k] = 1..Len(frozen[k])
        /\ \A i \in 1..Len(frozen[k]) : frozen[k][i] \in Range(frozen[k]) /\ frozen[k][i] \in Raws
    BY RawsAre
  <2>2. PICK n \in Nat \ {0} : n = Len(frozen[k])
    BY <2>1
  <2>3. 1 \in 1..n /\ n \in 1..n /\ Last(frozen[k]) = frozen[k][n]
    BY <2>2 DEF Last
  <2>4. frozen[k][1] \in Range(frozen[k]) /\ frozen[k][n] \in Range(frozen[k])
    BY <2>1, <2>2, <2>3
  <2>5. ASSUME NEW q \in Range(frozen[k])
        PROVE  q \in Raws /\ q.time \in Nat /\ frozen[k][1].time <= q.time /\ q.time <= frozen[k][n].time
    <3>1. PICK i \in 1..n : frozen[k][i] = q
      BY <2>1, <2>2, <2>5, InRange
    <3>2. \A h \in 1..n : frozen[k][h].time \in Nat
      BY <2>1, <2>2, RawsAre
    <3>3. \A h, j \in 1..n : h < j => frozen[k][h].time < frozen[k][j].time
      BY <2>1, <2>2 DEF FrozenFits, Rising
    <3>4. i = 1 \/ 1 < i
      OBVIOUS
    <3>5. i = n \/ i < n
      OBVIOUS
    <3>6. frozen[k][1].time <= q.time
      BY <2>3, <3>1, <3>2, <3>3, <3>4
    <3>7. q.time <= frozen[k][n].time
      BY <2>3, <3>1, <3>2, <3>3, <3>5
    <3>8. q \in Raws /\ q.time \in Nat
      BY <2>1, <2>2, <3>1, <3>2
    <3>9. QED
      BY <3>6, <3>7, <3>8
  <2>6. QED
    BY <2>3, <2>4, <2>5
<1>2. ASSUME NEW k \in 1..Len(frozen), NEW l \in 1..Len(frozen), k < l PROVE Last(frozen[k]).time < frozen[l][1].time
  <2>1. Before(frozen[k], frozen[l])
    BY <1>2 DEF FrozenFits
  <2>2. QED
    BY <1>1, <2>1 DEF Before
<1>3. \A q \in Raws : \E k \in 1..Len(frozen) : q \in Range(frozen[k])
  BY RawsAre DEF Raws
<1>4. QED
  BY <1>1, <1>2, <1>3

Overlaps(k, from, to) == frozen[k][1].time <= to /\ Last(frozen[k]).time >= from
Ahead(k, from) == Last(frozen[k]).time < from /\ \A l \in 1..Len(frozen) : Last(frozen[l]).time < from => l <= k
Behind(k, to) == frozen[k][1].time > to /\ \A l \in 1..Len(frozen) : frozen[l][1].time > to => k <= l

LEMMA BlocksAre ==
  ASSUME FrozenFits, NEW from \in Int, NEW to \in Int
  PROVE  \A k : k \in Blocks(from, to) <=>
                k \in 1..Len(frozen) /\ (Overlaps(k, from, to) \/ Ahead(k, from) \/ Behind(k, to))
<1> DEFINE P == {k \in DOMAIN frozen : Last(frozen[k]).time < from}
           N == {k \in DOMAIN frozen : frozen[k][1].time > to}
<1>1. PICK n \in Nat : n = Len(frozen) /\ DOMAIN frozen = 1..n
  BY RawsAre
<1>2. P \in SUBSET (1..n) /\ N \in SUBSET (1..n) /\ N \in SUBSET Nat
  BY <1>1
<1>3. P # {} => Max(P) \in P /\ \A y \in P : y <= Max(P)
  <2> HIDE DEF P
  <2>1. QED
    BY <1>1, <1>2, MaxIsGreatest
<1>4. N # {} => Min(N) \in N /\ \A y \in N : Min(N) <= y
  <2> HIDE DEF N
  <2>1. QED
    BY <1>2, MinIsLeast
<1>5. Blocks(from, to) = {k \in DOMAIN frozen : frozen[k][1].time <= to /\ Last(frozen[k]).time >= from}
                           \cup (IF P = {} THEN {} ELSE {Max(P)}) \cup (IF N = {} THEN {} ELSE {Min(N)})
  BY DEF Blocks
<1>6. ASSUME NEW k PROVE Ahead(k, from) /\ k \in 1..n <=> P # {} /\ k = Max(P)
  <2>1. ASSUME Ahead(k, from), k \in 1..n PROVE P # {} /\ k = Max(P)
    <3>1. k \in P
      BY <1>1, <2>1 DEF Ahead
    <3>2. Max(P) \in P /\ k <= Max(P)
      BY <1>3, <3>1
    <3>3. Max(P) <= k
      BY <1>1, <2>1, <3>2 DEF Ahead
    <3>4. QED
      BY <1>1, <3>1, <3>2, <3>3
  <2>2. ASSUME P # {}, k = Max(P) PROVE Ahead(k, from) /\ k \in 1..n
    <3>1. k \in P /\ \A y \in P : y <= k
      BY <1>3, <2>2
    <3>2. QED
      BY <1>1, <3>1 DEF Ahead
  <2>3. QED
    BY <2>1, <2>2
<1>7. ASSUME NEW k PROVE Behind(k, to) /\ k \in 1..n <=> N # {} /\ k = Min(N)
  <2>1. ASSUME Behind(k, to), k \in 1..n PROVE N # {} /\ k = Min(N)
    <3>1. k \in N
      BY <1>1, <2>1 DEF Behind
    <3>2. Min(N) \in N /\ Min(N) <= k
      BY <1>4, <3>1
    <3>3. k <= Min(N)
      BY <1>1, <2>1, <3>2 DEF Behind
    <3>4. QED
      BY <1>1, <3>1, <3>2, <3>3
  <2>2. ASSUME N # {}, k = Min(N) PROVE Behind(k, to) /\ k \in 1..n
    <3>1. k \in N /\ \A y \in N : k <= y
      BY <1>4, <2>2
    <3>2. QED
      BY <1>1, <3>1 DEF Behind
  <2>3. QED
    BY <2>1, <2>2
<1>8. QED
  <2> HIDE DEF P, N
  <2>1. QED
    BY <1>1, <1>5, <1>6, <1>7 DEF Overlaps

LEMMA BlocksCover ==
  ASSUME FrozenFits, NEW from \in Int, NEW to \in Int, from <= to, NEW S, S = Blocks(from, to)
  PROVE  /\ S \in SUBSET (1..Len(frozen)) /\ \A k, l \in S : \A m \in k..l : m \in S
         /\ \A q \in Raws : from <= q.time /\ q.time <= to => \E k \in S : q \in Range(frozen[k])
         /\ \A y : \A p \in Raws : \A n \in Nat \ {0} : Filled(y, p, n) /\ from <= y.time /\ y.time <= to =>
              (\E k \in S : p \in Range(frozen[k])) /\ \E k \in S : \E q \in Range(frozen[k]) : y.time < q.time
<1>1. PICK n \in Nat : n = Len(frozen)
  BY RawsAre
<1>2. /\ \A k \in 1..n : /\ frozen[k][1].time \in Nat /\ Last(frozen[k]).time \in Nat
                         /\ frozen[k][1].time <= Last(frozen[k]).time
                         /\ \A q \in Range(frozen[k]) : /\ q \in Raws /\ q.time \in Nat
                                                        /\ frozen[k][1].time <= q.time /\ q.time <= Last(frozen[k]).time
      /\ \A k, l \in 1..n : k < l => Last(frozen[k]).time < frozen[l][1].time
      /\ \A q \in Raws : q.time \in Nat /\ \E k \in 1..n : q \in Range(frozen[k])
  <2>1. \A k \in 1..n : /\ frozen[k][1] \in Range(frozen[k]) /\ Last(frozen[k]) \in Range(frozen[k])
                        /\ frozen[k][1].time \in Nat /\ Last(frozen[k]).time \in Nat
                        /\ \A q \in Range(frozen[k]) : /\ q \in Raws /\ q.time \in Nat
                                                       /\ frozen[k][1].time <= q.time /\ q.time <= Last(frozen[k]).time
    BY <1>1, ChunkEnds
  <2>2. /\ \A k, l \in 1..n : k < l => Last(frozen[k]).time < frozen[l][1].time
        /\ \A q \in Raws : \E k \in 1..n : q \in Range(frozen[k])
    BY <1>1, ChunkEnds
  <2>3. QED
    BY <2>1, <2>2, RawsAre
<1>3. \A k : k \in S <=> k \in 1..n /\ (Overlaps(k, from, to) \/ Ahead(k, from) \/ Behind(k, to))
  BY <1>1, BlocksAre
<1>4. ASSUME NEW k \in S, NEW l \in S, NEW m \in k..l PROVE m \in S
  <2>1. k \in 1..n /\ l \in 1..n /\ m \in 1..n
    BY <1>1, <1>3
  <2> SUFFICES ASSUME m # k, m # l PROVE Overlaps(m, from, to)
    BY <1>3, <2>1
  <2>2. k < m /\ m < l
    BY <2>1
  <2>3. Last(frozen[m]).time >= from
    <3> SUFFICES ASSUME Last(frozen[m]).time < from PROVE FALSE
      BY <1>2, <2>1
    <3>1. Last(frozen[k]).time < from /\ frozen[k][1].time <= to
      BY <1>2, <2>1, <2>2
    <3>2. ~Overlaps(k, from, to) /\ ~Behind(k, to)
      BY <1>2, <2>1, <3>1 DEF Overlaps, Behind
    <3>3. Ahead(k, from)
      BY <1>3, <3>2
    <3>4. m <= k
      BY <1>1, <2>1, <3>3 DEF Ahead
    <3>5. QED
      BY <2>1, <2>2, <3>4
  <2>4. frozen[m][1].time <= to
    <3> SUFFICES ASSUME frozen[m][1].time > to PROVE FALSE
      BY <1>2, <2>1
    <3>1. frozen[l][1].time > to /\ Last(frozen[l]).time >= from
      BY <1>2, <2>1, <2>2
    <3>2. ~Overlaps(l, from, to) /\ ~Ahead(l, from)
      BY <1>2, <2>1, <3>1 DEF Overlaps, Ahead
    <3>3. Behind(l, to)
      BY <1>3, <3>2
    <3>4. l <= m
      BY <1>1, <2>1, <3>3 DEF Behind
    <3>5. QED
      BY <2>1, <2>2, <3>4
  <2>5. QED
    BY <2>3, <2>4 DEF Overlaps
<1>5. ASSUME NEW q \in Raws, from <= q.time, q.time <= to PROVE \E k \in S : q \in Range(frozen[k])
  <2>1. PICK k \in 1..n : q \in Range(frozen[k])
    BY <1>2
  <2>2. Overlaps(k, from, to)
    BY <1>2, <1>5, <2>1 DEF Overlaps
  <2>3. QED
    BY <1>3, <2>1, <2>2
<1>6. ASSUME NEW y, NEW p \in Raws, NEW d \in Nat \ {0}, Filled(y, p, d), from <= y.time, y.time <= to
      PROVE  (\E k \in S : p \in Range(frozen[k])) /\ \E k \in S : \E q \in Range(frozen[k]) : y.time < q.time
  <2>1. y.time \in Nat /\ p.time < y.time /\ p.time \in Nat
    <3>1. p.time \in Nat /\ d * BarStep \in Nat \ {0}
      BY <1>2, EvidenceAssumption
    <3>2. y.time = p.time + d * BarStep
      BY <1>6 DEF Filled, Flatline
    <3>3. QED
      BY <3>1, <3>2
  <2>2. /\ \A q \in Raws : q.time <= p.time \/ y.time < q.time
        /\ \E q \in Raws : y.time < q.time
    BY <1>6 DEF Filled
  <2>3. PICK k \in 1..n : p \in Range(frozen[k])
    BY <1>2
  <2>4. k \in S
    <3>1. CASE Last(frozen[k]).time >= from
      <4>1. frozen[k][1].time <= to
        BY <1>2, <1>6, <2>1, <2>3
      <4>2. QED
        BY <1>3, <3>1, <4>1 DEF Overlaps
    <3>2. CASE Last(frozen[k]).time < from
      <4>1. ASSUME NEW l \in 1..n, Last(frozen[l]).time < from PROVE l <= k
        <5> SUFFICES ASSUME k < l PROVE FALSE
          BY <1>1
        <5>1. Last(frozen[k]).time < frozen[l][1].time /\ frozen[l][1].time <= Last(frozen[l]).time
          BY <1>2
        <5>2. Last(frozen[l]) \in Raws
          BY <1>1, ChunkEnds
        <5>3. Last(frozen[l]).time <= p.time \/ y.time < Last(frozen[l]).time
          BY <2>2, <5>2
        <5>4. p.time <= Last(frozen[k]).time
          BY <1>2, <2>3
        <5>5. Last(frozen[l]).time \in Nat /\ frozen[l][1].time \in Nat /\ Last(frozen[k]).time \in Nat
          BY <1>2
        <5>6. QED
          BY ONLY <1>6, <2>1, <4>1, <5>1, <5>3, <5>4, <5>5, from \in Int
      <4>2. Ahead(k, from)
        BY <1>1, <3>2, <4>1 DEF Ahead
      <4>3. QED
        BY <1>3, <4>2
    <3>3. QED
      BY <1>2, <3>1, <3>2
  <2>5. \E l \in S : \E q \in Range(frozen[l]) : y.time < q.time
    <3>1. PICK q \in Raws : y.time < q.time
      BY <2>2
    <3>2. PICK l \in 1..n : q \in Range(frozen[l])
      BY <1>2
    <3>3. CASE frozen[l][1].time <= to
      <4>1. Last(frozen[l]).time >= from
        BY <1>2, <1>6, <2>1, <3>1, <3>2
      <4>2. l \in S
        BY <1>3, <3>3, <4>1 DEF Overlaps
      <4>3. QED
        BY <3>1, <3>2, <4>2
    <3>4. CASE frozen[l][1].time > to
      <4> DEFINE N == {j \in Nat : j \in 1..n /\ frozen[j][1].time > to}
      <4>1. N \in SUBSET Nat /\ N # {}
        BY <1>1, <3>4
      <4>2. PICK j \in N : \A h \in N : j <= h
        <5> HIDE DEF N
        <5>1. QED
          BY <4>1, MinIsLeast
      <4>3. j \in 1..n /\ frozen[j][1].time > to
        BY <4>2
      <4>4. Behind(j, to)
        <5> SUFFICES ASSUME NEW h \in 1..n, frozen[h][1].time > to PROVE j <= h
          BY <1>1, <4>3 DEF Behind
        <5>1. h \in N
          BY <1>1
        <5>2. QED
          BY <4>2, <5>1
      <4>5. j \in S
        BY <1>3, <4>3, <4>4
      <4>6. frozen[j][1] \in Range(frozen[j]) /\ y.time < frozen[j][1].time
        <5>1. frozen[j][1] \in Range(frozen[j]) /\ frozen[j][1].time \in Nat
          BY <1>1, <4>3, ChunkEnds
        <5>2. QED
          BY <1>6, <2>1, <4>3, <5>1
      <4>7. QED
        BY <4>5, <4>6
    <3>5. QED
      BY <1>2, <3>2, <3>3, <3>4
  <2>6. QED
    BY <2>3, <2>4, <2>5
<1>7. S \in SUBSET (1..Len(frozen))
  BY <1>1, <1>3
<1>8. QED
  BY <1>4, <1>5, <1>6, <1>7

(* Rows that tell an interval: raw candles without a hole, with all of those    *)
(* of the interval and both neighbours of every gap that reaches into it.       *)
RowsFit(rows, from, to) ==
  /\ rows \in Seq(Candle) /\ Rising(rows) /\ Range(rows) \subseteq Raws
  /\ \A x, z \in Range(rows) : \A q \in Raws : x.time <= q.time /\ q.time <= z.time => q \in Range(rows)
  /\ \A q \in Raws : from <= q.time /\ q.time <= to => q \in Range(rows)
  /\ \A y : \A p \in Raws : \A n \in Nat \ {0} : Filled(y, p, n) /\ from <= y.time /\ y.time <= to =>
       p \in Range(rows) /\ \E q \in Range(rows) : y.time < q.time

LEMMA BlocksTell ==
  ASSUME FrozenFits, NEW from \in Int, NEW to \in Int, from <= to, NEW S, S = Blocks(from, to), NEW z, Played(z), z.time = to
  PROVE  /\ S # {} /\ S = Min(S)..Max(S)
         /\ RowsFit(FlattenSeq([i \in 1..Cardinality(S) |-> frozen[Min(S) + i - 1]]), from, to)
<1>1. PICK n \in Nat : n = Len(frozen)
  BY RawsAre
<1>2. /\ S \in SUBSET (1..n) /\ \A k, l \in S : \A m \in k..l : m \in S
      /\ \A q \in Raws : from <= q.time /\ q.time <= to => \E k \in S : q \in Range(frozen[k])
      /\ \A y : \A p \in Raws : \A d \in Nat \ {0} : Filled(y, p, d) /\ from <= y.time /\ y.time <= to =>
           (\E k \in S : p \in Range(frozen[k])) /\ \E k \in S : \E q \in Range(frozen[k]) : y.time < q.time
  BY <1>1, BlocksCover
<1>3. S # {}
  <2>1. CASE z \in Raws
    BY <1>2, <2>1
  <2>2. CASE z \notin Raws
    <3>1. PICK p \in Raws, d \in Nat \ {0} : Filled(z, p, d)
      BY <2>2 DEF Played
    <3>2. QED
      BY <1>2, <3>1
  <2>3. QED
    BY <2>1, <2>2
<1>4. Min(S) \in S /\ Max(S) \in S /\ Min(S) <= Max(S) /\ S = Min(S)..Max(S) /\ Cardinality(S) = Max(S) - Min(S) + 1
  BY <1>2, <1>3, IsInterval
<1>5. PICK a \in Nat : a = Min(S)
  BY <1>2, <1>4
<1>6. PICK b \in Nat : b = Max(S)
  BY <1>2, <1>4
<1>7. PICK c \in Nat : c = Cardinality(S)
  BY <1>4, <1>5, <1>6
<1>8. a <= b /\ S = a..b /\ c = b - a + 1 /\ a \in 1..n /\ b \in 1..n
  BY <1>2, <1>4, <1>5, <1>6, <1>7
<1>9. PICK q : q = [i \in 1..c |-> frozen[a + i - 1]]
  OBVIOUS
<1>10. /\ \A i \in 1..c : a + i - 1 \in S /\ q[i] = frozen[a + i - 1]
       /\ \A k \in S : k - a + 1 \in 1..c /\ q[k - a + 1] = frozen[k]
  <2>1. \A i \in 1..c : a + i - 1 \in S
    BY <1>8
  <2>2. \A k \in S : k - a + 1 \in 1..c /\ a + (k - a + 1) - 1 = k
    BY <1>8
  <2>3. QED
    BY <1>9, <2>1, <2>2
<1>11. \A k \in 1..n : frozen[k] \in Seq(Candle) /\ Rising(frozen[k]) /\ \A x \in Range(frozen[k]) : x \in Raws
  <2>1. \A k \in 1..n : \A x \in Range(frozen[k]) : x \in Raws
    BY <1>1, ChunkEnds
  <2>2. QED
    BY <1>1, <2>1, RawsAre DEF FrozenFits
<1>12. Pieces(q, Candle, c) /\ \A i \in 1..c : Rising(q[i])
  <2>1. \A i \in 1..c : q[i] \in Seq(Candle) /\ Rising(q[i])
    BY <1>2, <1>10, <1>11
  <2>2. q = [i \in 1..c |-> q[i]]
    BY <1>9
  <2>3. Len(q) = c
    BY <1>7, <2>2
  <2>4. QED
    BY <1>7, <2>1, <2>2, <2>3 DEF Pieces
<1>13. ASSUME NEW i \in 1..c, NEW j \in 1..c, i < j PROVE Before(q[i], q[j])
  <2>1. a + i - 1 \in 1..n /\ a + j - 1 \in 1..n /\ a + i - 1 < a + j - 1
    BY <1>2, <1>10, <1>13
  <2>2. Before(frozen[a + i - 1], frozen[a + j - 1])
    BY <1>1, <2>1 DEF FrozenFits
  <2>3. QED
    BY <1>10, <2>2
<1>14. PICK rows : rows = FlattenSeq(q)
  OBVIOUS
<1>15. Rising(rows)
  BY <1>12, <1>13, <1>14, FlattenRises
<1>16. MadeOf(rows, q, Candle, c)
  BY <1>12, <1>14, FlattenElements
<1>17. \A x : x \in Range(rows) <=> \E k \in S : x \in Range(frozen[k])
  BY <1>10, <1>16 DEF MadeOf
<1>18. rows \in Seq(Candle) /\ Range(rows) \subseteq Raws
  BY <1>2, <1>11, <1>16, <1>17 DEF MadeOf
<1>19. ASSUME NEW x \in Range(rows), NEW y \in Range(rows), NEW r \in Raws, x.time <= r.time, r.time <= y.time
       PROVE  r \in Range(rows)
  <2>1. PICK k \in S : x \in Range(frozen[k])
    BY <1>17
  <2>2. PICK l \in S : y \in Range(frozen[l])
    BY <1>17
  <2>3. PICK m \in 1..n : r \in Range(frozen[m])
    BY <1>1, ChunkEnds
  <2>4. k \in 1..n /\ l \in 1..n
    BY <1>2
  <2>5. r.time \in Nat /\ x.time \in Nat /\ y.time \in Nat
    BY <1>18, RawsAre
  <2>6. ~(m < k)
    <3> SUFFICES ASSUME m < k PROVE FALSE
      OBVIOUS
    <3>1. Before(frozen[m], frozen[k])
      BY <1>1, <2>3, <2>4 DEF FrozenFits
    <3>2. r.time < x.time
      BY <2>1, <2>3, <3>1 DEF Before
    <3>3. QED
      BY <1>19, <2>5, <3>2
  <2>7. ~(l < m)
    <3> SUFFICES ASSUME l < m PROVE FALSE
      OBVIOUS
    <3>1. Before(frozen[l], frozen[m])
      BY <1>1, <2>3, <2>4 DEF FrozenFits
    <3>2. y.time < r.time
      BY <2>2, <2>3, <3>1 DEF Before
    <3>3. QED
      BY <1>19, <2>5, <3>2
  <2>8. m \in k..l
    BY <2>4, <2>6, <2>7
  <2>9. m \in S
    BY <1>2, <2>8
  <2>10. QED
    BY <1>17, <2>3, <2>9
<1>20. RowsFit(rows, from, to)
  BY <1>2, <1>15, <1>17, <1>18, <1>19 DEF RowsFit
<1>21. rows = FlattenSeq([i \in 1..Cardinality(S) |-> frozen[Min(S) + i - 1]])
  BY <1>5, <1>7, <1>9, <1>14
<1>22. QED
  BY <1>3, <1>4, <1>20, <1>21

LEMMA Rounding ==
  ASSUME NEW a \in Int, NEW c \in Nat \ {0}
  PROVE  /\ a \div c \in Int /\ Ceiling(a, c) \in Int
         /\ \A k \in Int : (k <= a \div c <=> k * c <= a) /\ (Ceiling(a, c) <= k <=> a <= k * c)
<1>1. PICK d \in Int : d = a \div c
  BY Divided
<1>2. d * c \in Int /\ d * c <= a /\ a < d * c + c
  BY <1>1, Divided
<1>3. ASSUME NEW k \in Int PROVE k <= d <=> k * c <= a
  <2>1. k * c \in Int /\ (k <= d => k * c <= d * c) /\ (d < k => d * c + c <= k * c)
    BY EarlierLater
  <2>2. QED
    BY <1>2, <2>1
<1>4. PICK e \in Int : e = (-a) \div c
  BY Divided
<1>5. e * c \in Int /\ e * c <= -a /\ -a < e * c + c
  BY <1>4, Divided
<1>6. PICK x \in Int : x = -e
  OBVIOUS
<1>7. x * c = -(e * c)
  BY <1>6
<1>8. a <= x * c /\ x * c < a + c /\ x * c \in Int
  BY <1>5, <1>7
<1>9. ASSUME NEW k \in Int PROVE x <= k <=> a <= k * c
  <2>1. k * c \in Int /\ (x <= k => x * c <= k * c) /\ (k < x => k * c + c <= x * c)
    BY EarlierLater
  <2>2. QED
    BY <1>8, <2>1
<1>10. Ceiling(a, c) = x
  BY <1>4, <1>6 DEF Ceiling
<1>11. QED
  BY <1>1, <1>3, <1>9, <1>10

(* The bars that fill the gap between two raw candles, inside the interval.     *)
InGap(y, p, c, from, to) ==
  /\ \E k \in Nat \ {0} : y = Flatline(p, p.time + k * BarStep)
  /\ from <= y.time /\ y.time <= to /\ y.time < c.time
GapSteps(g, p, first, last) ==
  /\ g = [i \in 1..Max({0, last - first + 1}) |-> Flatline(p, p.time + (first + i - 1) * BarStep)]
Stepped(g, p, first, last) ==
  /\ g \in Seq(Candle) /\ Rising(g)
  /\ \A y : y \in Range(g) <=> \E k \in first..last : y = Flatline(p, p.time + k * BarStep)

LEMMA StepsRise ==
  ASSUME NEW g, NEW p \in Candle, NEW first \in Nat \ {0}, NEW last \in Int, GapSteps(g, p, first, last)
  PROVE  Stepped(g, p, first, last)
<1>0. BarStep \in Nat \ {0} /\ p.time \in Nat /\ p.close \in Int
  BY EvidenceAssumption DEF Candle
<1>1. PICK n \in Nat : n = Max({0, last - first + 1})
  BY GreaterOf
<1>2. n = IF 0 >= last - first + 1 THEN 0 ELSE last - first + 1
  BY <1>1, GreaterOf
<1>3. g = [i \in 1..n |-> Flatline(p, p.time + (first + i - 1) * BarStep)]
  BY <1>1 DEF GapSteps
<1>4. \A i \in 1..n : first + i - 1 \in first..last
  BY <1>2
<1>5. \A k \in first..last : k - first + 1 \in 1..n /\ first + (k - first + 1) - 1 = k
  BY <1>2
<1>6. ASSUME NEW k \in Nat PROVE Flatline(p, p.time + k * BarStep) \in Candle /\ Flatline(p, p.time + k * BarStep).time = p.time + k * BarStep
  <2>1. PICK t \in Nat : t = p.time + k * BarStep
    BY <1>0
  <2>2. Flatline(p, t) \in Candle /\ Flatline(p, t).time = t
    BY <1>0 DEF Flatline, Candle
  <2>3. QED
    BY <2>1, <2>2
<1>7. \A i \in 1..n : g[i] \in Candle /\ g[i].time = p.time + (first + i - 1) * BarStep
  <2> SUFFICES ASSUME NEW i \in 1..n PROVE g[i] \in Candle /\ g[i].time = p.time + (first + i - 1) * BarStep
    OBVIOUS
  <2>1. PICK k \in Nat : k = first + i - 1
    OBVIOUS
  <2>2. g[i] = Flatline(p, p.time + k * BarStep)
    BY <1>3, <2>1
  <2>3. QED
    BY <1>6, <2>1, <2>2
<1>8. g \in Seq(Candle) /\ Len(g) = n /\ DOMAIN g = 1..n
  <2>1. g = [i \in 1..n |-> g[i]]
    BY <1>3
  <2>2. QED
    BY <1>7, <2>1
<1>9. Rising(g)
  <2> SUFFICES ASSUME NEW i \in 1..n, NEW j \in 1..n, i < j PROVE g[i].time < g[j].time
    BY <1>8 DEF Rising
  <2>1. PICK k \in Nat : k = first + i - 1
    OBVIOUS
  <2>2. PICK l \in Nat : l = first + j - 1
    OBVIOUS
  <2>3. k < l /\ k \in Int /\ l \in Int
    BY <2>1, <2>2
  <2>4. k * BarStep + BarStep <= l * BarStep /\ k * BarStep \in Int /\ l * BarStep \in Int
    BY <1>0, <2>3, EarlierLater
  <2>5. g[i].time = p.time + k * BarStep /\ g[j].time = p.time + l * BarStep
    BY <1>7, <2>1, <2>2
  <2>6. QED
    BY <1>0, <2>4, <2>5
<1>10. ASSUME NEW y PROVE y \in Range(g) <=> \E k \in first..last : y = Flatline(p, p.time + k * BarStep)
  <2>1. y \in Range(g) <=> \E i \in 1..n : y = g[i]
    BY <1>8 DEF Range
  <2>2. ASSUME NEW i \in 1..n, y = g[i] PROVE \E k \in first..last : y = Flatline(p, p.time + k * BarStep)
    BY <1>3, <1>4, <2>2
  <2>3. ASSUME NEW k \in first..last, y = Flatline(p, p.time + k * BarStep) PROVE \E i \in 1..n : y = g[i]
    <3>1. PICK i \in 1..n : first + i - 1 = k
      BY <1>5
    <3>2. y = g[i]
      BY <1>3, <2>3, <3>1
    <3>3. QED
      BY <3>2
  <2>4. QED
    BY <2>1, <2>2, <2>3
<1>11. QED
  BY <1>8, <1>9, <1>10 DEF Stepped

LEMMA GapBarsAre ==
  ASSUME NEW p \in Candle, NEW c \in Candle, NEW from \in Int, NEW to \in Int
  PROVE  /\ GapBars(p, c, from, to) \in Seq(Candle) /\ Rising(GapBars(p, c, from, to))
         /\ \A y : y \in Range(GapBars(p, c, from, to)) <=> InGap(y, p, c, from, to)
<1>0. BarStep \in Nat \ {0} /\ p.time \in Nat /\ c.time \in Nat
  BY EvidenceAssumption DEF Candle
<1>1. PICK s \in Int : s = from - p.time
  BY <1>0
<1>2. PICK x \in Int : x = Ceiling(s, BarStep)
  BY <1>0, Rounding
<1>3. PICK u \in Int : u = Min({c.time - 1, to})
  BY <1>0, LesserOf
<1>4. PICK last \in Int : last = (u - p.time) \div BarStep
  BY <1>0, Divided
<1>5. PICK first \in Nat \ {0} : first = Max({1, x})
  BY GreaterOf
<1>6. PICK g : g = GapBars(p, c, from, to)
  OBVIOUS
<1>7. GapSteps(g, p, first, last)
  BY <1>1, <1>2, <1>3, <1>4, <1>5, <1>6 DEF GapSteps, GapBars
<1>8. /\ g \in Seq(Candle) /\ Rising(g)
      /\ \A y : y \in Range(g) <=> \E k \in first..last : y = Flatline(p, p.time + k * BarStep)
  <2>1. Stepped(g, p, first, last)
    BY <1>7, StepsRise
  <2>2. QED
    BY <2>1 DEF Stepped
<1>9. ASSUME NEW k \in Int
      PROVE  k \in first..last <=> k \in Nat \ {0} /\ from <= p.time + k * BarStep /\ p.time + k * BarStep <= to /\ p.time + k * BarStep < c.time
  <2>1. PICK t \in Int : t = k * BarStep
    BY <1>0
  <2>2. x <= k <=> s <= t
    BY <1>0, <1>2, <2>1, Rounding
  <2>3. k <= last <=> t <= u - p.time
    <3>1. u - p.time \in Int
      BY <1>0
    <3>2. QED
      BY <1>0, <1>4, <2>1, <3>1, Rounding
  <2>4. first = IF 1 >= x THEN 1 ELSE x
    BY <1>5, GreaterOf
  <2>5. u = IF c.time - 1 <= to THEN c.time - 1 ELSE to
    BY <1>0, <1>3, LesserOf
  <2>6. k \in first..last <=> k >= 1 /\ s <= t /\ t <= u - p.time
    BY <2>2, <2>3, <2>4
  <2>7. s <= t <=> from <= p.time + t
    BY <1>0, <1>1
  <2>8. t <= u - p.time <=> p.time + t <= to /\ p.time + t < c.time
    BY <1>0, <2>5
  <2>9. QED
    BY <2>1, <2>6, <2>7, <2>8
<1>10. ASSUME NEW y PROVE y \in Range(g) <=> InGap(y, p, c, from, to)
  <2>1. \A t : Flatline(p, t).time = t
    BY DEF Flatline
  <2>2. ASSUME NEW k \in first..last, y = Flatline(p, p.time + k * BarStep) PROVE InGap(y, p, c, from, to)
    BY <1>9, <2>1, <2>2 DEF InGap
  <2>3. ASSUME InGap(y, p, c, from, to) PROVE \E k \in first..last : y = Flatline(p, p.time + k * BarStep)
    <3>1. PICK k \in Nat \ {0} : y = Flatline(p, p.time + k * BarStep)
      BY <2>3 DEF InGap
    <3>2. from <= y.time /\ y.time <= to /\ y.time < c.time /\ y.time = p.time + k * BarStep
      BY <2>1, <2>3, <3>1 DEF InGap
    <3>3. k \in first..last
      BY <1>9, <3>2
    <3>4. QED
      BY <3>1, <3>3
  <2>4. QED
    BY <1>8, <2>2, <2>3
<1>11. QED
  BY <1>6, <1>8, <1>10

(* A history that has what is played in an interval and nothing else.           *)
Tells(h, from, to) ==
  /\ h \in Seq(Candle) /\ Rising(h)
  /\ \A y : y \in Range(h) <=> Played(y) /\ from <= y.time /\ y.time <= to

\* What one raw candle adds: the gap before it and, inside the interval, itself.
Own(c, from, to) == IF from <= c.time /\ c.time <= to THEN <<c>> ELSE <<>>
Piece(rows, i, from, to) ==
  IF i > 1 /\ rows[i - 1].time >= to THEN <<>>
  ELSE (IF i = 1 THEN <<>> ELSE GapBars(rows[i - 1], rows[i], from, to)) \o Own(rows[i], from, to)

LEMMA HistoryIs ==
  ASSUME NEW rows, NEW to, NEW period, NEW from, from = to - period * BarStep
  PROVE  InvalidationHistory(rows, to, period) = FlattenSeq([i \in DOMAIN rows |-> Piece(rows, i, from, to)])
BY DEF InvalidationHistory, Piece, Own

LEMMA OwnIs ==
  ASSUME NEW c \in Candle, NEW from, NEW to
  PROVE  /\ Own(c, from, to) \in Seq(Candle) /\ Rising(Own(c, from, to))
         /\ \A y : y \in Range(Own(c, from, to)) <=> y = c /\ from <= c.time /\ c.time <= to
<1>1. CASE from <= c.time /\ c.time <= to
  <2>1. PICK s : s = <<c>>
    OBVIOUS
  <2>2. s \in Seq(Candle) /\ DOMAIN s = {1} /\ s[1] = c
    BY <2>1
  <2>3. Rising(s) /\ \A y : y \in Range(s) <=> y = c
    BY <2>2 DEF Rising, Range
  <2>4. Own(c, from, to) = s
    BY <1>1, <2>1 DEF Own
  <2>5. QED
    BY <1>1, <2>2, <2>3, <2>4
<1>2. CASE ~(from <= c.time /\ c.time <= to)
  <2>1. PICK s : s = <<>>
    OBVIOUS
  <2>2. s \in Seq(Candle) /\ DOMAIN s = {}
    BY <2>1
  <2>3. Rising(s) /\ Range(s) = {}
    BY <2>2 DEF Rising, Range
  <2>4. Own(c, from, to) = s
    BY <1>2, <2>1 DEF Own
  <2>5. QED
    BY <1>2, <2>2, <2>3, <2>4
<1>3. QED
  BY <1>1, <1>2

LEMMA NothingRises == <<>> \in Seq(Candle) /\ Rising(<<>>) /\ Range(<<>>) = {}
<1>1. PICK s : s = <<>>
  OBVIOUS
<1>2. s \in Seq(Candle) /\ DOMAIN s = {}
  BY <1>1
<1>3. Rising(s) /\ Range(s) = {}
  BY <1>2 DEF Rising, Range
<1>4. QED
  BY <1>1, <1>2, <1>3

PieceHas(y, rows, i, from, to) ==
  /\ i = 1 \/ rows[i - 1].time < to
  /\ \/ y = rows[i] /\ from <= y.time /\ y.time <= to
     \/ i > 1 /\ InGap(y, rows[i - 1], rows[i], from, to)
PieceFits(s, rows, i, from, to) ==
  s \in Seq(Candle) /\ Rising(s) /\ \A y : y \in Range(s) <=> PieceHas(y, rows, i, from, to)

LEMMA PieceIs ==
  ASSUME NEW rows, NEW n \in Nat, NEW i \in 1..n, \A j \in 1..n : rows[j] \in Candle,
         NEW from \in Int, NEW to \in Int
  PROVE  PieceFits(Piece(rows, i, from, to), rows, i, from, to)
<1>1. PICK c \in Candle : c = rows[i]
  OBVIOUS
<1>2. PICK o : o = Own(c, from, to)
  OBVIOUS
<1>3. o \in Seq(Candle) /\ Rising(o) /\ \A y : y \in Range(o) <=> y = c /\ from <= c.time /\ c.time <= to
  BY <1>2, OwnIs
<1>4. CASE i = 1
  <2>1. Piece(rows, i, from, to) = <<>> \o o
    BY <1>1, <1>2, <1>4 DEF Piece
  <2>2. <<>> \o o = o
    BY <1>3, ConcatEmptySeq
  <2>3. QED
    BY <1>1, <1>3, <1>4, <2>1, <2>2 DEF PieceFits, PieceHas
<1>5. CASE i > 1 /\ rows[i - 1].time >= to
  <2>1. i - 1 \in 1..n
    BY <1>5
  <2>2. rows[i - 1].time \in Nat
    BY <2>1 DEF Candle
  <2>3. Piece(rows, i, from, to) = <<>>
    BY <1>5 DEF Piece
  <2>4. \A y : ~PieceHas(y, rows, i, from, to)
    BY <1>5, <2>2 DEF PieceHas
  <2>5. QED
    BY <2>3, <2>4, NothingRises DEF PieceFits
<1>6. CASE i > 1 /\ ~(rows[i - 1].time >= to)
  <2>1. i - 1 \in 1..n
    BY <1>6
  <2>2. PICK p \in Candle : p = rows[i - 1]
    BY <2>1
  <2>3. PICK g : g = GapBars(p, c, from, to)
    OBVIOUS
  <2>4. g \in Seq(Candle) /\ Rising(g) /\ \A y : y \in Range(g) <=> InGap(y, p, c, from, to)
    BY <2>3, GapBarsAre
  <2>5. Before(g, o)
    BY <1>3, <2>4 DEF Before, InGap
  <2>6. g \o o \in Seq(Candle) /\ Rising(g \o o) /\ Range(g \o o) = Range(g) \cup Range(o)
    BY <1>3, <2>4, <2>5, Joined
  <2>7. Piece(rows, i, from, to) = g \o o
    <3>1. i # 1
      BY <1>6
    <3>2. Piece(rows, i, from, to) = GapBars(rows[i - 1], rows[i], from, to) \o Own(rows[i], from, to)
      BY ONLY <1>6, <3>1 DEF Piece
    <3>3. QED
      BY ONLY <1>1, <1>2, <2>2, <2>3, <3>2
  <2>8. p.time < to
    BY <1>6, <2>2 DEF Candle
  <2>9. ASSUME NEW y PROVE y \in Range(g \o o) <=> PieceHas(y, rows, i, from, to)
    <3>1. y \in Range(g \o o) <=> InGap(y, p, c, from, to) \/ (y = c /\ from <= c.time /\ c.time <= to)
      BY <1>3, <2>4, <2>6
    <3>2. PieceHas(y, rows, i, from, to) <=> (y = c /\ from <= y.time /\ y.time <= to) \/ InGap(y, p, c, from, to)
      BY <1>1, <1>6, <2>2, <2>8 DEF PieceHas
    <3>3. QED
      BY <3>1, <3>2
  <2>10. QED
    BY <2>6, <2>7, <2>9 DEF PieceFits
<1>7. QED
  BY <1>4, <1>5, <1>6

LEMMA HistoryTells ==
  ASSUME FrozenFits, NEW period \in Nat, NEW to \in Nat, NEW from \in Int, from = to - period * BarStep,
         NEW rows, RowsFit(rows, from, to)
  PROVE  Tells(InvalidationHistory(rows, to, period), from, to)
<1>0. BarStep \in Nat \ {0}
  BY EvidenceAssumption
<1>1. /\ rows \in Seq(Candle) /\ Len(rows) \in Nat /\ DOMAIN rows = 1..Len(rows)
      /\ \A i \in 1..Len(rows) : rows[i] \in Range(rows) /\ rows[i] \in Candle
      /\ \A x \in Range(rows) : \E i \in 1..Len(rows) : rows[i] = x
  <2>1. rows \in Seq(Candle)
    BY DEF RowsFit
  <2>2. QED
    BY <2>1, InRange
<1>2. PICK n \in Nat : n = Len(rows)
  BY <1>1
<1>3. /\ \A i \in 1..n : rows[i] \in Range(rows) /\ rows[i] \in Candle /\ rows[i] \in Raws /\ rows[i].time \in Nat
      /\ \A i, j \in 1..n : i < j => rows[i].time < rows[j].time
  <2>1. \A i \in 1..n : rows[i] \in Range(rows) /\ rows[i] \in Candle /\ rows[i] \in Raws
    BY <1>1, <1>2 DEF RowsFit
  <2>2. \A i, j \in 1..n : i < j => rows[i].time < rows[j].time
    BY <1>1, <1>2 DEF RowsFit, Rising
  <2>3. QED
    BY <2>1, <2>2 DEF Candle
<1>4. PICK q : q = [i \in 1..n |-> Piece(rows, i, from, to)]
  OBVIOUS
<1>5. PICK h : h = FlattenSeq(q)
  OBVIOUS
<1>6. InvalidationHistory(rows, to, period) = h
  BY <1>1, <1>2, <1>4, <1>5, HistoryIs
<1>7. \A i \in 1..n : PieceFits(q[i], rows, i, from, to)
  <2> SUFFICES ASSUME NEW i \in 1..n PROVE PieceFits(q[i], rows, i, from, to)
    OBVIOUS
  <2>1. q[i] = Piece(rows, i, from, to)
    BY <1>4
  <2>2. \A j \in 1..n : rows[j] \in Candle
    BY <1>3
  <2>3. PieceFits(Piece(rows, i, from, to), rows, i, from, to)
    BY <2>2, PieceIs
  <2>4. QED
    BY <2>1, <2>3
<1>8. Pieces(q, Candle, n) /\ \A i \in 1..n : Rising(q[i])
  <2>1. \A i \in 1..n : q[i] \in Seq(Candle) /\ Rising(q[i])
    BY <1>7 DEF PieceFits
  <2>2. q = [i \in 1..n |-> q[i]]
    BY <1>4
  <2>3. Len(q) = n
    BY <2>2
  <2>4. QED
    BY <2>1, <2>2, <2>3 DEF Pieces
<1>9. ASSUME NEW i \in 1..n, NEW y, PieceHas(y, rows, i, from, to)
      PROVE  y.time <= rows[i].time /\ y.time \in Int /\ (i > 1 => rows[i - 1].time < y.time)
  <2>1. CASE y = rows[i]
    <3>1. i > 1 => rows[i - 1].time < rows[i].time
      BY <1>3
    <3>2. QED
      BY <1>3, <2>1, <3>1
  <2>2. CASE i > 1 /\ InGap(y, rows[i - 1], rows[i], from, to)
    <3>1. PICK k \in Nat \ {0} : y = Flatline(rows[i - 1], rows[i - 1].time + k * BarStep)
      BY <2>2 DEF InGap
    <3>2. y.time = rows[i - 1].time + k * BarStep /\ y.time < rows[i].time
      BY <2>2, <3>1 DEF InGap, Flatline
    <3>3. k * BarStep \in Nat \ {0} /\ rows[i - 1].time \in Nat /\ rows[i].time \in Nat
      BY <1>0, <1>3, <2>2
    <3>4. QED
      BY <3>2, <3>3
  <2>3. QED
    BY <1>9, <2>1, <2>2 DEF PieceHas
<1>10. ASSUME NEW i \in 1..n, NEW j \in 1..n, i < j PROVE Before(q[i], q[j])
  <2> SUFFICES ASSUME NEW x \in Range(q[i]), NEW y \in Range(q[j]) PROVE x.time < y.time
    BY DEF Before
  <2>1. PieceHas(x, rows, i, from, to) /\ PieceHas(y, rows, j, from, to)
    BY <1>7 DEF PieceFits
  <2>2. x.time <= rows[i].time /\ x.time \in Int /\ y.time \in Int
    BY <1>9, <2>1
  <2>3. rows[j - 1].time < y.time
    BY <1>9, <1>10, <2>1
  <2>4. rows[i].time <= rows[j - 1].time /\ rows[i].time \in Nat /\ rows[j - 1].time \in Nat
    <3>1. j - 1 \in 1..n /\ (i = j - 1 \/ i < j - 1)
      BY <1>10
    <3>2. i < j - 1 => rows[i].time < rows[j - 1].time
      BY <1>3, <3>1
    <3>3. QED
      BY <1>3, <3>1, <3>2
  <2>5. QED
    BY <2>2, <2>3, <2>4
<1>11. Rising(h)
  BY <1>5, <1>8, <1>10, FlattenRises
<1>12. MadeOf(h, q, Candle, n)
  BY <1>5, <1>8, FlattenElements
<1>13. h \in Seq(Candle) /\ \A y : y \in Range(h) <=> \E i \in 1..n : PieceHas(y, rows, i, from, to)
  BY <1>7, <1>12 DEF MadeOf, PieceFits
<1>14. ASSUME NEW y, NEW i \in 1..n, PieceHas(y, rows, i, from, to)
       PROVE  Played(y) /\ from <= y.time /\ y.time <= to
  <2>1. CASE y = rows[i] /\ from <= y.time /\ y.time <= to
    BY <1>3, <2>1 DEF Played
  <2>2. CASE i > 1 /\ InGap(y, rows[i - 1], rows[i], from, to)
    <3>1. PICK k \in Nat \ {0} : y = Flatline(rows[i - 1], rows[i - 1].time + k * BarStep)
      BY <2>2 DEF InGap
    <3>2. i - 1 \in 1..n /\ y.time < rows[i].time /\ from <= y.time /\ y.time <= to /\ y.time \in Int
      BY <1>9, <1>14, <2>2 DEF InGap
    <3>3. ASSUME NEW r \in Raws PROVE r.time <= rows[i - 1].time \/ y.time < r.time
      <4> SUFFICES ASSUME ~(r.time <= rows[i - 1].time), ~(y.time < r.time) PROVE FALSE
        OBVIOUS
      <4>1. r.time \in Nat /\ rows[i - 1].time \in Nat /\ rows[i].time \in Nat
        BY <1>3, <3>2, RawsAre
      <4>2. rows[i - 1].time <= r.time /\ r.time <= rows[i].time
        BY <3>2, <4>1
      <4>3. r \in Range(rows)
        BY <1>3, <3>2, <4>2 DEF RowsFit
      <4>4. PICK j \in 1..n : rows[j] = r
        BY <1>1, <1>2, <4>3
      <4>5. ~(j <= i - 1)
        <5>1. j < i - 1 => rows[j].time < rows[i - 1].time
          BY <1>3, <3>2
        <5>2. j = i - 1 => rows[j].time = rows[i - 1].time
          OBVIOUS
        <5>3. QED
          BY <3>2, <4>1, <4>4, <5>1, <5>2
      <4>6. ~(i <= j)
        <5>1. i < j => rows[i].time < rows[j].time
          BY <1>3
        <5>2. i = j => rows[j].time = rows[i].time
          OBVIOUS
        <5>3. QED
          BY <3>2, <4>1, <4>4, <5>1, <5>2
      <4>7. QED
        BY <4>5, <4>6
    <3>4. Filled(y, rows[i - 1], k)
      BY <1>3, <3>1, <3>2, <3>3 DEF Filled
    <3>5. QED
      BY <1>3, <3>2, <3>4 DEF Played
  <2>3. QED
    BY <1>14, <2>1, <2>2 DEF PieceHas
<1>15. ASSUME NEW y, Played(y), from <= y.time, y.time <= to
       PROVE  \E i \in 1..n : PieceHas(y, rows, i, from, to)
  <2>1. CASE y \in Raws
    <3>1. y \in Range(rows)
      BY <1>15, <2>1 DEF RowsFit
    <3>2. PICK i \in 1..n : rows[i] = y
      BY <1>1, <1>2, <3>1
    <3>3. i = 1 \/ rows[i - 1].time < to
      <4>1. i # 1 => i - 1 \in 1..n /\ i - 1 < i
        OBVIOUS
      <4>2. i # 1 => rows[i - 1].time < rows[i].time /\ rows[i - 1].time \in Nat /\ rows[i].time \in Nat
        BY <1>3, <4>1
      <4>3. QED
        BY <1>15, <3>2, <4>2
    <3>4. QED
      BY <1>15, <3>2, <3>3 DEF PieceHas
  <2>2. CASE y \notin Raws
    <3>1. PICK p \in Raws, k \in Nat \ {0} : Filled(y, p, k)
      BY <1>15, <2>2 DEF Played
    <3>2. p \in Range(rows) /\ \E r \in Range(rows) : y.time < r.time
      BY <1>15, <3>1 DEF RowsFit
    <3>3. PICK i \in 1..n : rows[i] = p
      BY <1>1, <1>2, <3>2
    <3>4. PICK r \in Range(rows) : y.time < r.time
      BY <3>2
    <3>5. PICK j \in 1..n : rows[j] = r
      BY <1>1, <1>2, <3>4
    <3>6. y.time = p.time + k * BarStep /\ k * BarStep \in Nat \ {0} /\ p.time \in Nat
      BY <1>0, <3>1, RawsAre DEF Filled, Flatline
    <3>7. i + 1 \in 1..n
      <4>1. ~(j <= i)
        <5>1. j < i => rows[j].time < rows[i].time
          BY <1>3
        <5>2. j = i => rows[j].time = rows[i].time
          OBVIOUS
        <5>3. rows[j].time \in Nat /\ rows[i].time \in Nat
          BY <1>3
        <5>4. QED
          BY <3>3, <3>4, <3>5, <3>6, <5>1, <5>2, <5>3
      <4>2. QED
        BY <4>1
    <3>8. PICK m \in 1..n : m = i + 1
      BY <3>7
    <3>9. rows[m] \in Raws /\ p.time < rows[m].time /\ rows[m].time \in Nat
      BY <1>3, <3>3, <3>8
    <3>10. y.time < rows[m].time
      <4>1. rows[m].time <= p.time \/ y.time < rows[m].time
        BY <3>1, <3>9 DEF Filled
      <4>2. QED
        BY <3>6, <3>9, <4>1
    <3>11. InGap(y, rows[m - 1], rows[m], from, to)
      <4>1. m - 1 = i
        BY <3>8
      <4>2. y = Flatline(p, p.time + k * BarStep)
        BY <3>1 DEF Filled
      <4>3. QED
        BY <1>15, <3>3, <3>10, <4>1, <4>2 DEF InGap
    <3>12. m > 1 /\ rows[m - 1].time < to
      BY <1>15, <3>3, <3>6, <3>8
    <3>13. QED
      BY <3>11, <3>12 DEF PieceHas
  <2>3. QED
    BY <2>1, <2>2
<1>16. Tells(h, from, to)
  BY <1>11, <1>13, <1>14, <1>15 DEF Tells
<1>17. QED
  BY <1>6, <1>16

(* Two histories that agree on the last candle and on the ones before it, as    *)
(* far back as any condition looks, meet the same conditions for the same       *)
(* reasons.                                                                     *)
Alike(h, H, longest) == Last(h) = Last(H) /\ \A p \in 0..longest : Preceding(h, p) = Preceding(H, p)

LEMMA Lately ==
  ASSUME NEW H \in Seq(Candle), NEW n \in Nat, n = Len(H), NEW m \in 1..n, NEW longest \in Nat \ {0},
         m = 1 \/ n - m + 1 > longest
  PROVE  Alike(SubSeq(H, m, n), H, longest)
<1>1. CASE m = 1
  <2>1. SubSeq(H, m, n) = H
    BY <1>1, SubSeqFull
  <2>2. QED
    BY <2>1 DEF Alike
<1>2. CASE m # 1
  <2>1. PICK h : h = SubSeq(H, m, n)
    OBVIOUS
  <2>2. n - m + 1 > longest /\ m <= n /\ m > 1 /\ 1 \in 1..(n - m + 1)
    BY <1>2
  <2>3. h \in Seq(Candle) /\ Len(h) = n - m + 1 /\ \A i \in 1..(n - m + 1) : h[i] = H[m + i - 1]
    <3>1. \A i \in m..n : H[i] \in Candle
      BY ElementOfSeq
    <3>2. m \in Int /\ n \in Int
      OBVIOUS
    <3>3. QED
      BY <2>1, <2>2, <3>1, <3>2, SubSeqProperties
  <2>4. Last(h) = Last(H)
    <3>1. n - m + 1 \in 1..(n - m + 1) /\ m + (n - m + 1) - 1 = n
      BY <2>2
    <3>2. QED
      BY <2>3, <3>1 DEF Last
  <2>5. ASSUME NEW p \in 0..longest PROVE Preceding(h, p) = Preceding(H, p)
    <3>1. PICK a : a = Len(h) - p
      OBVIOUS
    <3>2. PICK b : b = Len(h) - 1
      OBVIOUS
    <3>3. a \in 1..(n - m + 1) /\ b \in 1..(n - m + 1) /\ m + a - 1 = n - p /\ m + b - 1 = n - 1 /\ n - p >= 1
      BY <2>2, <2>3, <3>1, <3>2
    <3>4. Max({1, Len(h) - p}) = a
      BY <3>1, <3>3, GreaterOf
    <3>5. Max({1, Len(H) - p}) = n - p
      BY <3>3, GreaterOf
    <3>6. Preceding(h, p) = SubSeq(h, a, b) /\ Preceding(H, p) = SubSeq(H, n - p, n - 1)
      BY <3>2, <3>4, <3>5 DEF Preceding
    <3>7. SubSeq(SubSeq(H, m, n), a, b) = SubSeq(H, m + a - 1, m + b - 1)
      <4>1. n \in 1..Len(H) /\ m \in 1..Len(H)
        BY <2>2
      <4>2. QED
        BY <3>3, <4>1, SubSeqOfSubSeq
    <3>8. QED
      BY <2>1, <3>3, <3>6, <3>7
  <2>6. QED
    BY <2>1, <2>4, <2>5 DEF Alike
<1>3. QED
  BY <1>1, <1>2

LEMMA FiniteIsBounded ==
  ASSUME NEW S \in SUBSET Nat, IsFiniteSet(S)
  PROVE  \E b \in Nat : \A x \in S : x <= b
<1> DEFINE Wrong == {Cardinality(T) : T \in {U \in SUBSET S : ~\E b \in Nat : \A x \in U : x <= b}}
<1> SUFFICES ASSUME ~\E b \in Nat : \A x \in S : x <= b PROVE FALSE
  OBVIOUS
<1>1. \A T \in SUBSET S : IsFiniteSet(T) /\ Cardinality(T) \in Nat
  BY FS_Subset, FS_CardinalityType
<1>2. Wrong \in SUBSET Nat /\ Wrong # {}
  <2>1. S \in {U \in SUBSET S : ~\E b \in Nat : \A x \in U : x <= b}
    OBVIOUS
  <2>2. QED
    BY <1>1, <2>1
<1>3. PICK c \in Wrong : \A d \in Wrong : c <= d
  <2> HIDE DEF Wrong
  <2>1. QED
    BY <1>2, MinIsLeast
<1>4. PICK T \in SUBSET S : c = Cardinality(T) /\ ~\E b \in Nat : \A x \in T : x <= b
  BY <1>3
<1>5. T # {}
  BY <1>4
<1>6. PICK t \in T : TRUE
  BY <1>5
<1>7. Cardinality(T \ {t}) = c - 1 /\ T \ {t} \in SUBSET S /\ Cardinality(T) \in Nat
  BY <1>1, <1>4, FS_RemoveElement
<1>8. Cardinality(T \ {t}) \notin Wrong
  <2>1. c \in Nat /\ Cardinality(T \ {t}) = c - 1
    BY <1>4, <1>7
  <2>2. ~(c <= c - 1)
    BY ONLY <2>1
  <2> HIDE DEF Wrong
  <2>3. QED
    BY <1>3, <2>1, <2>2
<1>9. PICK b \in Nat : \A x \in T \ {t} : x <= b
  <2>1. ~(T \ {t} \in {U \in SUBSET S : ~\E b \in Nat : \A x \in U : x <= b})
    BY <1>8
  <2>2. QED
    BY <1>7, <2>1
<1>10. t \in Nat
  OBVIOUS
<1>11. PICK e \in Nat : e = IF b >= t THEN b ELSE t
  BY <1>10
<1>12. \A x \in T : x <= e
  <2> SUFFICES ASSUME NEW x \in T PROVE x <= e
    OBVIOUS
  <2>1. x \in Nat /\ (x = t \/ x <= b)
    BY <1>9
  <2>2. QED
    BY <1>10, <1>11, <2>1
<1>13. QED
  BY <1>4, <1>12

LEMMA ImageIsFinite ==
  ASSUME NEW S, IsFiniteSet(S), NEW T, NEW f, f = [x \in S |-> f[x]],
         \A y : y \in T <=> \E x \in S : y = f[x]
  PROVE  IsFiniteSet(T)
<1>1. f \in [S -> T] /\ \A y \in T : \E x \in S : f[x] = y
  OBVIOUS
<1>2. f \in Surjection(S, T)
  BY <1>1, Fun_IsSurj
<1>3. QED
  BY <1>2, FS_Surjection

LEMMA PeriodIs ==
  ASSUME NEW g \in Groups
  PROVE  /\ Period(g) \in Nat \ {0}
         /\ \A l \in Leaves(g) : l.period \in Nat /\ l.period <= Period(g)
<1>1. /\ DOMAIN g.items = 1..Len(g.items) /\ Len(g.items) \in Nat
      /\ \A i \in DOMAIN g.items :
           LET n == g.items[i] IN
           /\ IsGroup(n) => /\ Len(n.items) \in Nat /\ DOMAIN n.items = 1..Len(n.items)
                            /\ \A j \in DOMAIN n.items : n.items[j].period \in Nat
           /\ ~IsGroup(n) => n.period \in Nat
  BY EvidenceAssumption DEF Itemised
<1>2. ASSUME NEW i \in DOMAIN g.items
      PROVE  IsFiniteSet(LeavesOf(g.items[i])) /\ \A l \in LeavesOf(g.items[i]) : l.period \in Nat
  <2>1. PICK n : n = g.items[i]
    OBVIOUS
  <2>2. CASE IsGroup(n)
    <3>1. /\ Len(n.items) \in Nat /\ DOMAIN n.items = 1..Len(n.items)
          /\ \A j \in DOMAIN n.items : n.items[j].period \in Nat
      BY <1>1, <2>1, <2>2
    <3>2. Enabled(n.items) \in SUBSET (1..Len(n.items))
      BY <3>1 DEF Enabled
    <3>3. IsFiniteSet(1..Len(n.items))
      BY <3>1, FS_Interval
    <3>4. IsFiniteSet(Enabled(n.items))
      BY <3>2, <3>3, FS_Subset
    <3>5. IsFiniteSet({n.items[j] : j \in Enabled(n.items)})
      <4>1. PICK f : f = [j \in Enabled(n.items) |-> n.items[j]]
        OBVIOUS
      <4>2. PICK T : T = {n.items[j] : j \in Enabled(n.items)}
        OBVIOUS
      <4>3. f = [j \in Enabled(n.items) |-> f[j]] /\ \A y : y \in T <=> \E j \in Enabled(n.items) : y = f[j]
        BY <4>1, <4>2
      <4>4. IsFiniteSet(T)
        BY <3>4, <4>3, ImageIsFinite
      <4>5. QED
        BY <4>2, <4>4
    <3>6. LeavesOf(n) = {n.items[j] : j \in Enabled(n.items)}
      BY <2>2 DEF LeavesOf
    <3>7. QED
      BY <2>1, <3>1, <3>2, <3>5, <3>6
  <2>3. CASE ~IsGroup(n)
    <3>1. LeavesOf(n) = {n} /\ n.period \in Nat
      BY <1>1, <2>1, <2>3 DEF LeavesOf
    <3>2. QED
      BY <2>1, <3>1, FS_Singleton
  <2>4. QED
    BY <2>2, <2>3
<1>3. IsFiniteSet(Leaves(g)) /\ \A l \in Leaves(g) : l.period \in Nat
  <2>1. CASE g.on
    <3> DEFINE L == {LeavesOf(g.items[i]) : i \in Enabled(g.items)}
    <3>1. Leaves(g) = UNION L
      BY <2>1 DEF Leaves
    <3>2. Enabled(g.items) \in SUBSET (1..Len(g.items)) /\ IsFiniteSet(1..Len(g.items))
      BY <1>1, FS_Interval DEF Enabled
    <3>3. IsFiniteSet(Enabled(g.items))
      BY <3>2, FS_Subset
    <3>4. IsFiniteSet(L)
      <4>1. PICK f : f = [i \in Enabled(g.items) |-> LeavesOf(g.items[i])]
        OBVIOUS
      <4>2. f = [j \in Enabled(g.items) |-> f[j]] /\ \A y : y \in L <=> \E j \in Enabled(g.items) : y = f[j]
        BY <4>1
      <4> HIDE DEF L
      <4>3. QED
        BY <3>3, <4>2, ImageIsFinite
    <3>5. \A s \in L : IsFiniteSet(s) /\ \A l \in s : l.period \in Nat
      BY <1>1, <1>2, <3>2
    <3>6. IsFiniteSet(UNION L) /\ \A l \in UNION L : l.period \in Nat
      <4> HIDE DEF L
      <4>1. QED
        BY <3>4, <3>5, FS_UNION
    <3>7. QED
      BY <3>1, <3>6
  <2>2. CASE ~g.on
    BY <2>2, FS_EmptySet DEF Leaves
  <2>3. QED
    BY <2>1, <2>2
<1> DEFINE P == {1} \cup {l.period : l \in Leaves(g)}
<1>4. IsFiniteSet({l.period : l \in Leaves(g)}) /\ P \in SUBSET Nat
  <2>1. PICK f : f = [l \in Leaves(g) |-> l.period]
    OBVIOUS
  <2>2. PICK T : T = {l.period : l \in Leaves(g)}
    OBVIOUS
  <2>3. f = [j \in Leaves(g) |-> f[j]] /\ \A y : y \in T <=> \E j \in Leaves(g) : y = f[j]
    BY <2>1, <2>2
  <2>4. IsFiniteSet(T)
    BY <1>3, <2>3, ImageIsFinite
  <2>5. QED
    BY <1>3, <2>2, <2>4
<1>5. IsFiniteSet(P)
  BY <1>4, FS_AddElement
<1>6. PICK b \in Nat : \A x \in P : x <= b
  <2> HIDE DEF P
  <2>1. QED
    BY <1>4, <1>5, FiniteIsBounded
<1> DEFINE Q == {x \in P : x # 0}
<1>7. Q \in SUBSET (1..b) /\ Q # {}
  BY <1>4, <1>6
<1>8. Max(Q) \in Q /\ \A y \in Q : y <= Max(Q)
  <2> HIDE DEF Q
  <2>1. QED
    BY <1>7, MaxIsGreatest
<1>9. PICK x \in Q : x = Max(Q) /\ \A y \in Q : y <= x
  BY <1>8
<1>10. x \in P /\ x \in Nat \ {0} /\ \A y \in P : x >= y
  <2>1. x \in P /\ x \in Nat /\ x # 0
    BY <1>4
  <2>2. ASSUME NEW y \in P PROVE x >= y
    <3>1. y \in Nat /\ (y = 0 \/ y \in Q)
      BY <1>4
    <3>2. y = 0 \/ y <= x
      BY <1>9, <3>1
    <3>3. QED
      BY ONLY <2>1, <3>1, <3>2
  <2>3. QED
    BY <2>1, <2>2
<1>11. Max(P) \in P /\ \A y \in P : Max(P) >= y
  <2> HIDE DEF P
  <2>1. QED
    BY <1>10 DEF Max
<1>12. Max(P) \in Nat \ {0}
  BY <1>4, <1>10, <1>11
<1>13. \A l \in Leaves(g) : l.period \in Nat /\ l.period <= Max(P)
  BY <1>3, <1>4, <1>11, <1>12
<1>14. QED
  BY <1>12, <1>13 DEF Period

LEMMA VisitSame ==
  ASSUME NEW g \in Groups, NEW h, NEW H, Alike(h, H, Period(g))
  PROVE  Visit(g, h) = Visit(g, H)
<1>1. /\ Period(g) \in Nat
      /\ \A l \in Leaves(g) : l.period \in 0..Period(g)
  <2>1. /\ Period(g) \in Nat \ {0}
        /\ \A l \in Leaves(g) : l.period \in Nat /\ l.period <= Period(g)
    BY PeriodIs
  <2>2. QED
    BY ONLY <2>1
<1>2. ASSUME NEW l \in Leaves(g), NEW path PROVE LeafMatch(l, h, path) = LeafMatch(l, H, path)
  <2>1. Last(h) = Last(H) /\ Preceding(h, l.period) = Preceding(H, l.period)
    BY <1>1 DEF Alike
  <2>2. Met(l, h) <=> Met(l, H)
    BY <2>1 DEF Met
  <2>3. QED
    BY <2>1, <2>2 DEF LeafMatch
<1>3. CASE ~g.on
  <2>1. Visit(g, h) = <<>> /\ Visit(g, H) = <<>>
    BY <1>3 DEF Visit, Gathered, Enough
  <2>2. QED
    BY <2>1
<1>4. CASE g.on
  <2>1. ASSUME NEW i \in DOMAIN g.items
        PROVE  NodeVisit(g.items[i], h, <<i>>) = NodeVisit(g.items[i], H, <<i>>)
    <3>1. PICK n : n = g.items[i]
      OBVIOUS
    <3>2. CASE ~n.on
      <4>1. \A q, p : NodeVisit(n, q, p) = <<>>
        BY <3>2 DEF NodeVisit, LeavesVisit, LeafMatch, Gathered, Enough
      <4>2. QED
        BY <3>1, <4>1
    <3>3. CASE n.on
      <4>1. \A l \in LeavesOf(n) : l \in Leaves(g)
        BY <1>4, <3>1, <3>3 DEF Leaves, Enabled
      <4>2. CASE ~IsGroup(n)
        <5>1. n \in Leaves(g)
          BY <4>1, <4>2 DEF LeavesOf
        <5>2. QED
          BY <1>2, <3>1, <4>2, <5>1 DEF NodeVisit
      <4>3. CASE IsGroup(n)
        <5>1. ASSUME NEW j \in DOMAIN n.items
              PROVE  LeafMatch(n.items[j], h, Append(<<i>>, j)) = LeafMatch(n.items[j], H, Append(<<i>>, j))
          <6>1. CASE ~n.items[j].on
            BY <6>1 DEF LeafMatch
          <6>2. CASE n.items[j].on
            <7>1. n.items[j] \in Leaves(g)
              BY <4>1, <4>3, <6>2 DEF LeavesOf, Enabled
            <7>2. QED
              BY <1>2, <7>1
          <6>3. QED
            BY <6>1, <6>2
        <5>2. [j \in DOMAIN n.items |-> LeafMatch(n.items[j], h, Append(<<i>>, j))]
              = [j \in DOMAIN n.items |-> LeafMatch(n.items[j], H, Append(<<i>>, j))]
          BY <5>1
        <5>3. LeavesVisit(n, h, <<i>>) = LeavesVisit(n, H, <<i>>)
          BY <5>2 DEF LeavesVisit
        <5>4. QED
          BY <3>1, <4>3, <5>3 DEF NodeVisit
      <4>4. QED
        BY <4>2, <4>3
    <3>4. QED
      BY <3>2, <3>3
  <2>2. [i \in DOMAIN g.items |-> NodeVisit(g.items[i], h, <<i>>)] = [i \in DOMAIN g.items |-> NodeVisit(g.items[i], H, <<i>>)]
    BY <2>1
  <2>3. QED
    BY <2>2 DEF Visit
<1>5. QED
  BY <1>3, <1>4

LEMMA EnoughIsSome ==
  ASSUME NEW g, Itemised(g), NEW met, Enough(g, met)
  PROVE  met # {}
<1> SUFFICES ASSUME met = {} PROVE FALSE
  OBVIOUS
<1>1. Cardinality(met) = 0
  BY FS_EmptySet
<1>2. PICK E : E = Enabled(g.items)
  OBVIOUS
<1>3. PICK n \in Nat : n = Len(g.items) /\ DOMAIN g.items = 1..n
  BY DEF Itemised
<1>4. IsFiniteSet(E)
  <2>1. E \in SUBSET (1..n)
    BY <1>2, <1>3 DEF Enabled
  <2>2. IsFiniteSet(1..n)
    BY FS_Interval
  <2>3. QED
    BY ONLY <2>1, <2>2, FS_Subset
<1>5. E # {} /\ Holds(g, Cardinality(E), 0)
  BY <1>1, <1>2 DEF Enough
<1>6. Cardinality(E) # 0
  BY <1>4, <1>5, FS_EmptySet
<1>7. Max({1, g.min}) \in Int /\ Max({1, g.min}) >= 1
  <2>1. PICK m \in Int : m = g.min
    BY DEF Itemised
  <2>2. Max({1, m}) = IF 1 >= m THEN 1 ELSE m
    BY GreaterOf
  <2>3. QED
    BY <2>1, <2>2
<1>8. QED
  BY <1>5, <1>6, <1>7 DEF Holds

(* What describes an exit: matches of conditions there are.                     *)
Matches(h) ==
  [code : Supported \cup {"other"}, path : Seq(Nat), close : {Last(h).close}, baseline : {<<>>} \cup {Preceding(h, n) : n \in Nat}]

LEMMA LeafMatches ==
  ASSUME NEW l, l.period \in Nat, NEW h, NEW path \in Seq(Nat)
  PROVE  LeafMatch(l, h, path) \in Seq(Matches(h)) /\ (LeafMatch(l, h, path) # <<>> <=> l.on /\ Met(l, h))
<1>1. PICK r : r = [code |-> IF l.type \in Supported THEN l.type ELSE "other", path |-> path, close |-> Last(h).close,
                    baseline |-> IF l.type = "volume" THEN Preceding(h, l.period) ELSE <<>>]
  OBVIOUS
<1>2. r \in Matches(h)
  BY <1>1 DEF Matches
<1>3. <<r>> \in Seq(Matches(h)) /\ <<r>> # <<>> /\ <<>> \in Seq(Matches(h))
  BY <1>2
<1>4. LeafMatch(l, h, path) = IF l.on /\ Met(l, h) THEN <<r>> ELSE <<>>
  BY <1>1 DEF LeafMatch
<1>5. QED
  BY <1>3, <1>4

\* A group gathers something exactly when enough of its parts do.
Gathers(s, g, results, S) ==
  s \in Seq(S) /\ (s # <<>> <=> Enough(g, {i \in DOMAIN results : results[i] # <<>>}))

LEMMA GatheredSome ==
  ASSUME NEW g, Itemised(g), NEW S, NEW n, NEW results, Pieces(results, S, n)
  PROVE  Gathers(Gathered(g, results), g, results, S)
<1>1. n \in Nat /\ DOMAIN results = 1..n /\ \A i \in 1..n : results[i] \in Seq(S)
  BY DEF Pieces
<1>2. PICK met : met = {i \in DOMAIN results : results[i] # <<>>}
  OBVIOUS
<1>3. CASE Enough(g, met)
  <2>1. PICK s : s = FlattenSeq(results)
    OBVIOUS
  <2>2. MadeOf(s, results, S, n)
    BY <2>1, FlattenElements
  <2>3. met # {}
    BY <1>3, EnoughIsSome
  <2>4. PICK i \in 1..n : results[i] # <<>>
    BY <1>1, <1>2, <2>3
  <2>5. results[i] \in Seq(S)
    BY <1>1
  <2>6. Len(results[i]) \in Nat /\ Len(results[i]) # 0
    BY <2>4, <2>5, EmptySeq, LenProperties
  <2>7. results[i][1] \in Range(results[i])
    <3>1. 1 \in 1..Len(results[i])
      BY <2>6
    <3>2. QED
      BY <2>5, <3>1, InRange
  <2>8. s \in Seq(S) /\ results[i][1] \in Range(s)
    BY <2>2, <2>7 DEF MadeOf
  <2>9. s # <<>>
    <3>1. \E j \in 1..Len(s) : s[j] = results[i][1]
      BY <2>8, InRange
    <3>2. QED
      BY <3>1
  <2>10. Gathered(g, results) = s
    BY <1>2, <1>3, <2>1 DEF Gathered
  <2>11. QED
    BY <1>2, <1>3, <2>8, <2>9, <2>10 DEF Gathers
<1>4. CASE ~Enough(g, met)
  <2>1. Gathered(g, results) = <<>>
    BY <1>2, <1>4 DEF Gathered
  <2>2. QED
    BY <1>2, <1>4, <2>1 DEF Gathers
<1>5. QED
  BY <1>3, <1>4

LEMMA LeavesTell ==
  ASSUME NEW g, Itemised(g), \A j \in DOMAIN g.items : g.items[j].period \in Nat, NEW h, NEW path \in Seq(Nat)
  PROVE  LeavesVisit(g, h, path) \in Seq(Matches(h)) /\ (LeavesVisit(g, h, path) # <<>> <=> LeavesMet(g, h))
<1>1. PICK n \in Nat : n = Len(g.items) /\ DOMAIN g.items = 1..n
  BY DEF Itemised
<1>2. PICK q : q = [i \in 1..n |-> LeafMatch(g.items[i], h, Append(path, i))]
  OBVIOUS
<1>3. \A i \in 1..n : q[i] \in Seq(Matches(h)) /\ (q[i] # <<>> <=> g.items[i].on /\ Met(g.items[i], h))
  <2> SUFFICES ASSUME NEW i \in 1..n PROVE q[i] \in Seq(Matches(h)) /\ (q[i] # <<>> <=> g.items[i].on /\ Met(g.items[i], h))
    OBVIOUS
  <2>1. PICK l : l = g.items[i]
    OBVIOUS
  <2>2. PICK p \in Seq(Nat) : p = Append(path, i)
    <3>1. i \in Nat
      OBVIOUS
    <3>2. QED
      BY ONLY <3>1, AppendProperties
  <2>3. l.period \in Nat
    BY <1>1, <2>1
  <2>4. LeafMatch(l, h, p) \in Seq(Matches(h)) /\ (LeafMatch(l, h, p) # <<>> <=> l.on /\ Met(l, h))
    BY ONLY <2>3, LeafMatches
  <2>5. QED
    BY <1>2, <2>1, <2>2, <2>4
<1>4. Pieces(q, Matches(h), n)
  BY <1>2, <1>3 DEF Pieces
<1>5. PICK S : S = Matches(h)
  OBVIOUS
<1>6. Gathers(Gathered(g, q), g, q, S)
  BY <1>4, <1>5, GatheredSome
<1>7. {i \in DOMAIN q : q[i] # <<>>} = {i \in Enabled(g.items) : Met(g.items[i], h)}
  BY <1>1, <1>2, <1>3 DEF Enabled
<1>8. LeavesVisit(g, h, path) = Gathered(g, q)
  BY <1>1, <1>2 DEF LeavesVisit
<1>9. QED
  BY <1>5, <1>6, <1>7, <1>8 DEF Gathers, LeavesMet

LEMMA VisitTells ==
  ASSUME NEW g \in Groups, NEW h
  PROVE  /\ Visit(g, h) # <<>> <=> GroupMet(g, h)
         /\ Visit(g, h) # Unavailable
         /\ GroupMet(g, h) => Leaves(g) # {}
<1>1. /\ Itemised(g)
      /\ \A i \in DOMAIN g.items :
           LET n == g.items[i] IN
           /\ IsGroup(n) => Itemised(n) /\ \A j \in DOMAIN n.items : n.items[j].period \in Nat
           /\ ~IsGroup(n) => n.period \in Nat
  BY EvidenceAssumption
<1>2. PICK m \in Nat : m = Len(g.items) /\ DOMAIN g.items = 1..m
  BY <1>1 DEF Itemised
<1>3. PICK q : q = [i \in 1..m |-> NodeVisit(g.items[i], h, <<i>>)]
  OBVIOUS
<1>4. PICK S : S = Matches(h)
  OBVIOUS
<1>5. \A i \in 1..m : q[i] \in Seq(S) /\ (q[i] # <<>> <=> g.items[i].on /\ NodeMet(g.items[i], h))
  <2> SUFFICES ASSUME NEW i \in 1..m PROVE q[i] \in Seq(S) /\ (q[i] # <<>> <=> g.items[i].on /\ NodeMet(g.items[i], h))
    OBVIOUS
  <2>1. PICK n : n = g.items[i]
    OBVIOUS
  <2>2. PICK p \in Seq(Nat) : p = <<i>>
    <3>1. i \in Nat
      OBVIOUS
    <3>2. <<i>> \in Seq(Nat)
      BY ONLY <3>1
    <3>3. QED
      BY <3>2
  <2>3. NodeVisit(n, h, p) \in Seq(S) /\ (NodeVisit(n, h, p) # <<>> <=> n.on /\ NodeMet(n, h))
    <3>1. CASE IsGroup(n)
      <4>1. Itemised(n) /\ \A j \in DOMAIN n.items : n.items[j].period \in Nat
        BY <1>1, <1>2, <2>1, <3>1
      <4>2. LeavesVisit(n, h, p) \in Seq(Matches(h)) /\ (LeavesVisit(n, h, p) # <<>> <=> LeavesMet(n, h))
        BY ONLY <4>1, LeavesTell
      <4>3. LeavesMet(n, h) => n.on
        BY DEF LeavesMet, Enough
      <4>4. QED
        BY <1>4, <3>1, <4>2, <4>3 DEF NodeVisit, NodeMet
    <3>2. CASE ~IsGroup(n)
      <4>1. n.period \in Nat
        BY <1>1, <1>2, <2>1, <3>2
      <4>2. LeafMatch(n, h, p) \in Seq(Matches(h)) /\ (LeafMatch(n, h, p) # <<>> <=> n.on /\ Met(n, h))
        BY ONLY <4>1, LeafMatches
      <4>3. QED
        BY <1>4, <3>2, <4>2 DEF NodeVisit, NodeMet
    <3>3. QED
      BY <3>1, <3>2
  <2>4. QED
    BY <1>3, <2>1, <2>2, <2>3
<1>6. Pieces(q, S, m)
  BY <1>3, <1>5 DEF Pieces
<1>7. Gathers(Gathered(g, q), g, q, S)
  BY <1>1, <1>6, GatheredSome
<1>8. {i \in DOMAIN q : q[i] # <<>>} = {i \in Enabled(g.items) : NodeMet(g.items[i], h)}
  BY <1>2, <1>3, <1>5 DEF Enabled
<1>9. Visit(g, h) = Gathered(g, q)
  BY <1>2, <1>3 DEF Visit
<1>10. Visit(g, h) \in Seq(S) /\ (Visit(g, h) # <<>> <=> GroupMet(g, h))
  BY <1>7, <1>8, <1>9 DEF Gathers, GroupMet
<1>11. Visit(g, h) # Unavailable
  <2> SUFFICES ASSUME Visit(g, h) = Unavailable PROVE FALSE
    OBVIOUS
  <2>1. PICK u : u = Unavailable
    OBVIOUS
  <2>2. Len(u) = 1 /\ u[1].code = "unknown"
    BY <2>1 DEF Unavailable
  <2>3. u \in Seq(S) /\ 1 \in 1..Len(u)
    BY <1>10, <2>1, <2>2
  <2>4. u[1] \in S
    BY ONLY <2>3, ElementOfSeq
  <2>5. QED
    BY <1>4, <2>2, <2>4 DEF Matches, Supported
<1>12. ASSUME GroupMet(g, h) PROVE Leaves(g) # {}
  <2>1. PICK met : met = {i \in Enabled(g.items) : NodeMet(g.items[i], h)}
    OBVIOUS
  <2>2. Enough(g, met) /\ g.on
    BY <1>12, <2>1 DEF GroupMet, Enough
  <2>3. met # {}
    BY <1>1, <2>2, EnoughIsSome
  <2>4. PICK i \in Enabled(g.items) : NodeMet(g.items[i], h)
    BY <2>1, <2>3
  <2>5. PICK n : n = g.items[i]
    OBVIOUS
  <2>6. LeavesOf(n) # {}
    <3>1. CASE IsGroup(n)
      <4>1. Itemised(n) /\ LeavesMet(n, h)
        BY <1>1, <2>4, <2>5, <3>1 DEF NodeMet, Enabled
      <4>2. PICK some : some = {j \in Enabled(n.items) : Met(n.items[j], h)}
        OBVIOUS
      <4>3. Enough(n, some)
        BY <4>1, <4>2 DEF LeavesMet
      <4>4. some # {}
        BY <4>1, <4>3, EnoughIsSome
      <4>5. QED
        BY <3>1, <4>2, <4>4 DEF LeavesOf
    <3>2. CASE ~IsGroup(n)
      BY <3>2 DEF LeavesOf
    <3>3. QED
      BY <3>1, <3>2
  <2>7. QED
    BY <2>2, <2>5, <2>6 DEF Leaves
<1>13. QED
  BY <1>10, <1>11, <1>12

(* An exit is at some candle the engine saw, where what it had seen so far met  *)
(* the group; what it recorded is what it saw.                                  *)
ExitAt(exit, n, H) ==
  /\ exit.time = seen[n].time /\ exit.price = seen[n].close
  /\ GroupMet(group, H) /\ exit.why = Described(group, H)
  /\ exit.saved = IF version = "saving" THEN exit.why ELSE <<>>
ExitFits(exit) == \E n \in 1..Len(seen) : ExitAt(exit, n, SubSeq(seen, 1, n))
Explainable ==
  \/ version = "saving"
  \/ version = "restorable" /\ Period(group) <= MaxPeriod /\ \A l \in Leaves(group) : l.type \in Supported
Reason(exit) == IF Explainable THEN exit.why ELSE Unavailable

LEMMA SoFar ==
  ASSUME SeenFits, NEW n \in 1..Len(seen), NEW m \in 1..n
  PROVE  /\ Len(seen) \in Nat /\ n \in Nat /\ m \in Nat /\ n - m + 1 \in Nat
         /\ SubSeq(seen, m, n) \in Seq(Candle) /\ Len(SubSeq(seen, m, n)) = n - m + 1
         /\ \A i \in 1..(n - m + 1) : SubSeq(seen, m, n)[i] = seen[m + i - 1] /\ m + i - 1 \in m..n
<1>1. seen \in Seq(Candle) /\ Len(seen) \in Nat
  BY LenProperties DEF SeenFits
<1>2. n \in Int /\ m \in Int /\ n \in Nat /\ m \in Nat /\ m >= 1 /\ m <= n /\ n <= Len(seen) /\ n - m + 1 \in Nat
  BY <1>1
<1>3. \A i \in m..n : seen[i] \in Candle
  <2> SUFFICES ASSUME NEW i \in m..n PROVE seen[i] \in Candle
    OBVIOUS
  <2>1. i \in 1..Len(seen)
    BY <1>1, <1>2
  <2>2. QED
    BY <1>1, <2>1, ElementOfSeq
<1>4. SubSeq(seen, m, n) \in Seq(Candle) /\ Len(SubSeq(seen, m, n)) = (IF m <= n THEN n - m + 1 ELSE 0)
      /\ \A i \in 1..(n - m + 1) : SubSeq(seen, m, n)[i] = seen[m + i - 1]
  BY <1>2, <1>3, SubSeqProperties
<1>5. \A i \in 1..(n - m + 1) : m + i - 1 \in m..n
  BY ONLY <1>2
<1>6. QED
  BY <1>1, <1>2, <1>4, <1>5

(* What the engine saw from a moment on is what an interval that ends with its  *)
(* last candle tells.                                                           *)
LEMMA SeenTells ==
  ASSUME FrozenFits, SeenFits, NEW n \in 1..Len(seen), NEW from \in Int, from <= seen[n].time,
         NEW m \in 1..n, seen[m].time >= from, \A j \in 1..n : seen[j].time >= from => m <= j
  PROVE  Tells(SubSeq(seen, m, n), from, seen[n].time)
<1>1. PICK k : k = SubSeq(seen, m, n)
  OBVIOUS
<1>2. /\ Len(seen) \in Nat /\ n \in Nat /\ m \in Nat /\ n - m + 1 \in Nat
      /\ k \in Seq(Candle) /\ Len(k) = n - m + 1
      /\ \A i \in 1..(n - m + 1) : k[i] = seen[m + i - 1] /\ m + i - 1 \in m..n
  BY <1>1, SoFar
<1>3. /\ seen \in Seq(Candle) /\ DOMAIN seen = 1..Len(seen)
      /\ \A i \in 1..Len(seen) : seen[i] \in Range(seen) /\ seen[i] \in Candle /\ seen[i].time \in Nat
      /\ \A i, j \in 1..Len(seen) : i < j => seen[i].time < seen[j].time
  <2>1. seen \in Seq(Candle) /\ Rising(seen)
    BY DEF SeenFits
  <2>2. DOMAIN seen = 1..Len(seen) /\ \A i \in 1..Len(seen) : seen[i] \in Range(seen) /\ seen[i] \in Candle
    BY <2>1, InRange
  <2>3. QED
    BY <2>1, <2>2 DEF Rising, Candle
<1>4. Rising(k)
  <2> SUFFICES ASSUME NEW i \in DOMAIN k, NEW j \in DOMAIN k, i < j PROVE k[i].time < k[j].time
    BY DEF Rising
  <2>1. i \in 1..(n - m + 1) /\ j \in 1..(n - m + 1)
    BY <1>2, LenProperties
  <2>2. m + i - 1 \in 1..Len(seen) /\ m + j - 1 \in 1..Len(seen) /\ m + i - 1 < m + j - 1
    <3>1. m + i - 1 \in m..n /\ m + j - 1 \in m..n
      BY <1>2, <2>1
    <3>2. n <= Len(seen) /\ m >= 1 /\ Len(seen) \in Nat /\ n \in Nat /\ m \in Nat
      BY <1>2
    <3>3. i \in Nat /\ j \in Nat
      BY <1>2, <2>1
    <3>4. QED
      BY ONLY <3>1, <3>2, <3>3, i < j
  <2>3. QED
    BY <1>2, <1>3, <2>1, <2>2
<1>5. ASSUME NEW y, y \in Range(k) PROVE Played(y) /\ from <= y.time /\ y.time <= seen[n].time
  <2>1. PICK i \in 1..(n - m + 1) : k[i] = y
    BY <1>2, <1>5, InRange
  <2>2. PICK j \in m..n : j = m + i - 1 /\ y = seen[j]
    BY <1>2, <2>1
  <2>3. j \in 1..Len(seen) /\ m \in 1..Len(seen) /\ (j = m \/ m < j) /\ (j = n \/ j < n)
    BY <1>2
  <2>4. y.time \in Nat /\ seen[m].time \in Nat /\ seen[n].time \in Nat /\ y \in Range(seen)
    BY <1>3, <2>2, <2>3
  <2>5. seen[m].time <= y.time
    BY <1>3, <2>2, <2>3, <2>4
  <2>6. y.time <= seen[n].time
    <3>1. CASE j = n
      BY <2>2, <2>4, <3>1
    <3>2. CASE j < n
      <4>1. seen[j].time < seen[n].time
        BY <1>3, <2>3, <3>2
      <4>2. QED
        BY <2>2, <2>4, <4>1
    <3>3. QED
      BY <2>3, <3>1, <3>2
  <2>7. from <= y.time
    BY <2>4, <2>5
  <2>8. Played(y)
    BY <2>4 DEF SeenFits
  <2>9. QED
    BY <2>6, <2>7, <2>8
<1>6. ASSUME NEW y, Played(y), from <= y.time, y.time <= seen[n].time PROVE y \in Range(k)
  <2>1. y.time \in Nat /\ reader.previous.time \in Int
    <3>1. y.time \in Nat
      BY <1>6, Based
    <3>2. reader.previous = seen[Len(seen)] /\ Len(seen) \in 1..Len(seen)
      <4>1. seen # <<>>
        BY <1>2
      <4>2. QED
        BY <1>2, <4>1 DEF SeenFits
    <3>3. QED
      BY <1>3, <3>1, <3>2
  <2>2. seen[n].time \in Nat /\ seen[n].time <= reader.previous.time
    BY <1>3 DEF SeenFits
  <2>3. y \in Range(seen)
    <3>1. y.time <= reader.previous.time
      BY <1>6, <2>1, <2>2
    <3>2. QED
      BY <1>6, <3>1 DEF SeenFits
  <2>4. PICK j \in 1..Len(seen) : seen[j] = y
    BY <1>3, <2>3, InRange
  <2>5. j \in Nat /\ j <= n
    <3>1. ~(n < j)
      <4> SUFFICES ASSUME n < j PROVE FALSE
        OBVIOUS
      <4>1. seen[n].time < seen[j].time
        BY <1>3
      <4>2. QED
        BY <1>6, <2>1, <2>2, <2>4, <4>1
    <3>2. QED
      BY <1>2, <3>1
  <2>6. m <= j
    <3>1. j \in 1..n /\ seen[j].time >= from
      BY <1>2, <1>6, <2>1, <2>4, <2>5
    <3>2. QED
      BY <3>1
  <2>7. PICK i \in 1..(n - m + 1) : j = m + i - 1
    <3>1. j - m + 1 \in 1..(n - m + 1) /\ j = m + (j - m + 1) - 1
      BY ONLY <1>2, <2>5, <2>6
    <3>2. QED
      BY <3>1
  <2>8. k[i] = y /\ i \in 1..Len(k)
    BY <1>2, <2>4, <2>7
  <2>9. QED
    BY <1>2, <2>8, InRange
<1>7. QED
  BY <1>1, <1>2, <1>4, <1>5, <1>6 DEF Tells

(* An interval begins with the first candle seen, or reaches back further than  *)
(* any condition does: what it tells is what the engine saw.                    *)
LEMMA ToldIsSeen ==
  ASSUME FrozenFits, SeenFits, NEW n \in 1..Len(seen), NEW longest \in Nat \ {0}, NEW from \in Int,
         from = seen[n].time - longest * BarStep, NEW h, Tells(h, from, seen[n].time)
  PROVE  Alike(h, SubSeq(seen, 1, n), longest) /\ h # <<>>
<1>1. BarStep \in Nat \ {0} /\ longest * BarStep \in Nat
  <2>1. BarStep \in Nat \ {0}
    BY EvidenceAssumption
  <2>2. longest * BarStep \in Int /\ 0 * BarStep <= longest * BarStep
    BY <2>1, EarlierLater
  <2>3. QED
    BY <2>1, <2>2
<1>2. seen \in Seq(Candle) /\ Len(seen) \in Nat /\ n \in Nat
  BY LenProperties DEF SeenFits
<1>3. \A j \in 1..Len(seen) : seen[j].time \in Nat
  <2>1. \A j \in 1..Len(seen) : seen[j] \in Candle
    BY <1>2, ElementOfSeq
  <2>2. QED
    BY <2>1 DEF Candle
<1>4. PICK t \in Nat : t = seen[n].time
  BY <1>3
<1>5. from <= t
  BY <1>1, <1>4
<1>6. PICK m \in 1..n : seen[m].time >= from /\ \A j \in 1..n : seen[j].time >= from => m <= j
  <2> DEFINE L == {j \in 1..n : seen[j].time >= from}
  <2>1. L \in SUBSET Nat /\ n \in L
    BY <1>2, <1>4, <1>5
  <2>2. PICK m : m = Min(L)
    OBVIOUS
  <2>3. m \in L /\ \A y \in L : m <= y
    <3> HIDE DEF L
    <3>1. QED
      BY <2>1, <2>2, MinIsLeast
  <2>4. QED
    BY <2>3
<1>7. PICK k : k = SubSeq(seen, m, n)
  OBVIOUS
<1>8. Tells(k, from, seen[n].time)
  BY <1>4, <1>5, <1>6, <1>7, SeenTells
<1>9. h = k
  <2>1. Range(h) = Range(k)
    BY <1>8 DEF Tells
  <2>2. h \in Seq(Candle) /\ Rising(h) /\ k \in Seq(Candle) /\ Rising(k)
    BY <1>8 DEF Tells
  <2>3. QED
    BY ONLY <2>1, <2>2, SameSequence
<1>10. m = 1 \/ n - m + 1 > longest
  <2> SUFFICES ASSUME m # 1 PROVE n - m + 1 > longest
    OBVIOUS
  <2>1. PICK b \in 1..Len(seen) : b = m - 1
    BY <1>2
  <2>2. PICK d \in Nat : d = n - m + 1
    BY <1>2
  <2>3. n - b = d /\ b <= n /\ b \in 1..n /\ ~(m <= b)
    BY ONLY <1>2, <2>1, <2>2, m \in 1..n
  <2>4. PICK w \in Nat : w = seen[b].time
    BY <1>3
  <2>5. w < from
    BY <1>6, <2>3, <2>4
  <2>6. t <= w + d * BarStep
    BY <1>4, <2>3, <2>4 DEF SeenFits
  <2>7. d * BarStep \in Int /\ longest * BarStep \in Int
    BY <1>1, <2>2, EarlierLater
  <2>8. longest * BarStep < d * BarStep
    BY <1>4, <2>5, <2>6, <2>7
  <2>9. longest < d
    <3>1. d \in Int /\ longest \in Int /\ BarStep \in Nat \ {0}
      BY <1>1
    <3>2. QED
      BY ONLY <2>8, <3>1, EarlierLater
  <2>10. QED
    BY <2>2, <2>9
<1>11. PICK H \in Seq(Candle) : H = SubSeq(seen, 1, n) /\ Len(H) = n /\ \A i \in 1..n : H[i] = seen[i]
  <2>1. 1 \in 1..n
    BY <1>2
  <2>2. SubSeq(seen, 1, n) \in Seq(Candle) /\ Len(SubSeq(seen, 1, n)) = n - 1 + 1
        /\ \A i \in 1..(n - 1 + 1) : SubSeq(seen, 1, n)[i] = seen[1 + i - 1]
    BY <2>1, SoFar
  <2>3. n - 1 + 1 = n /\ \A i \in 1..n : 1 + i - 1 = i
    BY <1>2
  <2>4. QED
    BY <2>2, <2>3
<1>12. SubSeq(H, m, n) = k
  <2>1. /\ \A i \in 1..(n - m + 1) : k[i] = seen[m + i - 1] /\ m + i - 1 \in m..n
        /\ Len(k) = n - m + 1 /\ k \in Seq(Candle) /\ m \in Nat /\ n - m + 1 \in Nat
    BY <1>7, SoFar
  <2>2. PICK q : q = SubSeq(H, m, n)
    OBVIOUS
  <2>3. q \in Seq(Candle) /\ Len(q) = n - m + 1 /\ \A i \in 1..(n - m + 1) : q[i] = H[m + i - 1]
    <3>1. \A i \in m..n : H[i] \in Candle
      <4>1. \A i \in m..n : i \in 1..Len(H)
        BY <1>2, <1>11, <2>1
      <4>2. QED
        BY <4>1, ElementOfSeq
    <3>2. m \in Int /\ n \in Int /\ m <= n
      BY <1>2
    <3>3. QED
      BY <2>2, <3>1, <3>2, SubSeqProperties
  <2>4. \A i \in 1..(n - m + 1) : q[i] = k[i]
    <3> SUFFICES ASSUME NEW i \in 1..(n - m + 1) PROVE q[i] = k[i]
      OBVIOUS
    <3>1. m + i - 1 \in 1..n
      BY <1>2, <2>1
    <3>2. QED
      BY <1>11, <2>1, <2>3, <3>1
  <2>5. q = k
    <3>1. Len(q) = Len(k) /\ \A i \in 1..Len(q) : q[i] = k[i]
      BY <2>1, <2>3, <2>4
    <3>2. QED
      BY ONLY <2>1, <2>3, <3>1, SeqEqual
  <2>6. QED
    BY <2>2, <2>5
<1>13. Alike(k, H, longest)
  <2>1. Alike(SubSeq(H, m, n), H, longest)
    BY <1>2, <1>10, <1>11, Lately
  <2>2. QED
    BY <1>12, <2>1
<1>14. k # <<>>
  <2>1. Len(k) = n - m + 1
    BY <1>7, SoFar
  <2>2. n - m + 1 > 0
    BY <1>2
  <2>3. QED
    BY <2>1, <2>2
<1>15. QED
  BY <1>9, <1>11, <1>13, <1>14

(* What the chunks give as the reason of an exit is what the engine saw.        *)
LEMMA RestoredIsSeen ==
  ASSUME FrozenFits, SeenFits, group \in Groups, NEW exit, ExitFits(exit), ~Refused(group)
  PROVE  FromChunks(exit) = exit.why
<1>1. PICK n \in 1..Len(seen) : ExitAt(exit, n, SubSeq(seen, 1, n))
  BY DEF ExitFits
<1>2. PICK z \in Candle : z = seen[n] /\ z \in Range(seen) /\ Played(z) /\ z.time \in Nat
  <2>1. seen \in Seq(Candle)
    BY DEF SeenFits
  <2>2. seen[n] \in Range(seen) /\ seen[n] \in Candle
    BY <2>1, InRange
  <2>3. Played(seen[n])
    BY <2>2 DEF SeenFits
  <2>4. QED
    BY <2>2, <2>3 DEF Candle
<1>3. PICK H : H = SubSeq(seen, 1, n)
  OBVIOUS
<1>4. exit.time = z.time /\ exit.price = z.close /\ GroupMet(group, H) /\ exit.why = Described(group, H)
  BY <1>1, <1>2, <1>3 DEF ExitAt
<1>5. PICK p \in Nat \ {0} : p = Period(group)
  BY PeriodIs
<1>6. PICK to \in Nat : to = exit.time
  BY <1>2, <1>4
<1>7. PICK from \in Int : from = to - p * BarStep /\ from <= to
  <2>1. BarStep \in Nat \ {0}
    BY EvidenceAssumption
  <2>2. p * BarStep \in Int /\ 0 * BarStep <= p * BarStep
    BY <2>1, EarlierLater
  <2>3. QED
    BY <2>1, <2>2
<1>8. PICK S : S = Blocks(from, to)
  OBVIOUS
<1>9. PICK rows : rows = FlattenSeq([i \in 1..Cardinality(S) |-> frozen[Min(S) + i - 1]])
  OBVIOUS
<1>10. S # {} /\ S = Min(S)..Max(S) /\ RowsFit(rows, from, to)
  <2>1. Played(z) /\ z.time = to
    BY <1>2, <1>4, <1>6
  <2>2. from <= to
    BY <1>7
  <2>3. QED
    BY ONLY <1>8, <1>9, <2>1, <2>2, FrozenFits, BlocksTell
<1>11. FromChunks(exit) = RestoreInvalidation(group, exit, rows)
  BY <1>5, <1>6, <1>7, <1>8, <1>9, <1>10 DEF FromChunks
<1>12. PICK h : h = InvalidationHistory(rows, to, p)
  OBVIOUS
<1>13. Tells(h, from, to)
  BY <1>7, <1>10, <1>12, HistoryTells
<1>14. Alike(h, H, p) /\ h # <<>>
  <2>1. Tells(h, from, seen[n].time) /\ from = seen[n].time - p * BarStep
    BY <1>2, <1>4, <1>6, <1>7, <1>13
  <2>2. QED
    BY <1>3, <2>1, ToldIsSeen
<1>15. Visit(group, h) = Visit(group, H)
  <2>1. Alike(h, H, Period(group))
    BY <1>5, <1>14
  <2>2. QED
    BY <2>1, VisitSame
<1>16. Last(H) = z /\ H # <<>>
  <2>1. n \in Nat /\ n >= 1 /\ 1 \in 1..n
    BY SoFar
  <2>2. Len(H) = n - 1 + 1 /\ \A i \in 1..(n - 1 + 1) : H[i] = seen[1 + i - 1]
    BY <1>3, <2>1, SoFar
  <2>3. Len(H) = n /\ H[n] = seen[n]
    <3>1. n - 1 + 1 = n /\ 1 + n - 1 = n
      BY <2>1
    <3>2. QED
      BY <2>1, <2>2, <3>1
  <2>4. H # <<>>
    BY <2>1, <2>3
  <2>5. QED
    BY <1>2, <2>3, <2>4 DEF Last
<1>17. Last(h) = z
  BY <1>14, <1>16 DEF Alike
<1>18. Described(group, h) = Described(group, H)
  BY <1>14, <1>15, <1>16 DEF Described
<1>19. RestoreInvalidation(group, exit, rows) = Described(group, h)
  BY <1>4, <1>5, <1>6, <1>12, <1>14, <1>17 DEF RestoreInvalidation
<1>20. QED
  BY <1>4, <1>11, <1>18, <1>19

LEMMA ExitSaw ==
  ASSUME SeenFits, group \in Groups, NEW exit, ExitFits(exit)
  PROVE  /\ exit.why # Unavailable /\ exit.why # <<>> /\ Leaves(group) # {}
         /\ exit.saved = IF version = "saving" THEN exit.why ELSE <<>>
<1>1. PICK n \in 1..Len(seen) : ExitAt(exit, n, SubSeq(seen, 1, n))
  BY DEF ExitFits
<1>2. PICK H : H = SubSeq(seen, 1, n)
  OBVIOUS
<1>3. GroupMet(group, H) /\ exit.why = Described(group, H) /\ exit.saved = IF version = "saving" THEN exit.why ELSE <<>>
  BY <1>1, <1>2 DEF ExitAt
<1>4. H # <<>>
  <2>1. n \in Nat /\ n >= 1 /\ 1 \in 1..n
    BY SoFar
  <2>2. Len(H) = n - 1 + 1
    BY <1>2, <2>1, SoFar
  <2>3. QED
    BY <2>1, <2>2
<1>5. Visit(group, H) # <<>> /\ Visit(group, H) # Unavailable /\ Leaves(group) # {}
  BY <1>3, VisitTells
<1>6. Described(group, H) = Visit(group, H)
  BY <1>4, <1>5 DEF Described
<1>7. QED
  BY <1>3, <1>5, <1>6

(* There is one exit at most; nothing is shown or kept before it, and nothing   *)
(* but its reason after it.                                                     *)
EvidenceInv ==
  /\ FrozenFits /\ ReaderFits /\ SeenFits
  /\ group \in Groups /\ version \in {"old", "restorable", "saving"}
  /\ \A x, z \in exits : x = z
  /\ \A exit \in exits : ExitFits(exit)
  /\ shown \cup kept # {} => exits # {}
  /\ \A exit \in exits : \A d \in shown \cup kept : d = Reason(exit)

LEMMA DetailIsReason ==
  ASSUME EvidenceInv, NEW exit \in exits
  PROVE  Detail(exit) = Reason(exit)
<1>1. /\ FrozenFits /\ SeenFits /\ group \in Groups /\ ExitFits(exit)
      /\ version \in {"old", "restorable", "saving"} /\ \A d \in kept : d = Reason(exit)
  BY DEF EvidenceInv
<1>2. /\ exit.why # <<>> /\ Leaves(group) # {}
      /\ exit.saved = IF version = "saving" THEN exit.why ELSE <<>>
  BY <1>1, ExitSaw
<1>3. CASE version = "saving"
  BY <1>2, <1>3 DEF Detail, Reason, Explainable
<1>4. CASE version # "saving" /\ kept # {}
  <2>1. Detail(exit) = CHOOSE d \in kept : TRUE
    BY <1>2, <1>4 DEF Detail
  <2>2. Detail(exit) \in kept
    BY <1>4, <2>1
  <2>3. QED
    BY <1>1, <2>2
<1>5. CASE version # "saving" /\ kept = {}
  <2>1. Refused(group) <=> (\E l \in Leaves(group) : l.type \notin Supported) \/ ~(Period(group) <= MaxPeriod)
    <3>1. Period(group) \in Nat
      BY <1>1, PeriodIs
    <3>2. Period(group) > MaxPeriod <=> ~(Period(group) <= MaxPeriod)
      BY <3>1, EvidenceAssumption
    <3>3. QED
      BY <1>2, <3>2 DEF Refused
  <2>2. CASE version = "old" \/ Refused(group)
    <3>1. Detail(exit) = Unavailable
      BY <1>2, <1>5, <2>2 DEF Detail
    <3>2. ~Explainable
      BY <1>5, <2>1, <2>2 DEF Explainable
    <3>3. QED
      BY <3>1, <3>2 DEF Reason
  <2>3. CASE version # "old" /\ ~Refused(group)
    <3>1. FromChunks(exit) = exit.why
      BY <1>1, <2>3, RestoredIsSeen
    <3>2. Detail(exit) = FromChunks(exit)
      BY <1>2, <1>5, <2>3 DEF Detail
    <3>3. Explainable
      BY <1>1, <1>5, <2>1, <2>3 DEF Explainable
    <3>4. QED
      BY <3>1, <3>2, <3>3 DEF Reason
  <2>4. QED
    BY <2>2, <2>3
<1>6. QED
  BY <1>3, <1>4, <1>5

LEMMA EvidenceStarts == EvidenceInit => EvidenceInv
<1> SUFFICES ASSUME EvidenceInit PROVE EvidenceInv
  OBVIOUS
<1>1. FrozenFits
  <2>1. PICK s \in Series : frozen = Chunked(s)
    BY DEF EvidenceInit
  <2>2. QED
    BY <2>1, ChunksFit
<1>2. /\ reader = [chunk |-> 1, offset |-> 1, previous |-> NoCandle]
      /\ seen = <<>> /\ exits = {} /\ kept = {} /\ shown = {}
      /\ group \in Groups /\ version \in {"old", "restorable", "saving"}
  BY DEF EvidenceInit
<1>3. /\ Len(frozen) \in Nat
      /\ \A k \in 1..Len(frozen) : Len(frozen[k]) \in Nat \ {0}
      /\ \A k \in 1..Len(frozen) : \A i \in 1..Len(frozen[k]) : frozen[k][i] \in Raws
      /\ \A q \in Raws : q.time \in Nat
  BY <1>1, RawsAre
<1>4. reader.previous = NoCandle /\ reader.previous.time = -1 /\ reader.chunk = 1 /\ reader.offset = 1
  BY <1>2 DEF NoCandle
<1>5. ReaderFits
  <2>1. reader.chunk \in 1..(Len(frozen) + 1) /\ reader.offset \in Nat
        /\ (reader.chunk <= Len(frozen) => reader.offset \in 1..Len(frozen[reader.chunk]))
    BY <1>3, <1>4
  <2>2. ASSUME NEW k \in 1..Len(frozen), NEW i \in 1..Len(frozen[k])
        PROVE  reader.previous.time < frozen[k][i].time <=> (k > reader.chunk \/ (k = reader.chunk /\ i >= reader.offset))
    <3>1. frozen[k][i].time \in Nat
      BY <1>3
    <3>2. k \in Nat /\ k >= 1 /\ i \in Nat /\ i >= 1
      BY <1>3
    <3>3. QED
      BY <1>4, <3>1, <3>2
  <2>3. reader = [chunk |-> reader.chunk, offset |-> reader.offset, previous |-> reader.previous]
    BY <1>2
  <2>4. QED
    BY <1>4, <2>1, <2>2, <2>3 DEF ReaderFits
<1>6. SeenFits
  <2>1. seen \in Seq(Candle) /\ Rising(seen) /\ Range(seen) = {} /\ Len(seen) = 0
    BY <1>2, NothingRises
  <2>2. ASSUME NEW y, Played(y), y.time <= reader.previous.time PROVE FALSE
    <3>1. y.time \in Nat
      BY <1>1, <2>2, Based
    <3>2. QED
      BY <1>4, <2>2, <3>1
  <2>3. QED
    BY <1>2, <1>4, <2>1, <2>2 DEF SeenFits
<1>7. QED
  BY <1>1, <1>2, <1>5, <1>6 DEF EvidenceInv

\* An exit stays explained by what was seen up to it.
LEMMA ExitStays ==
  ASSUME SeenFits, NEW c \in Candle, seen' = Append(seen, c), UNCHANGED <<group, version>>, NEW exit, ExitFits(exit)
  PROVE  ExitFits(exit)'
<1>1. PICK n \in 1..Len(seen) : ExitAt(exit, n, SubSeq(seen, 1, n))
  BY DEF ExitFits
<1>2. seen \in Seq(Candle) /\ Len(seen) \in Nat
  BY LenProperties DEF SeenFits
<1>3. Len(seen') = Len(seen) + 1 /\ \A i \in 1..Len(seen) : seen'[i] = seen[i]
  BY <1>2, AppendProperties
<1>4. n \in 1..Len(seen') /\ seen'[n] = seen[n]
  BY <1>2, <1>3
<1>5. SubSeq(seen', 1, n) = SubSeq(seen, 1, n)
  <2>1. n \in Nat
    BY <1>2
  <2>2. SubSeq(seen', 1, n) = [i \in 1..n |-> seen'[1 + i - 1]] /\ SubSeq(seen, 1, n) = [i \in 1..n |-> seen[1 + i - 1]]
    BY <2>1
  <2>3. \A i \in 1..n : seen'[1 + i - 1] = seen[1 + i - 1]
    <3> SUFFICES ASSUME NEW i \in 1..n PROVE seen'[1 + i - 1] = seen[1 + i - 1]
      OBVIOUS
    <3>1. 1 + i - 1 \in 1..Len(seen)
      BY <1>2
    <3>2. QED
      BY <1>3, <3>1
  <2>4. QED
    BY <2>2, <2>3
<1>6. QED
  BY <1>1, <1>4, <1>5 DEF ExitFits, ExitAt, GroupMet, Described

LEMMA ReadKeeps == ASSUME EvidenceInv, ReadCandle PROVE EvidenceInv'
<1>1. /\ FrozenFits /\ ReaderFits /\ SeenFits /\ group \in Groups /\ version \in {"old", "restorable", "saving"}
      /\ \A exit \in exits : ExitFits(exit)
  BY DEF EvidenceInv
<1>2. /\ More /\ frozen' = frozen /\ reader' = Consumed(Peeked) /\ seen' = Append(seen, Peeked)
      /\ group' = group /\ version' = version /\ kept' = kept /\ shown' = shown
  BY DEF ReadCandle
<1>3. FrozenFits'
  BY <1>1, <1>2, SamePlayed
<1>4. ReaderFits' /\ reader'.previous = Peeked
  BY <1>1, <1>2, ReaderMoves
<1>5. SeenFits'
  BY <1>1, <1>2, SeenGrows
<1>6. seen \in Seq(Candle) /\ seen' \in Seq(Candle) /\ Len(seen) \in Nat
  BY <1>1, <1>5, LenProperties DEF SeenFits
<1>7. PICK c : c = Peeked
  OBVIOUS
<1>8. Len(seen') = Len(seen) + 1 /\ seen'[Len(seen) + 1] = c /\ Len(seen') \in 1..Len(seen')
  BY <1>2, <1>6, <1>7
<1>9. c \in Candle
  BY <1>6, <1>8, ElementOfSeq
<1>10. \A exit \in exits : ExitFits(exit)'
  BY <1>1, <1>2, <1>7, <1>9, ExitStays
<1>11. CASE exits' = exits
  <2>1. ASSUME NEW exit PROVE Reason(exit)' = Reason(exit)
    BY <1>2 DEF Reason, Explainable
  <2>2. QED
    BY <1>1, <1>2, <1>3, <1>4, <1>5, <1>10, <1>11, <2>1 DEF EvidenceInv
<1>12. CASE exits' # exits
  <2>1. exits = {} /\ GroupMet(group, seen')
    BY <1>12 DEF ReadCandle
  <2>2. PICK exit : /\ exits' = {exit}
                    /\ exit = [time |-> Peeked.time, price |-> Peeked.close, why |-> Described(group, seen'),
                               saved |-> IF version = "saving" THEN Described(group, seen') ELSE <<>>]
    BY <1>12 DEF ReadCandle
  <2>3. PICK n : n = Len(seen')
    OBVIOUS
  <2>4. n \in 1..Len(seen') /\ seen'[n] = Peeked /\ SubSeq(seen', 1, n) = seen'
    <3>1. SubSeq(seen', 1, Len(seen')) = seen'
      BY <1>6, SubSeqFull
    <3>2. QED
      BY <1>7, <1>8, <2>3, <3>1
  <2>5. /\ exit.time = Peeked.time /\ exit.price = Peeked.close /\ exit.why = Described(group, seen')
        /\ exit.saved = IF version = "saving" THEN exit.why ELSE <<>>
    BY <2>2
  <2>6. ExitFits(exit)'
    <3>1. ExitAt(exit, n, SubSeq(seen, 1, n))'
      BY <1>2, <2>1, <2>4, <2>5 DEF ExitAt, GroupMet, Described
    <3>2. QED
      BY <2>4, <3>1 DEF ExitFits
  <2>7. shown' \cup kept' = {}
    BY <1>2, <2>1 DEF EvidenceInv
  <2>8. QED
    BY <1>1, <1>2, <1>3, <1>4, <1>5, <2>2, <2>6, <2>7 DEF EvidenceInv
<1>13. QED
  BY <1>11, <1>12

LEMMA HydrateKeeps == ASSUME EvidenceInv, Hydrate PROVE EvidenceInv'
<1>1. PICK exit \in exits :
        /\ shown' = {Detail(exit)}
        /\ kept' = IF Restorable(exit) /\ status = "completed" THEN {Detail(exit)} ELSE kept
        /\ UNCHANGED <<frozen, group, version, reader, seen, exits, status>>
  BY DEF Hydrate
<1>2. Detail(exit) = Reason(exit)
  BY DetailIsReason
<1>3. \A x \in exits : x = exit
  BY DEF EvidenceInv
<1>4. \A d \in shown' \cup kept' : d = Reason(exit)
  BY <1>1, <1>2 DEF EvidenceInv
<1>5. Reason(exit)' = Reason(exit)
  BY <1>1 DEF Reason, Explainable
<1>6. FrozenFits' /\ ReaderFits' /\ SeenFits'
  <2>1. FrozenFits /\ ReaderFits /\ SeenFits
    BY DEF EvidenceInv
  <2>2. FrozenFits' /\ \A y : Played(y)' <=> Played(y)
    BY <1>1, <2>1, SamePlayed
  <2>3. QED
    BY <1>1, <2>1, <2>2 DEF ReaderFits, SeenFits
<1>7. \A x \in exits : ExitFits(x)'
  BY <1>1 DEF EvidenceInv, ExitFits, ExitAt, GroupMet, Described
<1>8. QED
  BY <1>1, <1>3, <1>4, <1>5, <1>6, <1>7 DEF EvidenceInv

LEMMA StillKeeps ==
  ASSUME EvidenceInv, UNCHANGED <<frozen, group, version, reader, seen, exits, kept, shown>>
  PROVE  EvidenceInv'
<1>1. FrozenFits' /\ ReaderFits' /\ SeenFits'
  <2>1. FrozenFits /\ ReaderFits /\ SeenFits
    BY DEF EvidenceInv
  <2>2. FrozenFits' /\ \A y : Played(y)' <=> Played(y)
    BY <2>1, SamePlayed
  <2>3. QED
    BY <2>1, <2>2 DEF ReaderFits, SeenFits
<1>2. \A x \in exits : ExitFits(x)' /\ Reason(x)' = Reason(x)
  BY DEF EvidenceInv, ExitFits, ExitAt, GroupMet, Described, Reason, Explainable
<1>3. QED
  BY <1>1, <1>2 DEF EvidenceInv

(* An exit was taken where the group was met by what the engine had seen, which *)
(* is what the run plays and no more; and what the API shows or has kept is the *)
(* reason the engine had, unless its version or a condition rules it out.       *)
THEOREM EvidenceInductive == EvidenceSpec => []EvidenceInv
<1>1. EvidenceInit => EvidenceInv
  BY EvidenceStarts
<1>2. EvidenceInv /\ [EvidenceNext]_evars => EvidenceInv'
  <2> SUFFICES ASSUME EvidenceInv, [EvidenceNext]_evars PROVE EvidenceInv'
    OBVIOUS
  <2>1. CASE ReadCandle
    BY <2>1, ReadKeeps
  <2>2. CASE EndRun
    BY <2>2, StillKeeps DEF EndRun
  <2>3. CASE Hydrate
    BY <2>3, HydrateKeeps
  <2>4. CASE UNCHANGED evars
    BY <2>4, StillKeeps DEF evars
  <2>5. QED
    BY <2>1, <2>2, <2>3, <2>4 DEF EvidenceNext
<1>3. QED
  BY <1>1, <1>2, PTL DEF EvidenceSpec

(* ReasonsAreTheEngines for every series, gap, chunk size, group and moment:    *)
(* what the API gives as the reason of an exit, saved, restored from the chunks *)
(* or cached, is what the engine saw when it left.                              *)
THEOREM ReasonsStayTheEngines == EvidenceSpec => []ReasonsAreTheEngines
<1>1. EvidenceInv => ReasonsAreTheEngines
  <2> SUFFICES ASSUME EvidenceInv, NEW d \in shown, NEW exit \in exits
               PROVE  exit.why # Unavailable /\ d = Reason(exit)
    BY DEF ReasonsAreTheEngines, Reason, Explainable
  <2>1. exit.why # Unavailable
    BY ExitSaw DEF EvidenceInv
  <2>2. d = Reason(exit)
    BY DEF EvidenceInv
  <2>3. QED
    BY <2>1, <2>2
<1>2. QED
  BY <1>1, EvidenceInductive, PTL

(* ------------------------------ RollingBatch ------------------------------ *)
(* Whoever is past pg_try_advisory_lock holds the lock (Exclusion), so the      *)
(* ledger stands still between two steps of a cycle (Settling, Planning); a     *)
(* settlement ranks old and new runs alike by the scores the ledger keeps       *)
(* (OnLedger), so the first Keep of a chain stay ahead of all that was ever     *)
(* deleted; and only a planned task, whose run was never inserted (Inserted),   *)
(* is admitted.                                                                 *)

(* The first n of a finite set in a strict total order R: the shape of     *)
(* winningIds (slice of the sorted runs of a chain) and of planned.slice.  *)

Outranks(S, R, t) == {s \in S : <<s, t>> \in R}
FirstOf(S, R, n) == {t \in S : Cardinality(Outranks(S, R, t)) < n}

StrictTotal(S, R) ==
  /\ \A s \in S : <<s, s>> \notin R
  /\ \A s, t, u \in S : <<s, t>> \in R /\ <<t, u>> \in R => <<s, u>> \in R
  /\ \A s, t \in S : s # t => <<s, t>> \in R \/ <<t, s>> \in R

\* A non-empty finite set has a first element (the sort behind winningIds has a head).
LEMMA FirstExists ==
  ASSUME NEW S, IsFiniteSet(S), S # {}, NEW R,
         \A s \in S : <<s, s>> \notin R,
         \A s, t, u \in S : <<s, t>> \in R /\ <<t, u>> \in R => <<s, u>> \in R
  PROVE  \E m \in S : \A s \in S : <<s, m>> \notin R
<1> DEFINE T == {Outranks(S, R, t) : t \in S}
<1>1. IsWellFoundedOn(StrictSubsetOrdering(S), FiniteSubsetsOf(S))
  BY FS_StrictSubsetOrderingWellFounded
<1>2. T \subseteq FiniteSubsetsOf(S)
  BY FS_Subset DEF FiniteSubsetsOf, Outranks
<1>3. T # {}
  OBVIOUS
<1> HIDE DEF T
<1>4. PICK B \in T : \A C \in T : <<C, B>> \notin StrictSubsetOrdering(S)
  BY <1>1, <1>2, <1>3, WFMin
<1>5. PICK m \in S : B = Outranks(S, R, m)
  BY <1>4 DEF T
<1>6. ASSUME NEW s \in S, <<s, m>> \in R PROVE FALSE
  <2>1. Outranks(S, R, s) \subseteq B /\ s \in B /\ s \notin Outranks(S, R, s)
    BY <1>5, <1>6 DEF Outranks
  <2>2. Outranks(S, R, s) \in SUBSET S /\ B \in SUBSET S
    BY <1>5 DEF Outranks
  <2>3. <<Outranks(S, R, s), B>> \in StrictSubsetOrdering(S)
    BY <2>1, <2>2 DEF StrictSubsetOrdering
  <2>4. Outranks(S, R, s) \in T
    BY DEF T
  <2>5. QED
    BY <1>4, <2>3, <2>4
<1>7. QED
  BY <1>6

\* Not more than n are taken.
LEMMA FirstOfBounded ==
  ASSUME NEW S, IsFiniteSet(S), NEW R, StrictTotal(S, R), NEW n \in Nat
  PROVE  Cardinality(FirstOf(S, R, n)) <= n
<1> DEFINE F == FirstOf(S, R, n)
           Q == {q \in S \X S : <<q[2], q[1]>> \in R}
<1>1. IsFiniteSet(F) /\ F \subseteq S
  BY FS_Subset DEF FirstOf
<1>2. CASE F = {}
  BY <1>2, FS_EmptySet
<1>3. CASE F # {}
  <2>1. PICK m \in F : \A s \in F : <<s, m>> \notin Q
    <3>1. \A s \in F : <<s, s>> \notin Q
      BY <1>1 DEF StrictTotal
    <3>2. \A s, t, u \in F : <<s, t>> \in Q /\ <<t, u>> \in Q => <<s, u>> \in Q
      BY <1>1 DEF StrictTotal
    <3> HIDE DEF F, Q
    <3>3. QED
      BY <1>1, <1>3, <3>1, <3>2, FirstExists
  <2>2. F \ {m} \subseteq Outranks(S, R, m)
    BY <1>1, <2>1 DEF Outranks, StrictTotal
  <2>3. IsFiniteSet(Outranks(S, R, m))
    BY FS_Subset DEF Outranks
  <2>4. Cardinality(Outranks(S, R, m)) < n
    BY DEF FirstOf
  <2> HIDE DEF F, Q
  <2>5. Cardinality(F \ {m}) = Cardinality(F) - 1 /\ IsFiniteSet(F \ {m})
    BY <1>1, FS_RemoveElement
  <2>6. Cardinality(F \ {m}) <= Cardinality(Outranks(S, R, m))
    BY <2>2, <2>3, FS_Subset
  <2>7. /\ Cardinality(F) \in Nat /\ Cardinality(F \ {m}) \in Nat
        /\ Cardinality(Outranks(S, R, m)) \in Nat
    BY <1>1, <2>3, <2>5, FS_CardinalityType
  <2>8. QED
    BY <2>4, <2>5, <2>6, <2>7 DEF F
<1>4. QED
  BY <1>2, <1>3

\* Whoever is not taken has n of those taken before it.
LEMMA FirstOfLead ==
  ASSUME NEW S, IsFiniteSet(S), NEW R, StrictTotal(S, R), NEW n \in Nat,
         NEW t \in S, t \notin FirstOf(S, R, n)
  PROVE  Cardinality(FirstOf(S, R, n) \cap Outranks(S, R, t)) >= n
<1> DEFINE B == Outranks(S, R, t)
           V == FirstOf(S, R, n) \cap B
<1>1. IsFiniteSet(B) /\ IsFiniteSet(V) /\ B \subseteq S
  BY FS_Subset DEF Outranks
<1>2. Cardinality(B) \in Nat /\ Cardinality(V) \in Nat /\ Cardinality(B) >= n
  <2>1. Cardinality(B) \in Nat /\ Cardinality(V) \in Nat
    BY <1>1, FS_CardinalityType
  <2>2. ~(Cardinality(B) < n)
    BY DEF FirstOf
  <2>3. QED
    BY <2>1, <2>2
<1>3. SUFFICES ASSUME Cardinality(V) < n PROVE FALSE
  BY <1>2
<1>4. B \ V # {}
  <2>1. B # V
    BY <1>2, <1>3
  <2>2. QED
    BY <2>1
<1>5. IsFiniteSet(B \ V) /\ B \ V \subseteq S
  BY <1>1, FS_Difference
<1>6. PICK u \in B \ V : \A s \in B \ V : <<s, u>> \notin R
  <2>1. \A s \in B \ V : <<s, s>> \notin R
    BY <1>5 DEF StrictTotal
  <2>2. \A s, x, y \in B \ V : <<s, x>> \in R /\ <<x, y>> \in R => <<s, y>> \in R
    BY <1>5 DEF StrictTotal
  <2> HIDE DEF B, V
  <2>3. QED
    BY <1>4, <1>5, <2>1, <2>2, FirstExists
<1>7. Outranks(S, R, u) \subseteq V
  <2>1. Outranks(S, R, u) \subseteq B
    BY <1>6 DEF Outranks, StrictTotal
  <2>2. QED
    BY <1>6, <2>1 DEF Outranks
<1>8. Cardinality(Outranks(S, R, u)) < n
  <2>1. Cardinality(Outranks(S, R, u)) <= Cardinality(V) /\ IsFiniteSet(Outranks(S, R, u))
    BY <1>1, <1>7, FS_Subset
  <2>2. QED
    BY <1>2, <1>3, <2>1, FS_CardinalityType
<1>9. u \in FirstOf(S, R, n)
  BY <1>5, <1>6, <1>8 DEF FirstOf
<1>10. QED
  BY <1>6, <1>9

-----------------------------------------------------------------------------
(* The inductive invariant.                                                *)

Locked == {"control", "check", "settle", "plan", "admit", "enqueue"}

\* Past pg_try_advisory_lock an advancer holds the lock: there is one at a time.
Exclusion == \A p \in Proc : pc[p] \in Locked => holder = p

\* The ledger has rows from the first start on, and nobody advances before it.
Imported ==
  /\ control = "none" => /\ wave = 0 /\ \A p \in Proc : pc[p] = "idle"
                         /\ \A t \in Tasks : state[t] = "none" /\ waveOf[t] = 0
  /\ control # "none" => \A t \in Tasks : state[t] # "none"

\* What the ledger says of a task agrees with its run and with its report.
OnLedger ==
  \A t \in Tasks :
    /\ state[t] \notin {"retained", "pruned"} => evidence[t] = Unfit
    /\ state[t] = "retained" => run[t] = "completed" /\ evidence[t] = report[t] /\ report[t] # Unfit
    /\ state[t] = "pruned"   => run[t] = "absent"    /\ evidence[t] = report[t] /\ report[t] # Unfit

\* Between the check of the runs and the settlement they stay completed; between the
\* settlement and the admission nothing is submitted.
Settling ==
  \A p \in Proc : pc[p] = "settle" => \A t \in Tasks : state[t] \in Listed => run[t] = "completed"
Planning ==
  \A p \in Proc : pc[p] \in {"plan", "admit"} => \A t \in Tasks : state[t] # "submitted"

\* A task waiting for its wave has never had a run.
Inserted ==
  \A t \in Tasks :
    /\ made[t] <= 1
    /\ state[t] = "planned" => made[t] = 0
    /\ state[t] = "none" /\ run[t] = "absent" => made[t] = 0

\* A completed batch has settled every task.
AllSettled == control = "completed" => \A t \in Tasks : state[t] \in {"retained", "pruned"}

\* A settlement retains at most Keep runs of a chain.
RetainedOf(c) == {s \in Tasks : ChainOf[s] = c /\ state[s] = "retained"}
KeepHeld == \A t \in Tasks : Cardinality(RetainedOf(ChainOf[t])) <= Keep

Base == TypeOK /\ Exclusion /\ Imported /\ OnLedger /\ Settling /\ Planning
IInv == Base /\ Inserted /\ AllSettled /\ KeepHeld /\ OneWave /\ LeadersSurvive

-----------------------------------------------------------------------------
(* Which steps touch what.                                                 *)

CalmStep(p) ==
  \/ Call(p) \/ TryLock(p) \/ ReadControl(p) \/ CheckRuns(p) \/ Complete(p) \/ Budget(p)
  \/ Enqueue(p) \/ Error(p) \/ Crash(p)

TaskStep(t) == Finish(t) \/ End(t) \/ Retry(t) \/ Rerun(t)

\* The ledger stays, no run is inserted or deleted, and what is over stays as it is.
Still ==
  /\ UNCHANGED <<wave, state, waveOf, evidence, made>>
  /\ \A t \in Tasks : /\ run[t] \in {"completed", "absent"} => run'[t] = run[t] /\ report'[t] = report[t]
                      /\ run[t] # "absent" => run'[t] # "absent"

LEMMA AdvancerSteps ==
  ASSUME [Next]_vars
  PROVE  \/ Start \/ Pause \/ UNCHANGED vars
         \/ \E p \in Proc : CalmStep(p) \/ Settle(p) \/ Admit(p)
         \/ \E t \in Tasks : TaskStep(t)
BY DEF Next, Advance, CalmStep, TaskStep

LEMMA TaskFrame ==
  ASSUME TypeOK, NEW t \in Tasks, TaskStep(t)
  PROVE  Still /\ UNCHANGED <<ledger, holder, pc>>
<1>1. UNCHANGED <<ledger, made, holder, pc>>
  BY DEF TaskStep, Finish, End, Retry, Rerun, runs
<1>2. CASE Finish(t)
  BY <1>1, <1>2 DEF Finish, Still, TypeOK, ledger
<1>3. CASE End(t) \/ Retry(t)
  BY <1>1, <1>3 DEF End, Retry, Still, TypeOK, ledger
<1>4. CASE Rerun(t)
  BY <1>1, <1>4 DEF Rerun, Still, ledger
<1>5. QED
  BY <1>1, <1>2, <1>3, <1>4 DEF TaskStep

LEMMA StillFrame ==
  ASSUME TypeOK, [Next]_vars
  PROVE  \/ Start \/ Still
         \/ \E p \in Proc : Settle(p) \/ Admit(p)
<1>1. CASE Pause \/ UNCHANGED vars
  BY <1>1 DEF Pause, vars, ledger, runs, Still
<1>2. ASSUME NEW p \in Proc, CalmStep(p) PROVE Still
  BY <1>2 DEF CalmStep, Call, TryLock, ReadControl, CheckRuns, Complete, Budget, Enqueue,
     Error, Crash, ledger, runs, Still
<1>3. QED
  BY <1>1, <1>2, AdvancerSteps, TaskFrame

-----------------------------------------------------------------------------
(* Types.                                                                  *)

LEMMA TypeInit == Init => TypeOK
BY SizesNat, TasksFinite DEF Init, TypeOK, Listed

LEMMA TypeStep == TypeOK /\ [Next]_vars => TypeOK'
<1> SUFFICES ASSUME TypeOK, [Next]_vars PROVE TypeOK'
  OBVIOUS
<1> USE DEF TypeOK
<1>1. CASE Start
  BY <1>1 DEF Start, Spend, runs, Listed
<1>2. CASE Pause \/ UNCHANGED vars
  BY <1>2 DEF Pause, Spend, runs, vars, ledger
<1>3. ASSUME NEW p \in Proc, CalmStep(p) PROVE TypeOK'
  <2>1. UNCHANGED <<wave, state, waveOf, evidence, runs>>
    BY <1>3 DEF CalmStep, Call, TryLock, ReadControl, CheckRuns, Complete, Budget, Enqueue,
       Error, Crash, ledger
  <2>2. /\ control' \in {control, "paused", "completed"}
        /\ holder' \in {holder, p, None}
        /\ \/ UNCHANGED pc
           \/ \E step \in {"idle", "called", "control", "check", "settle", "plan", "admit"} : Goto(p, step)
        /\ env' \in {env, env - 1} /\ (env' # env => env > 0)
    BY <1>3 DEF CalmStep, Call, TryLock, ReadControl, CheckRuns, Complete, Budget, Enqueue,
       Error, Crash, ledger, Leave, Refuse, Spend, Goto
  <2>3. pc' \in [Proc -> {"idle", "called", "control", "check", "settle", "plan", "admit", "enqueue"}]
    BY <2>2 DEF Goto
  <2>4. QED
    BY <2>1, <2>2, <2>3 DEF runs
<1>4. ASSUME NEW p \in Proc, Settle(p) PROVE TypeOK'
  <2>1. /\ state' \in [Tasks -> Listed \cup {"none", "planned", "pruned"}]
        /\ evidence' \in [Tasks -> Ranks \cup {Unfit}]
        /\ run' \in [Tasks -> {"absent", "open", "ended", "completed"}]
    BY <1>4 DEF Settle, Listed, Settled, Scores
  <2>2. /\ control' \in {control, "paused"} /\ holder' \in {holder, None}
        /\ Goto(p, "idle") \/ Goto(p, "plan")
    BY <1>4 DEF Settle, Refuse, Leave
  <2>3. QED
    BY <1>4, <2>1, <2>2 DEF Settle, Goto
<1>5. ASSUME NEW p \in Proc, Admit(p) PROVE TypeOK'
  <2>1. /\ state' \in [Tasks -> Listed \cup {"none", "planned", "pruned"}]
        /\ run' \in [Tasks -> {"absent", "open", "ended", "completed"}]
        /\ waveOf' \in [Tasks -> Nat] /\ made' \in [Tasks -> Nat] /\ wave' \in Nat
    BY <1>5 DEF Admit, Listed, ledger
  <2>2. /\ control' \in {control, "paused"} /\ holder' \in {holder, None}
        /\ Goto(p, "idle") \/ Goto(p, "enqueue")
    BY <1>5 DEF Admit, Refuse, Leave, ledger
  <2>3. QED
    BY <1>5, <2>1, <2>2 DEF Admit, Goto, ledger
<1>6. ASSUME NEW t \in Tasks, TaskStep(t) PROVE TypeOK'
  <2>1. CASE Finish(t)
    BY <2>1 DEF Finish, Spend, ledger
  <2>2. CASE End(t) \/ Retry(t)
    BY <2>2 DEF End, Retry, Spend, ledger
  <2>3. CASE Rerun(t)
    <3>1. child' \in [Tasks -> BOOLEAN]
      BY <2>3 DEF Rerun
    <3>2. QED
      BY <2>3, <3>1 DEF Rerun, Spend, ledger
  <2>4. QED
    BY <1>6, <2>1, <2>2, <2>3 DEF TaskStep
<1>7. QED
  BY <1>1, <1>2, <1>3, <1>4, <1>5, <1>6, AdvancerSteps

-----------------------------------------------------------------------------
(* The ranking and the next wave, as the first of an order.                *)

Judged(score, c) == {t \in Tasks : score[t] # Unfit /\ ChainOf[t] = c}
Ranking(score) == {q \in Tasks \X Tasks : Beats(q[1], q[2], score)}
Ordinals == {q \in Tasks \X Tasks : q[1] < q[2]}
Planned == {t \in Tasks : state[t] = "planned"}

LEMMA RankingOrders ==
  ASSUME NEW score \in [Tasks -> Ranks \cup {Unfit}], NEW c
  PROVE  StrictTotal(Judged(score, c), Ranking(score)) /\ IsFiniteSet(Judged(score, c))
<1> DEFINE J == Judged(score, c)
<1>1. \A t \in J : t \in Tasks /\ t \in Nat /\ score[t] \in Nat
  BY TasksFinite, RanksNat DEF Judged
<1>2. \A s, t \in J : <<s, t>> \in Ranking(score) <=> Beats(s, t, score)
  BY <1>1 DEF Ranking
<1>3. \A s \in J : ~Beats(s, s, score)
  BY <1>1 DEF Beats
<1>4. \A s, t, u \in J : Beats(s, t, score) /\ Beats(t, u, score) => Beats(s, u, score)
  BY <1>1 DEF Beats
<1>5. \A s, t \in J : s # t => Beats(s, t, score) \/ Beats(t, s, score)
  BY <1>1 DEF Beats
<1>6. IsFiniteSet(J)
  BY TasksFinite, FS_Subset DEF Judged
<1> HIDE DEF J
<1>7. QED
  BY <1>2, <1>3, <1>4, <1>5, <1>6 DEF StrictTotal, J

LEMMA WinnersAreFirst ==
  ASSUME NEW score \in [Tasks -> Ranks \cup {Unfit}], NEW t \in Tasks
  PROVE  t \in Winners(score) <=> t \in FirstOf(Judged(score, ChainOf[t]), Ranking(score), Keep)
<1>1. {s \in {x \in Tasks : score[x] # Unfit} : ChainOf[s] = ChainOf[t] /\ Beats(s, t, score)}
        = Outranks(Judged(score, ChainOf[t]), Ranking(score), t)
  BY DEF Outranks, Judged, Ranking
<1>2. t \in Winners(score) <=>
        /\ score[t] # Unfit
        /\ Cardinality({s \in {x \in Tasks : score[x] # Unfit} :
                           ChainOf[s] = ChainOf[t] /\ Beats(s, t, score)}) < Keep
  BY DEF Winners
<1>3. t \in FirstOf(Judged(score, ChainOf[t]), Ranking(score), Keep) <=>
        /\ score[t] # Unfit
        /\ Cardinality(Outranks(Judged(score, ChainOf[t]), Ranking(score), t)) < Keep
  BY DEF FirstOf, Judged
<1>4. QED
  BY <1>1, <1>2, <1>3

\* winningIds returns at most Keep runs of a chain.
LEMMA WinnersBounded ==
  ASSUME NEW score \in [Tasks -> Ranks \cup {Unfit}], NEW c
  PROVE  /\ IsFiniteSet({t \in Winners(score) : ChainOf[t] = c})
         /\ Cardinality({t \in Winners(score) : ChainOf[t] = c}) <= Keep
<1>1. \A t \in Winners(score) : t \in Tasks
  BY DEF Winners
<1>2. {t \in Winners(score) : ChainOf[t] = c} = FirstOf(Judged(score, c), Ranking(score), Keep)
  <2>1. \A t \in FirstOf(Judged(score, c), Ranking(score), Keep) : t \in Tasks /\ ChainOf[t] = c
    BY DEF FirstOf, Judged
  <2>2. QED
    BY <1>1, <2>1, WinnersAreFirst
<1>3. IsFiniteSet(Judged(score, c)) /\ StrictTotal(Judged(score, c), Ranking(score))
  BY RankingOrders
<1>4. Cardinality(FirstOf(Judged(score, c), Ranking(score), Keep)) <= Keep
  BY <1>3, SizesNat, FirstOfBounded
<1>5. IsFiniteSet(FirstOf(Judged(score, c), Ranking(score), Keep))
  BY <1>3, FS_Subset DEF FirstOf
<1>6. QED
  BY <1>2, <1>4, <1>5

\* A ranked run that winningIds leaves out has Keep winners of its chain before it.
LEMMA WinnersLead ==
  ASSUME NEW score \in [Tasks -> Ranks \cup {Unfit}],
         NEW t \in Tasks, score[t] # Unfit, t \notin Winners(score)
  PROVE  LET Lead == {s \in Winners(score) : ChainOf[s] = ChainOf[t] /\ Beats(s, t, score)}
         IN  IsFiniteSet(Lead) /\ Cardinality(Lead) >= Keep
<1> DEFINE J == Judged(score, ChainOf[t])
           Lead == {s \in Winners(score) : ChainOf[s] = ChainOf[t] /\ Beats(s, t, score)}
<1>1. t \in J /\ t \notin FirstOf(J, Ranking(score), Keep)
  BY WinnersAreFirst DEF Judged
<1>2. IsFiniteSet(J) /\ StrictTotal(J, Ranking(score))
  BY RankingOrders
<1>3. Cardinality(FirstOf(J, Ranking(score), Keep) \cap Outranks(J, Ranking(score), t)) >= Keep
  <2> HIDE DEF J
  <2>1. QED
    BY <1>1, <1>2, SizesNat, FirstOfLead
<1>4. \A s \in Winners(score) : s \in Tasks /\ score[s] # Unfit
  BY DEF Winners
<1>5. ASSUME NEW s \in Lead PROVE s \in FirstOf(J, Ranking(score), Keep) \cap Outranks(J, Ranking(score), t)
  <2>1. s \in FirstOf(J, Ranking(score), Keep)
    BY <1>4, <1>5, WinnersAreFirst
  <2>2. s \in Outranks(J, Ranking(score), t)
    BY <1>4, <1>5 DEF Outranks, Ranking, Judged
  <2>3. QED
    BY <2>1, <2>2
<1>6. ASSUME NEW s \in FirstOf(J, Ranking(score), Keep) \cap Outranks(J, Ranking(score), t)
      PROVE  s \in Lead
  <2>1. s \in Tasks /\ ChainOf[s] = ChainOf[t] /\ Beats(s, t, score)
    BY <1>6 DEF Outranks, Ranking, Judged
  <2>2. s \in Winners(score)
    BY <1>6, <2>1, WinnersAreFirst
  <2>3. QED
    BY <2>1, <2>2
<1>7. Lead = FirstOf(J, Ranking(score), Keep) \cap Outranks(J, Ranking(score), t)
  <2> HIDE DEF Lead, J
  <2>1. QED
    BY <1>5, <1>6
<1>8. IsFiniteSet(Lead)
  BY <1>2, <1>4, FS_Subset, TasksFinite
<1>9. QED
  BY <1>3, <1>7, <1>8

\* planned.slice takes at most BatchSize tasks, and some if there are any.
LEMMA BatchBounded ==
  /\ Cardinality(Batch) <= BatchSize
  /\ Batch = {} => Planned = {}
<1>1. Batch = FirstOf(Planned, Ordinals, BatchSize)
  <2>1. \A t \in Planned : Outranks(Planned, Ordinals, t) = {s \in Planned : s < t}
    BY DEF Outranks, Ordinals, Planned
  <2>2. Batch = {t \in Planned : Cardinality({s \in Planned : s < t}) < BatchSize}
    BY DEF Batch, Planned
  <2>3. QED
    BY <2>1, <2>2 DEF FirstOf
<1>2. IsFiniteSet(Planned)
  BY TasksFinite, FS_Subset DEF Planned
<1>3. StrictTotal(Planned, Ordinals)
  <2>1. \A t \in Planned : t \in Tasks /\ t \in Nat
    BY TasksFinite DEF Planned
  <2>2. \A s, t \in Planned : <<s, t>> \in Ordinals <=> s < t
    BY <2>1 DEF Ordinals
  <2>3. QED
    BY <2>1, <2>2 DEF StrictTotal
<1>4. Cardinality(Batch) <= BatchSize
  BY <1>1, <1>2, <1>3, SizesNat, FirstOfBounded
<1>5. ASSUME Batch = {}, NEW t \in Planned PROVE FALSE
  <2>1. Cardinality(Batch \cap Outranks(Planned, Ordinals, t)) >= BatchSize
    BY <1>1, <1>2, <1>3, <1>5, SizesNat, FirstOfLead
  <2>2. Batch \cap Outranks(Planned, Ordinals, t) = {}
    BY <1>5
  <2>3. Cardinality(Batch \cap Outranks(Planned, Ordinals, t)) = 0
    BY <2>2, FS_EmptySet
  <2>4. QED
    BY <2>1, <2>3, SizesNat
<1>6. QED
  BY <1>4, <1>5

-----------------------------------------------------------------------------
(* Every part of the invariant is kept.                                    *)

LEMMA InitInv == Init => Base /\ Inserted /\ AllSettled
<1> SUFFICES ASSUME Init PROVE Base /\ Inserted /\ AllSettled
  OBVIOUS
<1>1. TypeOK
  BY TypeInit
<1>2. Exclusion /\ Imported /\ Settling /\ Planning /\ AllSettled
  BY DEF Init, Exclusion, Imported, Settling, Planning, AllSettled, Locked
<1>3. OnLedger /\ Inserted
  BY DEF Init, OnLedger, Inserted
<1>4. QED
  BY <1>1, <1>2, <1>3 DEF Base

LEMMA ExclusionStep == Base /\ [Next]_vars => Exclusion'
<1> SUFFICES ASSUME Base, [Next]_vars PROVE Exclusion'
  OBVIOUS
<1> USE DEF Base, Exclusion, Locked
<1>1. CASE Start \/ Pause \/ UNCHANGED vars
  BY <1>1 DEF Start, Pause, vars
<1>2. ASSUME NEW p \in Proc, CalmStep(p) \/ Settle(p) \/ Admit(p) PROVE Exclusion'
  <2>1. CASE TryLock(p)
    BY <2>1, NoneProc DEF TryLock, LockFree, Goto, TypeOK
  <2>2. CASE Call(p)
    BY <2>2 DEF Call, Goto, TypeOK
  <2>3. \/ TryLock(p) \/ Call(p) \/ Leave(p)
        \/ /\ UNCHANGED holder /\ pc[p] \in Locked
           /\ \E step \in Locked : Goto(p, step)
    BY <1>2 DEF CalmStep, ReadControl, CheckRuns, Complete, Budget, Enqueue, Error, Crash,
       Settle, Admit, Refuse
  <2>4. CASE Leave(p)
    BY <2>4 DEF Leave, Goto, TypeOK
  <2>5. CASE UNCHANGED holder /\ pc[p] \in Locked /\ \E step \in Locked : Goto(p, step)
    BY <2>5 DEF Goto, TypeOK
  <2>6. QED
    BY <2>1, <2>2, <2>3, <2>4, <2>5
<1>3. ASSUME NEW t \in Tasks, TaskStep(t) PROVE Exclusion'
  BY <1>3, TaskFrame
<1>4. QED
  BY <1>1, <1>2, <1>3, AdvancerSteps

LEMMA ImportedStep == Base /\ [Next]_vars => Imported'
<1> SUFFICES ASSUME Base, [Next]_vars PROVE Imported'
  OBVIOUS
<1> USE DEF Base, Imported
<1>1. CASE Start
  BY <1>1 DEF Start, TypeOK
<1>2. CASE Pause \/ UNCHANGED vars
  BY <1>2 DEF Pause, vars, ledger
<1>3. ASSUME NEW p \in Proc, CalmStep(p) \/ Settle(p) \/ Admit(p) PROVE Imported'
  <2>1. control # "none"
    BY <1>3 DEF CalmStep, Call, TryLock, ReadControl, CheckRuns, Complete, Budget, Enqueue,
       Error, Crash, Settle, Admit
  <2>2. control' # "none"
    BY <1>3, <2>1 DEF CalmStep, Call, TryLock, ReadControl, CheckRuns, Complete, Budget,
       Enqueue, Error, Crash, Settle, Admit, Refuse, ledger
  <2>3. \A t \in Tasks : state'[t] # "none"
    <3>1. CASE UNCHANGED state
      BY <2>1, <3>1
    <3>2. CASE Settle(p)
      BY <2>1, <3>2 DEF Settle
    <3>3. CASE Admit(p)
      BY <2>1, <3>3 DEF Admit, ledger
    <3>4. QED
      BY <1>3, <3>1, <3>2, <3>3 DEF CalmStep, Call, TryLock, ReadControl, CheckRuns, Complete,
         Budget, Enqueue, Error, Crash, ledger
  <2>4. QED
    BY <2>2, <2>3
<1>4. ASSUME NEW t \in Tasks, TaskStep(t) PROVE Imported'
  BY <1>4, TaskFrame DEF ledger
<1>5. QED
  BY <1>1, <1>2, <1>3, <1>4, AdvancerSteps

LEMMA EvidenceStep == Base /\ [Next]_vars => OnLedger'
<1> SUFFICES ASSUME Base, [Next]_vars, NEW t \in Tasks PROVE OnLedger!(t)'
  BY DEF OnLedger
<1> USE DEF Base
<1>0. OnLedger!(t)
  BY DEF OnLedger
<1>1. CASE Start
  <2>1. UNCHANGED <<evidence, run, report>>
    BY <1>1 DEF Start, runs
  <2>2. CASE state' = state
    BY <1>0, <2>1, <2>2
  <2>3. CASE control = "none" /\ state'[t] \in {"planned", "submitted"}
    BY <1>0, <2>1, <2>3 DEF Imported
  <2>4. QED
    BY <1>1, <2>2, <2>3 DEF Start
<1>2. CASE Still
  BY <1>0, <1>2 DEF Still
<1>3. ASSUME NEW p \in Proc, Settle(p) PROVE OnLedger!(t)'
  <2>1. CASE Unsettled
    BY <1>0, <1>3, <2>1 DEF Settle
  <2>2. CASE ~Unsettled
    <3>1. /\ evidence'[t] = IF state[t] \in Listed THEN report[t] ELSE evidence[t]
          /\ state'[t] = IF t \in Losers THEN "pruned"
                         ELSE IF state[t] \in Listed THEN "retained" ELSE state[t]
          /\ run'[t] = IF t \in Losers THEN "absent" ELSE run[t]
          /\ report' = report
      BY <1>3, <2>2 DEF Settle, Settled, Scores
    <3>2. t \in Losers => state[t] \in Listed
      BY DEF Losers
    <3>3. state[t] \in Listed => run[t] = "completed" /\ report[t] # Unfit
      BY <1>3, <2>2 DEF Settling, Settle, Unsettled
    <3>4. QED
      BY <1>0, <3>1, <3>2, <3>3 DEF Listed
  <2>3. QED
    BY <2>1, <2>2
<1>4. ASSUME NEW p \in Proc, Admit(p) PROVE OnLedger!(t)'
  <2>1. UNCHANGED <<evidence, report>>
    BY <1>4 DEF Admit, ledger
  <2>2. \/ state'[t] = state[t] /\ run'[t] = run[t]
        \/ state[t] = "planned" /\ state'[t] = "submitted"
    BY <1>4 DEF Admit, ledger, Batch, TypeOK
  <2>3. QED
    BY <1>0, <2>1, <2>2
<1>5. QED
  BY <1>1, <1>2, <1>3, <1>4, StillFrame

LEMMA SettlingStep == Base /\ [Next]_vars => Settling'
<1> SUFFICES ASSUME Base, [Next]_vars,
                    NEW p \in Proc, pc'[p] = "settle", NEW t \in Tasks, state'[t] \in Listed
             PROVE  run'[t] = "completed"
  BY DEF Settling
<1> USE DEF Base
<1>1. pc[p] = "settle" => holder = p /\ (state[t] \in Listed => run[t] = "completed")
  BY DEF Exclusion, Settling, Locked
<1>2. CASE Start
  BY <1>1, <1>2, NoneProc DEF Start, runs
<1>3. CASE Pause \/ UNCHANGED vars
  BY <1>1, <1>3 DEF Pause, vars, ledger, runs
<1>4. ASSUME NEW q \in Proc, CalmStep(q), pc'[p] # pc[p] PROVE run'[t] = "completed"
  <2>1. CheckRuns(q) /\ p = q
    BY <1>4 DEF CalmStep, Call, TryLock, ReadControl, CheckRuns, Complete, Budget, Enqueue,
       Error, Crash, Refuse, Leave, Goto, TypeOK
  <2>2. /\ ~\E s \in Tasks : state[s] \in Listed /\ run[s] \in {"absent", "ended"}
        /\ Open = {}
    BY <2>1, <1>4 DEF CheckRuns, Refuse, Leave, Goto, TypeOK
  <2>3. UNCHANGED <<state, run>>
    BY <2>1 DEF CheckRuns, runs
  <2>4. QED
    BY <2>2, <2>3 DEF Open, TypeOK
<1>5. ASSUME NEW q \in Proc, CalmStep(q), pc'[p] = pc[p] PROVE run'[t] = "completed"
  <2>1. UNCHANGED <<state, run>>
    BY <1>5 DEF CalmStep, Call, TryLock, ReadControl, CheckRuns, Complete, Budget, Enqueue,
       Error, Crash, ledger, runs
  <2>2. QED
    BY <1>1, <1>5, <2>1
<1>6. ASSUME NEW q \in Proc, Settle(q) \/ Admit(q) PROVE run'[t] = "completed"
  <2>1. pc[q] \in {"settle", "admit"} /\ pc' = [pc EXCEPT ![q] = pc'[q]] /\ pc'[q] # "settle"
    BY <1>6 DEF Settle, Admit, Refuse, Leave, Goto, TypeOK
  <2>2. p # q /\ pc[p] = "settle"
    BY <2>1 DEF TypeOK
  <2>3. QED
    BY <1>1, <2>1, <2>2 DEF Exclusion, Locked
<1>7. ASSUME NEW s \in Tasks, TaskStep(s) PROVE run'[t] = "completed"
  BY <1>1, <1>7, TaskFrame DEF Still, ledger
<1>8. QED
  BY <1>2, <1>3, <1>4, <1>5, <1>6, <1>7, AdvancerSteps

LEMMA PlanningStep == Base /\ [Next]_vars => Planning'
<1> SUFFICES ASSUME Base, [Next]_vars,
                    NEW p \in Proc, pc'[p] \in {"plan", "admit"}, NEW t \in Tasks
             PROVE  state'[t] # "submitted"
  BY DEF Planning
<1> USE DEF Base
<1>1. pc[p] \in {"plan", "admit"} => holder = p /\ state[t] # "submitted"
  BY DEF Exclusion, Planning, Locked
<1>2. CASE Start
  BY <1>1, <1>2, NoneProc DEF Start
<1>3. CASE Pause \/ UNCHANGED vars
  BY <1>1, <1>3 DEF Pause, vars, ledger
<1>4. ASSUME NEW q \in Proc, CalmStep(q) PROVE state'[t] # "submitted"
  <2>1. UNCHANGED state
    BY <1>4 DEF CalmStep, Call, TryLock, ReadControl, CheckRuns, Complete, Budget, Enqueue,
       Error, Crash, ledger
  <2>2. pc[p] \in {"plan", "admit"}
    BY <1>4 DEF CalmStep, Call, TryLock, ReadControl, CheckRuns, Complete, Budget, Enqueue,
       Error, Crash, Refuse, Leave, Goto, TypeOK
  <2>3. QED
    BY <1>1, <2>1, <2>2
<1>5. ASSUME NEW q \in Proc, Settle(q) PROVE state'[t] # "submitted"
  <2>1. CASE Unsettled
    <3>1. p # q /\ pc[p] \in {"plan", "admit"}
      BY <1>5, <2>1 DEF Settle, Refuse, Leave, Goto, TypeOK
    <3>2. QED
      BY <1>1, <1>5, <3>1 DEF Exclusion, Locked, Settle
  <2>2. CASE ~Unsettled
    BY <1>5, <2>2 DEF Settle, Listed, TypeOK
  <2>3. QED
    BY <2>1, <2>2
<1>6. ASSUME NEW q \in Proc, Admit(q) PROVE state'[t] # "submitted"
  <2>1. p # q /\ pc[p] \in {"plan", "admit"}
    BY <1>6 DEF Admit, Refuse, Leave, Goto, TypeOK
  <2>2. QED
    BY <1>1, <1>6, <2>1 DEF Exclusion, Locked, Admit
<1>7. ASSUME NEW s \in Tasks, TaskStep(s) PROVE state'[t] # "submitted"
  BY <1>1, <1>7, TaskFrame DEF Still
<1>8. QED
  BY <1>2, <1>3, <1>4, <1>5, <1>6, <1>7, AdvancerSteps

LEMMA InsertedStep == Base /\ Inserted /\ [Next]_vars => Inserted'
<1> SUFFICES ASSUME Base, Inserted, [Next]_vars, NEW t \in Tasks PROVE Inserted!(t)'
  BY DEF Inserted
<1> USE DEF Base
<1>0. Inserted!(t) /\ made[t] \in Nat
  BY DEF Inserted, TypeOK
<1>1. CASE Start
  BY <1>0, <1>1 DEF Start, runs, Imported
<1>2. CASE Still
  BY <1>0, <1>2 DEF Still
<1>3. ASSUME NEW p \in Proc, Settle(p) PROVE Inserted!(t)'
  BY <1>0, <1>3 DEF Settle, Losers, Listed
<1>4. ASSUME NEW p \in Proc, Admit(p) PROVE Inserted!(t)'
  <2>1. CASE UNCHANGED <<state, run, made>>
    BY <1>0, <2>1
  <2>2. CASE /\ state'[t] = IF t \in Batch THEN "submitted" ELSE state[t]
             /\ made'[t] = IF t \in Batch THEN made[t] + 1 ELSE made[t]
             /\ run'[t] = IF t \in Batch THEN "open" ELSE run[t]
    BY <1>0, <2>2 DEF Batch
  <2>3. QED
    BY <1>4, <2>1, <2>2 DEF Admit, ledger, TypeOK
<1>5. QED
  BY <1>1, <1>2, <1>3, <1>4, StillFrame

LEMMA AllSettledStep == Base /\ AllSettled /\ [Next]_vars => AllSettled'
<1> SUFFICES ASSUME Base, AllSettled, [Next]_vars, control' = "completed", NEW t \in Tasks
             PROVE  state'[t] \in {"retained", "pruned"}
  BY DEF AllSettled
<1> USE DEF Base
<1>1. CASE Start \/ Pause \/ UNCHANGED vars
  BY <1>1 DEF Start, Pause, vars, ledger, AllSettled
<1>2. ASSUME NEW p \in Proc, Complete(p) PROVE state'[t] \in {"retained", "pruned"}
  <2>1. UNCHANGED state /\ pc[p] = "plan" /\ t \notin Planned
    BY <1>2, BatchBounded DEF Complete
  <2>2. control # "none"
    BY <2>1 DEF Imported
  <2>3. QED
    BY <2>1, <2>2 DEF Imported, Planning, Planned, TypeOK, Listed
<1>3. ASSUME NEW p \in Proc, CalmStep(p), ~Complete(p) PROVE state'[t] \in {"retained", "pruned"}
  BY <1>3 DEF CalmStep, Call, TryLock, ReadControl, CheckRuns, Budget, Enqueue, Error, Crash,
     Refuse, ledger, AllSettled
<1>4. ASSUME NEW p \in Proc, Settle(p) PROVE state'[t] \in {"retained", "pruned"}
  BY <1>4 DEF Settle, Refuse, AllSettled, Listed
<1>5. ASSUME NEW p \in Proc, Admit(p) PROVE state'[t] \in {"retained", "pruned"}
  BY <1>5 DEF Admit, MayAdmit, Refuse, ledger, AllSettled
<1>6. ASSUME NEW s \in Tasks, TaskStep(s) PROVE state'[t] \in {"retained", "pruned"}
  BY <1>6, TaskFrame DEF ledger, AllSettled
<1>7. QED
  BY <1>1, <1>2, <1>3, <1>4, <1>5, <1>6, AdvancerSteps

LEMMA OneWaveStep == Base /\ OneWave /\ [Next]_vars => OneWave'
<1> DEFINE Submitted == {t \in Tasks : state[t] = "submitted"}
<1> SUFFICES ASSUME Base, OneWave, [Next]_vars PROVE OneWave'
  OBVIOUS
<1> USE DEF Base
<1>1. CASE UNCHANGED <<wave, waveOf, state>>
  BY <1>1 DEF OneWave
<1>2. CASE Start /\ control = "none"
  BY <1>2 DEF Start, OneWave, Imported
<1>3. ASSUME NEW p \in Proc, Settle(p), ~Unsettled PROVE OneWave'
  <2>1. \A t \in Tasks : state'[t] # "submitted"
    BY <1>3 DEF Settle, Listed, TypeOK
  <2>2. Submitted' = {} /\ Cardinality(Submitted') = 0
    BY <2>1, FS_EmptySet
  <2>3. QED
    BY <2>1, <2>2, SizesNat DEF OneWave
<1>4. ASSUME NEW p \in Proc, Admit(p), ~UNCHANGED <<wave, waveOf, state>> PROVE OneWave'
  <2>1. pc[p] = "admit"
    BY <1>4 DEF Admit
  <2>2. \A t \in Tasks : state[t] # "submitted"
    BY <2>1 DEF Planning
  <2>3. \A t \in Tasks : /\ state'[t] = IF t \in Batch THEN "submitted" ELSE state[t]
                         /\ waveOf'[t] = IF t \in Batch THEN wave + 1 ELSE waveOf[t]
    BY <1>4 DEF Admit, ledger, TypeOK
  <2>4. \A t \in Tasks : state'[t] = "submitted" <=> t \in Batch
    BY <2>2, <2>3
  <2>5. Submitted' = Batch
    BY <2>4 DEF Batch
  <2>6. Cardinality(Submitted') <= BatchSize
    BY <2>5, BatchBounded
  <2>7. QED
    BY <2>3, <2>4, <2>6 DEF OneWave
<1>5. Still \/ Start => UNCHANGED <<wave, waveOf, state>> \/ (Start /\ control = "none")
  BY DEF Still, Start
<1>6. ASSUME NEW p \in Proc, Settle(p), Unsettled PROVE UNCHANGED <<wave, waveOf, state>>
  BY <1>6 DEF Settle
<1>7. QED
  BY <1>1, <1>2, <1>3, <1>4, <1>5, <1>6, StillFrame

\* What a settlement that is not rolled back leaves: the winners are the retained.
LEMMA SettledRanking ==
  ASSUME Base, NEW p \in Proc, Settle(p), ~Unsettled
  PROVE  /\ Scores \in [Tasks -> Ranks \cup {Unfit}]
         /\ \A t \in Tasks : Scores[t] # Unfit <=> state[t] \in Listed \cup {"pruned"}
         /\ \A t \in Tasks : Scores[t] # Unfit => Scores[t] = report[t]
         /\ \A t \in Tasks : state'[t] = "retained" <=> t \in Winners(Scores)
         /\ \A t \in Tasks : state'[t] = "pruned" <=> Scores[t] # Unfit /\ t \notin Winners(Scores)
         /\ \A t \in Winners(Scores) : run[t] = "completed" /\ run'[t] = "completed"
         /\ UNCHANGED report
<1> USE DEF Base
<1>1. Scores \in [Tasks -> Ranks \cup {Unfit}]
  BY DEF Scores, TypeOK
<1>2. \A t \in Tasks : Scores[t] = IF state[t] \in Listed THEN report[t] ELSE evidence[t]
  BY DEF Scores
<1>3. \A t \in Tasks : state[t] \in Listed => report[t] # Unfit /\ run[t] = "completed"
  BY DEF Unsettled, Settling, Settle
<1>4. \A t \in Tasks : Scores[t] # Unfit <=> state[t] \in Listed \cup {"pruned"}
  BY <1>2, <1>3 DEF OnLedger, Listed, TypeOK
<1>5. \A t \in Tasks : Scores[t] # Unfit => Scores[t] = report[t]
  BY <1>2, <1>3, <1>4 DEF OnLedger, Listed
<1>6. \A t \in Winners(Scores) : t \in Tasks /\ Scores[t] # Unfit /\ state[t] # "pruned"
  BY DEF Winners, Unsettled
<1>7. \A t \in Winners(Scores) : state[t] \in Listed
  BY <1>4, <1>6
<1>8. \A t \in Tasks : /\ state'[t] = IF t \in Losers THEN "pruned"
                                      ELSE IF state[t] \in Listed THEN "retained" ELSE state[t]
                       /\ run'[t] = IF t \in Losers THEN "absent" ELSE run[t]
  BY DEF Settle
<1>9. \A t \in Tasks : t \in Losers <=> state[t] \in Listed /\ t \notin Winners(Scores)
  BY DEF Losers
<1>10. \A t \in Tasks : state'[t] = "retained" <=> t \in Winners(Scores)
  BY <1>7, <1>8, <1>9 DEF Listed
<1>11. \A t \in Tasks : state'[t] = "pruned" <=> Scores[t] # Unfit /\ t \notin Winners(Scores)
  BY <1>4, <1>6, <1>8, <1>9 DEF Listed
<1>12. \A t \in Winners(Scores) : run[t] = "completed" /\ run'[t] = "completed"
  BY <1>3, <1>6, <1>7, <1>8, <1>9
<1>13. UNCHANGED report
  BY DEF Settle
<1>14. QED
  BY <1>1, <1>4, <1>5, <1>10, <1>11, <1>12, <1>13

\* Outside a settlement the retained and the pruned tasks, and their runs, stay as they are.
LEMMA VerdictsStay ==
  ASSUME Base, [Next]_vars, \A p \in Proc : Settle(p) => Unsettled, NEW t \in Tasks
  PROVE  /\ state'[t] = "retained" <=> state[t] = "retained"
         /\ state'[t] = "pruned" <=> state[t] = "pruned"
         /\ state[t] \in {"retained", "pruned"} => run'[t] = run[t] /\ report'[t] = report[t]
<1> USE DEF Base
<1>1. CASE Start
  BY <1>1 DEF Start, Imported, runs
<1>2. CASE Still
  BY <1>2 DEF Still, OnLedger
<1>3. ASSUME NEW p \in Proc, Settle(p), Unsettled
      PROVE  UNCHANGED <<state, run, report>>
  BY <1>3 DEF Settle
<1>4. ASSUME NEW p \in Proc, Admit(p)
      PROVE  /\ report' = report
             /\ \/ state'[t] = state[t] /\ run'[t] = run[t]
                \/ state[t] = "planned" /\ state'[t] = "submitted"
  <2>1. report' = report
    BY <1>4 DEF Admit
  <2>2. \/ state'[t] = state[t] /\ run'[t] = run[t]
        \/ state[t] = "planned" /\ state'[t] = "submitted"
    BY <1>4 DEF Admit, ledger, Batch, TypeOK
  <2>3. QED
    BY <2>1, <2>2
<1>5. QED
  BY <1>1, <1>2, <1>3, <1>4, StillFrame

LEMMA KeepHeldStep == Base /\ KeepHeld /\ [Next]_vars => KeepHeld'
<1> SUFFICES ASSUME Base, KeepHeld, [Next]_vars, NEW t \in Tasks
             PROVE  Cardinality(RetainedOf(ChainOf[t])') <= Keep
  BY DEF KeepHeld, RetainedOf
<1>1. CASE \A p \in Proc : Settle(p) => Unsettled
  <2>1. RetainedOf(ChainOf[t])' = RetainedOf(ChainOf[t])
    BY <1>1, VerdictsStay DEF RetainedOf
  <2>2. QED
    BY <2>1 DEF KeepHeld
<1>2. ASSUME NEW p \in Proc, Settle(p), ~Unsettled
      PROVE  Cardinality(RetainedOf(ChainOf[t])') <= Keep
  <2>1. /\ Scores \in [Tasks -> Ranks \cup {Unfit}]
        /\ \A s \in Tasks : state'[s] = "retained" <=> s \in Winners(Scores)
    BY <1>2, SettledRanking
  <2>2. RetainedOf(ChainOf[t])' = {s \in Winners(Scores) : ChainOf[s] = ChainOf[t]}
    BY <2>1 DEF RetainedOf, Winners
  <2>3. QED
    BY <2>1, <2>2, WinnersBounded
<1>3. QED
  BY <1>1, <1>2

LEMMA LeadersStep == Base /\ LeadersSurvive /\ [Next]_vars => LeadersSurvive'
<1> DEFINE Leaders(t) == {s \in Tasks : /\ ChainOf[s] = ChainOf[t] /\ state[s] = "retained"
                                        /\ run[s] = "completed" /\ Beats(s, t, report)}
<1> SUFFICES ASSUME Base, LeadersSurvive, [Next]_vars, NEW t \in Tasks, state'[t] = "pruned"
             PROVE  Cardinality(Leaders(t)') >= Keep
  BY DEF LeadersSurvive
<1>1. CASE \A p \in Proc : Settle(p) => Unsettled
  <2>1. state[t] = "pruned"
    BY <1>1, VerdictsStay
  <2>2. \A s \in Tasks : /\ state'[s] = "retained" <=> state[s] = "retained"
                         /\ state[s] \in {"retained", "pruned"} =>
                              run'[s] = run[s] /\ report'[s] = report[s]
    BY <1>1, VerdictsStay
  <2>3. Leaders(t)' = Leaders(t)
    BY <2>1, <2>2 DEF Beats
  <2>4. QED
    BY <2>1, <2>3 DEF LeadersSurvive
<1>2. ASSUME NEW p \in Proc, Settle(p), ~Unsettled
      PROVE  Cardinality(Leaders(t)') >= Keep
  <2> DEFINE Lead == {s \in Winners(Scores) : ChainOf[s] = ChainOf[t] /\ Beats(s, t, Scores)}
  <2>1. /\ Scores \in [Tasks -> Ranks \cup {Unfit}]
        /\ \A s \in Tasks : Scores[s] # Unfit => Scores[s] = report[s]
        /\ \A s \in Tasks : state'[s] = "retained" <=> s \in Winners(Scores)
        /\ Scores[t] # Unfit /\ t \notin Winners(Scores)
        /\ \A s \in Winners(Scores) : run'[s] = "completed"
        /\ UNCHANGED report
    BY <1>2, SettledRanking
  <2>2. \A s \in Winners(Scores) : s \in Tasks /\ Scores[s] # Unfit
    BY DEF Winners
  <2>3. Leaders(t)' = Lead
    BY <2>1, <2>2 DEF Beats
  <2>4. Cardinality(Lead) >= Keep
    BY <2>1, WinnersLead
  <2>5. QED
    BY <2>3, <2>4
<1>3. QED
  BY <1>1, <1>2

LEMMA InitCounts == Init => KeepHeld /\ OneWave /\ LeadersSurvive
<1> SUFFICES ASSUME Init PROVE KeepHeld /\ OneWave /\ LeadersSurvive
  OBVIOUS
<1>1. ASSUME NEW t \in Tasks PROVE Cardinality(RetainedOf(ChainOf[t])) <= Keep
  <2>1. RetainedOf(ChainOf[t]) = {}
    BY DEF Init, RetainedOf
  <2>2. QED
    BY <2>1, FS_EmptySet, SizesNat
<1>2. OneWave /\ LeadersSurvive
  BY DEF Init, OneWave, LeadersSurvive
<1>3. QED
  BY <1>1, <1>2 DEF KeepHeld

-----------------------------------------------------------------------------
(* The theorems.                                                           *)

LEMMA BaseStep == Base /\ [Next]_vars => Base'
BY TypeStep, ExclusionStep, ImportedStep, EvidenceStep, SettlingStep, PlanningStep DEF Base

\* The invariant the safety properties follow from holds in every reachable state, for
\* every manifest and any number of advancers.
THEOREM RollingInductive == Spec => []IInv
<1>1. Init => IInv
  BY InitInv, InitCounts DEF IInv
<1>2. IInv /\ [Next]_vars => IInv'
  BY BaseStep, InsertedStep, AllSettledStep, KeepHeldStep, OneWaveStep, LeadersStep DEF IInv
<1>3. QED
  BY <1>1, <1>2, PTL DEF Spec

\* The ledger, the runs and the advancers keep their types.
THEOREM RollingTypes == Spec => []TypeOK
<1>1. IInv => TypeOK
  BY DEF IInv, Base
<1>2. QED
  BY <1>1, RollingInductive, PTL

\* The advisory lock lets one advancer at a time read, settle and admit (advanceRolling).
THEOREM AdvancersExclude == Spec => []Exclusion
<1>1. IInv => Exclusion
  BY DEF IInv, Base
<1>2. QED
  BY <1>1, RollingInductive, PTL

\* Whatever was deleted over all waves, Keep better runs of its chain still exist, and its
\* score is in the ledger (advanceRolling, winningIds).
THEOREM LeadersAreKept == Spec => []LeadersKept
<1>1. IInv => LeadersKept
  BY DEF IInv, Base, OnLedger, LeadersKept, EvidenceOutlives
<1>2. QED
  BY <1>1, RollingInductive, PTL

\* Every task runs once, one wave at a time within its size, and a completed batch has
\* ranked all of them and retained at most Keep of a chain (advanceRolling).
THEOREM WavesAreInOrder == Spec => []WavesInOrder
<1>1. IInv => WavesInOrder
  <2> SUFFICES ASSUME IInv PROVE WavesInOrder
    OBVIOUS
  <2>1. RunOnce /\ OneWave
    BY DEF IInv, Inserted, RunOnce
  <2>2. DoneMeansDone
    BY DEF IInv, Base, AllSettled, OnLedger, KeepHeld, RetainedOf, DoneMeansDone
  <2>3. QED
    BY <2>1, <2>2 DEF WavesInOrder
<1>2. QED
  BY <1>1, RollingInductive, PTL

\* No step adds work to a paused batch or deletes a run that is not a completed, unreferenced
\* loser whose score is kept, however old the reads of the cycle are (advanceRolling).
THEOREM CommitsAreFresh == Spec => CommitsOnFreshReads
<1> DEFINE Admits  == control = "paused" => \A t \in Tasks : run[t] = "absent" => run'[t] = "absent"
           Deletes == \A t \in Tasks : run[t] # "absent" /\ run'[t] = "absent" =>
                        run[t] = "completed" /\ ~child[t] /\ evidence'[t] = report[t]
<1>1. IInv /\ [Next]_vars => Admits
  <2> SUFFICES ASSUME Base, [Next]_vars, control = "paused",
                      NEW t \in Tasks, run[t] = "absent"
               PROVE  run'[t] = "absent"
    BY DEF IInv
  <2>1. CASE Start \/ Still
    BY <2>1 DEF Start, Still, runs
  <2>2. ASSUME NEW p \in Proc, Settle(p) \/ Admit(p) PROVE run'[t] = "absent"
    BY <2>2 DEF Settle, Admit, MayAdmit
  <2>3. QED
    BY <2>1, <2>2, StillFrame DEF Base
<1>2. IInv /\ [Next]_vars => Deletes
  <2> SUFFICES ASSUME Base, [Next]_vars, NEW t \in Tasks, run[t] # "absent", run'[t] = "absent"
               PROVE  run[t] = "completed" /\ ~child[t] /\ evidence'[t] = report[t]
    BY DEF IInv
  <2>1. PICK p \in Proc : Settle(p)
    <3>1. ~(Start \/ Still)
      BY DEF Start, Still, runs
    <3>2. ASSUME NEW p \in Proc, Admit(p) PROVE FALSE
      BY <3>2 DEF Admit, Base, TypeOK
    <3>3. QED
      BY <3>1, <3>2, StillFrame DEF Base
  <2>2. ~Unsettled /\ t \in Losers
    BY <2>1 DEF Settle, Base, TypeOK
  <2>3. state[t] \in Listed /\ ~child[t]
    BY <2>2 DEF Unsettled, Losers
  <2>4. run[t] = "completed"
    BY <2>1, <2>3 DEF Base, Settling, Settle
  <2>5. evidence'[t] = report[t]
    BY <2>1, <2>2, <2>3 DEF Settle, Settled, Scores
  <2>6. QED
    BY <2>3, <2>4, <2>5
<1>3. QED
  BY <1>1, <1>2, RollingInductive, PTL DEF Spec, CommitsOnFreshReads, PausedAdmitsNothing, DeletesOnlyLosers
=============================================================================
