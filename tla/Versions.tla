------------------------------ MODULE Versions ------------------------------
(* Strategy templates and their numbered versions (apps/api main.ts).  Two      *)
(* requests may add a version to one template at once: each does so in a        *)
(* transaction of its own, which may roll back at any statement.                *)
EXTENDS Integers, FiniteSets, FiniteSetsExt

CONSTANTS
  Callers,      \* concurrent requests
  Contents,     \* what a strategy says
  MaxTemplates, \* bound: templates made
  MaxVersions,  \* bound: versions of a template
  MaxBroken     \* bound: statements that fail

VARIABLES
  templates,  \* committed: template -> [current, status], current a version or 0
  versions,   \* committed: [id, template, number, content, rule], id in the order of insertion
  requests,   \* caller -> what it is doing
  lockOf,     \* the template's row lock: caller or Free
  nextId,     \* the version ids drawn so far
  broken,     \* statements that failed
  refused     \* history: a version refused as a duplicate of (template_id, version)
vvars == <<templates, versions, requests, lockOf, nextId, broken, refused>>

Free == "free"
ASSUME FreeIsNobody == Free \notin Callers
NoRequest == [at |-> "none"]
VersionsOf(t) == {v \in versions : v.template = t}
VersionsInit ==
  /\ templates = <<>> /\ versions = {} /\ lockOf = <<>>
  /\ requests = [c \in Callers |-> NoRequest] /\ nextId = 0 /\ broken = 0 /\ refused = FALSE

Goes(c, r) == requests' = [requests EXCEPT ![c] = r]
(* insertVersion stores the current rule whatever the strategy came with.       *)
VersionRow(id, t, n, content) == [id |-> id, template |-> t, number |-> n, content |-> content, rule |-> "v2"]

(* createTemplate, with a strategy or without: nobody else sees the template    *)
(* before the commit, its version is the first.                                 *)
MakeTemplate(strategies, status) ==
  LET t == Cardinality(DOMAIN templates) + 1 IN
  /\ t <= MaxTemplates
  /\ nextId' = nextId + Cardinality(strategies)
  /\ versions' = versions \cup {VersionRow(nextId + 1, t, 1, s) : s \in strategies}
  /\ templates' = [u \in DOMAIN templates \cup {t} |->
       IF u = t THEN [current |-> IF strategies = {} THEN 0 ELSE nextId + 1, status |-> status] ELSE templates[u]]
  /\ lockOf' = [u \in DOMAIN templates' |-> IF u = t THEN Free ELSE lockOf[u]]
  /\ UNCHANGED <<requests, broken, refused>>
CreateTemplate == \E s \in {{}} \cup {{x} : x \in Contents}, status \in {"draft", "archived"} : MakeTemplate(s, status)
CloneVersion == \E v \in versions : MakeTemplate({v.content}, "draft")

(* patchTemplate: one UPDATE, which waits for the row's lock.                   *)
PatchTemplate(t, status) ==
  /\ lockOf[t] = Free /\ templates[t].status # status
  /\ templates' = [templates EXCEPT ![t].status = status]
  /\ UNCHANGED <<versions, requests, lockOf, nextId, broken, refused>>

(* createVersion: template found and strategy valid, then the transaction.      *)
CreateVersion(c, t, content) ==
  /\ requests[c] = NoRequest
  /\ Goes(c, [at |-> "begun", t |-> t, content |-> content, n |-> 0, id |-> 0])
  /\ UNCHANGED <<templates, versions, lockOf, nextId, broken, refused>>
(* SELECT .. FOR UPDATE, the number read under it, the row, current_version_id. *)
(* Mutant: the row is read without FOR UPDATE.                                  *)
LockTemplate_Unlocked(c) == lockOf' = lockOf
LockTemplate(c) == lockOf[requests[c].t] = Free /\ lockOf' = [lockOf EXCEPT ![requests[c].t] = c]
Number(c) ==
  LET r == requests[c] IN
  \/ /\ r.at = "begun" /\ LockTemplate(c) /\ Goes(c, [r EXCEPT !.at = "locked"])
     /\ UNCHANGED <<templates, versions, nextId, broken, refused>>
  \/ /\ r.at = "locked"
     /\ \E n \in 1..MaxVersions : n = Max({0} \cup {v.number : v \in VersionsOf(r.t)}) + 1 /\ Goes(c, [r EXCEPT !.at = "numbered", !.n = n])
     /\ UNCHANGED <<templates, versions, lockOf, nextId, broken, refused>>
Unlocked(c) == [t \in DOMAIN lockOf |-> IF lockOf[t] = c THEN Free ELSE lockOf[t]]
(* UNIQUE(template_id, version): a row of the same number that is not committed *)
(* is waited for, one that is makes the insert fail.                            *)
Insert(c) ==
  LET r == requests[c] IN
  /\ r.at = "numbered" /\ \A d \in Callers : requests[d].at = "inserted" => requests[d].t # r.t \/ requests[d].n # r.n
  /\ nextId' = nextId + 1
  /\ IF \E v \in VersionsOf(r.t) : v.number = r.n
     THEN Goes(c, NoRequest) /\ lockOf' = Unlocked(c) /\ refused' = TRUE
     ELSE Goes(c, [r EXCEPT !.at = "inserted", !.id = nextId + 1]) /\ UNCHANGED <<lockOf, refused>>
  /\ UNCHANGED <<templates, versions, broken>>
SetCurrent(c) ==   \* the UPDATE of the template needs its row lock too
  LET r == requests[c] IN
  /\ r.at = "inserted" /\ lockOf[r.t] \in {c, Free}
  /\ versions' = versions \cup {VersionRow(r.id, r.t, r.n, r.content)}
  /\ templates' = [templates EXCEPT ![r.t].current = r.id]
  /\ Goes(c, NoRequest) /\ lockOf' = Unlocked(c)
  /\ UNCHANGED <<nextId, broken, refused>>
(* ROLLBACK and release: the description cannot be generated, a statement fails.*)
RollBack(c) ==
  /\ requests[c] # NoRequest /\ broken < MaxBroken /\ broken' = broken + 1
  /\ Goes(c, NoRequest) /\ lockOf' = Unlocked(c)
  /\ UNCHANGED <<templates, versions, nextId, refused>>

VersionsNext ==
  \/ CreateTemplate \/ CloneVersion
  \/ \E t \in DOMAIN templates : \E s \in {"draft", "archived"} : PatchTemplate(t, s)
  \/ \E t \in DOMAIN templates, c \in Callers, x \in Contents : CreateVersion(c, t, x)
  \/ \E c \in Callers : Number(c) \/ Insert(c) \/ SetCurrent(c) \/ RollBack(c)

(* The versions of a template are numbered 1, 2, 3 .. without a gap, whatever   *)
(* rolls back between two of them, the current one is the newest, and two       *)
(* requests that add a version at once both succeed.                            *)
VersionsInOrder ==
  /\ ~refused
  /\ \A t \in DOMAIN templates :
       /\ {v.number : v \in VersionsOf(t)} = 1..Cardinality(VersionsOf(t))
       /\ \A v \in VersionsOf(t) : v.id = templates[t].current <=> v.number = Cardinality(VersionsOf(t))
=============================================================================
