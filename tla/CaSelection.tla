----------------------------- MODULE CaSelection -----------------------------
(* useCaSelection: the tokens a user selects for a backtest.  Selecting a      *)
(* chain selects all its tokens; the list that is shown and the full names are *)
(* requested apart, and every request may be overtaken by what the user does   *)
(* next: the epochs tell an answer that still counts from one that does not.   *)
(* Pages of an answer are not modelled: a request answers once, or fails.      *)
EXTENDS Integers, FiniteSets

CONSTANTS
  Market,       \* dimension -> the tokens with data in it, of [chain, ca]
  Terms,        \* what may be searched for, Everything included
  MaxDeeds      \* bound: what the user does

VARIABLES
  form,   \* [dim, chains, search, excluded, selected, rows, listLoading, listError, bulkLoading, bulkError]
  epochs, \* [list, bulk]
  calls,  \* requests that are out
  deeds,
  muted   \* history: a late retry took away the error of a newer selection
uvars == <<form, epochs, calls, deeds, muted>>

Everything == "all"
Chains == {r.chain : r \in UNION {Market[d] : d \in DOMAIN Market}}
Params(f) == [dim |-> f.dim, chains |-> f.chains, search |-> f.search]
(* baseParams and listParams, answered.                                        *)
OfChains(p) == {r \in Market[p.dim] : p.chains = {} \/ r.chain \in p.chains}
Shown(p) == {r \in OfChains(p) : p.search \in {Everything, r.ca}}
Blocked(f) == f.listLoading \/ f.bulkLoading \/ f.listError \/ f.bulkError

(* What a step does to the form, the epochs and the calls, in that order.      *)
Selecting(f, e, c) == [f |-> f, e |-> e, c |-> c]
LoadList(x, again) ==
  Selecting([x.f EXCEPT !.listLoading = TRUE, !.listError = FALSE], [x.e EXCEPT !.list = @ + 1],
       x.c \cup {[kind |-> "list", epoch |-> x.e.list + 1, again |-> again, p |-> Params(x.f)]})
Bulk(x, kind) ==
  Selecting([x.f EXCEPT !.bulkLoading = TRUE, !.bulkError = FALSE], [x.e EXCEPT !.bulk = @ + 1],
       x.c \cup {[kind |-> kind, epoch |-> x.e.bulk + 1, again |-> FALSE, p |-> Params(x.f)]})
NoBulk(x) == Selecting([x.f EXCEPT !.bulkLoading = FALSE, !.bulkError = FALSE], [x.e EXCEPT !.bulk = @ + 1], x.c)
SyncChains(x) == IF x.f.chains = {} THEN NoBulk(x) ELSE Bulk(x, "sync")
SelectAllOf(x) == IF Blocked(x.f) THEN x ELSE Bulk(x, "all")
(* The synchronous watcher on the dimension and the chains.                    *)
Watcher(x, removed) ==
  LET f == [x.f EXCEPT !.selected = {r \in @ : r.chain \notin removed}, !.excluded = {r \in @ : r.chain \in x.f.chains}]
  IN SyncChains(LoadList(Selecting(f, x.e, x.c), FALSE))

Now == Selecting(form, epochs, calls)
Becomes(x) == form' = x.f /\ epochs' = x.e /\ calls' = x.c
SelectionInit ==
  /\ deeds = 0 /\ muted = FALSE
  /\ \E d \in DOMAIN Market :
       LET x == Watcher(Selecting([dim |-> d, chains |-> {}, search |-> Everything, excluded |-> {}, selected |-> {}, rows |-> {},
                    listLoading |-> FALSE, listError |-> FALSE, bulkLoading |-> FALSE, bulkError |-> FALSE],
                  [list |-> 0, bulk |-> 0], {}), {})
       IN form = x.f /\ epochs = x.e /\ calls = x.c

Does(x) == deeds < MaxDeeds /\ deeds' = deeds + 1 /\ Becomes(x) /\ UNCHANGED muted
SetDimension == \E d \in DOMAIN Market \ {form.dim} : Does(Watcher([Now EXCEPT !.f.dim = d], {}))
SetChains ==
  \E cs \in SUBSET Chains \ {form.chains} : Does(Watcher([Now EXCEPT !.f.chains = cs], form.chains \ cs))
Search ==
  \E s \in Terms :
    LET x == [Now EXCEPT !.f.search = s] IN Does(LoadList(IF form.chains = {} THEN NoBulk(x) ELSE x, FALSE))
(* change: the rows shown are ticked or not, what is selected elsewhere stays. *)
Change ==
  /\ ~Blocked(form)
  /\ \E ticked \in SUBSET form.rows :
       LET own == {r \in form.rows : r.chain \in form.chains} IN
       Does(Selecting([form EXCEPT !.excluded = (@ \ (own \cap ticked)) \cup (own \ ticked),
                              !.selected = (@ \ form.rows) \cup ticked], epochs, calls))
SelectAll == ~Blocked(form) /\ Does(SelectAllOf(Now))
ClearForm ==
  LET x == IF form.chains = {} THEN Now ELSE Watcher([NoBulk(Now) EXCEPT !.f.chains = {}], form.chains)
  IN Does(Selecting([NoBulk(x).f EXCEPT !.excluded = {}, !.selected = {}], NoBulk(x).e, x.c))
RetryForm ==
  /\ form.listError \/ form.bulkError
  /\ Does(IF form.chains # {} THEN SyncChains(LoadList(Now, FALSE)) ELSE LoadList(Now, form.bulkError))

(* An answer.  One that is overtaken changes nothing; the retry of a failed    *)
(* selection goes on after its list, overtaken or not.                         *)
(* Mutant: a selection is not overtaken.                                       *)
Counts_ListOnly(c) == c.kind = "list" => c.epoch = epochs.list
Counts(c) == c.epoch = IF c.kind = "list" THEN epochs.list ELSE epochs.bulk
Answered(c) ==
  Selecting(IF ~Counts(c) THEN form
       ELSE CASE c.kind = "list" -> [form EXCEPT !.rows = Shown(c.p), !.listLoading = FALSE]
              [] c.kind = "sync" -> [form EXCEPT !.bulkLoading = FALSE,
                   !.selected = {r \in @ : r.chain \notin form.chains} \cup (OfChains(c.p) \ form.excluded)]
              [] c.kind = "all" -> [form EXCEPT !.bulkLoading = FALSE, !.excluded = @ \ Shown(c.p), !.selected = @ \cup Shown(c.p)],
       epochs, calls \ {c})
FailedCall(c) ==
  Selecting(IF ~Counts(c) THEN form
       ELSE IF c.kind = "list" THEN [form EXCEPT !.rows = {}, !.listLoading = FALSE, !.listError = TRUE]
       ELSE [form EXCEPT !.bulkLoading = FALSE, !.bulkError = TRUE],
       epochs, calls \ {c})
Resume(c, x) == IF c.again THEN SelectAllOf(Selecting([x.f EXCEPT !.bulkError = FALSE], x.e, x.c)) ELSE x
AnswerCall(c) ==
  /\ \E x \in {Answered(c), FailedCall(c)} : Becomes(Resume(c, x))
  /\ muted' = (muted \/ (c.again /\ ~Counts(c) /\ form.bulkError))
  /\ UNCHANGED deeds

SelectionNext ==
  \/ SetDimension \/ SetChains \/ Search \/ Change \/ SelectAll \/ ClearForm \/ RetryForm
  \/ \E c \in calls : AnswerCall(c)

(* Once nothing is loading or has failed, a chain that is selected is selected *)
(* whole: all its tokens of the dimension, the excluded ones apart, whatever   *)
(* was searched, shown, overtaken or retried before; but for a retry whose     *)
(* list is overtaken: see `muted`.                                             *)
ChainsWhole ==
  ~Blocked(form) /\ ~muted =>
    {r \in form.selected : r.chain \in form.chains} = {r \in Market[form.dim] : r.chain \in form.chains} \ form.excluded
=============================================================================
