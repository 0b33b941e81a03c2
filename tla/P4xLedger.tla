----------------------------- MODULE P4xLedger -----------------------------
(***************************************************************************)
(* The accounting ledger: bank entries imported into accounts, the filters *)
(* that give them categories and the direct assignments that override the  *)
(* filters (p4x_import_service, p4x_category_service, p4x_account_service, *)
(* p4x_partner_service).                                                   *)
(*                                                                         *)
(* A request is one transaction in READ COMMITTED and takes four steps:    *)
(*   Start    its reads, and the UPDATEs and DELETEs it issues at once,    *)
(*   Match    once the rows it changes are free: the new filter hits,      *)
(*   Check    the flush of the new rows (autoflush is off) and the trigger *)
(*            that runs before the commit,                                 *)
(*   Commit.                                                               *)
(* It may fail at any point. What it writes is kept in its delta and seen  *)
(* by others from the commit on. The filters of a rebuild are evaluated    *)
(* in one step.                                                            *)
(***************************************************************************)
EXTENDS Integers, FiniteSets, FiniteSetsExt

CONSTANTS
    Entries,     \* bank entries that differ in day, account, amount or reference
    Files,       \* exports: entry -> how often it occurs
    Day,         \* entry -> its booking day
    Amount,      \* entry -> its amount
    Iban,        \* entry -> the counter account
    Days,        \* the start dates an account may have
    Accounts, Categories, Filters,
    Protected,   \* categories that cannot be deleted
    Rules,       \* what a filter may say
    Parts,       \* amounts that may be assigned to a category
    Requests,
    MaxAsked,    \* bound: how many requests are made in all
    None

ASSUME AmountAssumption == Amount \in [Entries -> Int \ {0}]
ASSUME FileAssumption   == Files \subseteq [Entries -> Nat]
ASSUME DayAssumption    == Days \subseteq Int /\ Days # {} /\ Day \in [Entries -> Int]
ASSUME TableAssumption  == IsFiniteSet(Categories) /\ IsFiniteSet(Filters)
ASSUME BoundAssumption  == MaxAsked \in Nat
(* What a filter says: the account it looks at and the entries it finds.   *)
Rule == [category : Categories, account : Accounts, finds : SUBSET Entries]

ASSUME RuleAssumption   ==
    /\ Rules \subseteq Rule
    /\ None \notin Rules \cup Accounts
    /\ Protected \subseteq Categories
    /\ Parts \subseteq Int \ {0}

VARIABLES
    tx,          \* hash -> the row of p4x_transactions: none, booked or set aside
    directs,     \* active rows of p4x_category_directs
    spent,       \* categories that rows set aside still reference
    hits,        \* p4x_category_filter_hits
    filters,     \* filter -> its rule, or None
    categories,  \* rows of p4x_categories
    accounts,    \* account -> its row
    known,       \* IBANs with an active row of p4x_partners
    req,         \* request -> how far it is and what it will write
    asked,       \* requests made so far
    blurred,     \* history: overlapping writers may have left wrong hits
    raced,       \* history: hashes assigned by two requests that were checked together
    crossed      \* history: accounts closed or imported into by a request that overlapped any other

ledger  == <<tx, directs, spent, hits, filters, categories, accounts, known>>
history == <<blurred, raced, crossed>>
vars    == <<ledger, history, req, asked>>

(* The n-th occurrence of the same entry in a file has a hash of its own.  *)
HashesOf(file) == UNION {{<<e, n>> : n \in 1..file[e]} : e \in Entries}
Hashes == UNION {HashesOf(file) : file \in Files}

Slots  == UNION {[S -> Parts] : S \in SUBSET Categories}

Transaction == [state : {"none", "booked", "aside"}, account : Accounts \cup {None}]
Account     == [stage : {"none", "open", "closed"}, since : Days]
Direct      == [hash : Hashes, category : Categories, amount : Int]
Hit         == Hashes \X Filters

Delta == [insert : SUBSET Hashes, revive : SUBSET Hashes, aside : SUBSET Hashes,
          rebind : SUBSET Hashes, offD : SUBSET Direct, onD : SUBSET Direct,
          offH : SUBSET Hit, onH : SUBSET Hit, seen : SUBSET Hashes]

NoDelta == [insert |-> {}, revive |-> {}, aside |-> {}, rebind |-> {}, offD |-> {},
            onD |-> {}, offH |-> {}, onH |-> {}, seen |-> {}]

(* What was asked for; fields an operation does not use are None.          *)
NoAsk == [op |-> "none", account |-> None, filter |-> None, rule |-> None,
          hash |-> None, category |-> None]
Ask   == [op : {"none", "import", "rebuild", "create", "update", "drop", "assign", "release",
                "convert", "dropCategory", "close"},
          account : Accounts \cup {None}, filter : Filters \cup {None},
          rule : Rules \cup {None}, hash : Hashes \cup {None},
          category : Categories \cup {None}]

Idle == [pc |-> "idle", ask |-> NoAsk, delta |-> NoDelta, after |-> {}, stale |-> FALSE]

-----------------------------------------------------------------------------
(* Reading the ledger                                                      *)

Directed(D) == {d.hash : d \in D}
OfHash(D, h) == {d \in D : d.hash = h}
Total(D) == FoldSet(LAMBDA d, sum : sum + d.amount, 0, D)

Matches(T, rule, h) ==
    /\ T[h].state = "booked"
    /\ T[h].account = rule.account
    /\ h[1] \in rule.finds

(* The hits that filters F give to the hashes H of transactions T.         *)
Found(T, F, H) ==
    {x \in H \X Filters : F[x[2]] # None /\ Matches(T, F[x[2]], x[1])}

(* What a transaction counts as: its direct categories, or else those of   *)
(* the filters that hit it.                                                *)
Effective(h) ==
    IF h \in Directed(directs)
    THEN {d.category : d \in OfHash(directs, h)}
    ELSE {filters[x[2]].category : x \in {x \in hits : x[1] = h}}

Booked == {h \in Hashes : tx[h].state = "booked"}

WithoutPartner == {h \in Booked : Iban[h[1]] \notin known}

WithoutCategory ==
    {h \in Booked \ Directed(directs) :
        Cardinality({x \in hits : x[1] = h}) # 1}

Used(c) ==
    \/ \E f \in Filters : filters[f] # None /\ filters[f].category = c
    \/ \E d \in directs : d.category = c

(* A request's own view of the transactions.                               *)
TxWith(r) ==
    [h \in Hashes |->
        [state   |-> IF h \in r.delta.aside THEN "aside"
                     ELSE IF h \in r.delta.insert \cup r.delta.revive THEN "booked"
                     ELSE tx[h].state,
         account |-> IF h \in r.delta.insert \cup r.delta.rebind THEN r.ask.account
                     ELSE tx[h].account]]

FiltersWith(r) ==
    CASE r.ask.rule # None -> [filters EXCEPT ![r.ask.filter] = r.ask.rule]
      [] r.ask.op = "drop" -> [filters EXCEPT ![r.ask.filter] = None]
      [] OTHER             -> filters

-----------------------------------------------------------------------------
(* Small saves: one row, written and committed at once                     *)

CreateAccount(a, day) ==
    /\ accounts[a].stage = "none"
    /\ accounts' = [accounts EXCEPT ![a] = [stage |-> "open", since |-> day]]
    /\ UNCHANGED <<tx, directs, spent, hits, filters, categories, known, history, req, asked>>

UpdateAccount(a, day) ==
    /\ accounts[a].stage = "open" /\ accounts[a].since # day
    /\ asked < MaxAsked /\ asked' = asked + 1
    /\ accounts' = [accounts EXCEPT ![a].since = day]
    /\ UNCHANGED <<tx, directs, spent, hits, filters, categories, known, history, req>>

CreateCategory(c) ==
    /\ c \notin categories
    /\ categories' = categories \cup {c}
    /\ UNCHANGED <<tx, directs, spent, hits, filters, accounts, known, history, req, asked>>

(* set_transaction_partner: the partner belongs to the counter account, so *)
(* all its transactions get or lose it.                                    *)
SetPartner(h, given) ==
    /\ h \in Booked
    /\ known' = IF given THEN known \cup {Iban[h[1]]} ELSE known \ {Iban[h[1]]}
    /\ known' # known
    /\ UNCHANGED <<tx, directs, spent, hits, filters, categories, accounts, history, req, asked>>

-----------------------------------------------------------------------------
(* Start                                                                   *)

Flying == {q \in Requests : req[q].pc # "idle"}

Enter(p, ask, delta) ==
    /\ req[p].pc = "idle"
    /\ asked < MaxAsked /\ asked' = asked + 1
    /\ req' = [req EXCEPT ![p] = [pc |-> "wrote", ask |-> ask, delta |-> delta,
                                  after |-> Flying, stale |-> FALSE]]
    /\ UNCHANGED <<ledger, history>>

(* apply_all_category_filters_core deletes the hits of every filter, having *)
(* read which transactions are assigned directly.                          *)
Rebuilt(delta) == [delta EXCEPT !.offH = hits, !.seen = Directed(directs)]

(* import_transactions: entries booked before the start date are set aside *)
(* wherever they are; the others are inserted, or brought back and bound   *)
(* to this account.                                                        *)
Imported(a, file) ==
    LET early == {h \in HashesOf(file) : Day[h[1]] < accounts[a].since}
        late  == HashesOf(file) \ early
    IN [NoDelta EXCEPT
          !.aside  = {h \in early : tx[h].state # "none"},
          !.insert = {h \in late : tx[h].state = "none"},
          !.revive = {h \in late : tx[h].state = "aside"},
          !.rebind = {h \in late : tx[h].state # "none" /\ tx[h].account # a}]

StartImport(p, a, file) ==
    /\ accounts[a].stage = "open"
    /\ Enter(p, [NoAsk EXCEPT !.op = "import", !.account = a], Rebuilt(Imported(a, file)))

(* The nightly job.                                                        *)
StartRebuild(p) ==
    Enter(p, [NoAsk EXCEPT !.op = "rebuild"], Rebuilt(NoDelta))

(* create_category_filter and update_category_filter.                      *)
StartSave(p, f, rule) ==
    /\ rule.category \in categories
    /\ accounts[rule.account].stage # "none"
    /\ Enter(p, [NoAsk EXCEPT !.op = IF filters[f] = None THEN "create" ELSE "update",
                              !.filter = f, !.rule = rule], Rebuilt(NoDelta))

StartDrop(p, f) ==
    /\ filters[f] # None
    /\ Enter(p, [NoAsk EXCEPT !.op = "drop", !.filter = f],
                [NoDelta EXCEPT !.offH = {x \in hits : x[2] = f}])

(* _set_category_direct_core: the rows there are give way to the slots,    *)
(* whose amounts add up, and an assigned transaction has no hits.          *)
StartAssign(p, h, slots) ==
    LET rows == {[hash |-> h, category |-> c, amount |-> slots[c]] : c \in DOMAIN slots}
    IN /\ h \in Booked
       /\ rows # {} /\ Total(rows) = Amount[h[1]]
       /\ Enter(p, [NoAsk EXCEPT !.op = "assign", !.hash = h],
                   [NoDelta EXCEPT !.offD = OfHash(directs, h), !.onD = rows,
                                   !.offH = {x \in hits : x[1] = h}])

(* unset_category_direct, and set_category_direct without slots.           *)
StartRelease(p, h) ==
    /\ h \in Booked
    /\ Enter(p, [NoAsk EXCEPT !.op = "release", !.hash = h],
                [NoDelta EXCEPT !.offD = OfHash(directs, h),
                                !.offH = {x \in hits : x[1] = h}])

(* Slip: the hits are dropped before they are read.                        *)
StartConvertAfterDrop(p, f) ==
    /\ filters[f] # None
    /\ WithoutPartner = {} /\ WithoutCategory = {}
    /\ Enter(p, [NoAsk EXCEPT !.op = "convert", !.filter = f],
                [NoDelta EXCEPT !.offH = {x \in hits : x[2] = f}])

(* filter_to_direct, which waits until nothing is open.                    *)
StartConvert(p, f) ==
    LET found == {h \in Booked \ Directed(directs) : <<h, f>> \in hits}
    IN /\ filters[f] # None
       /\ WithoutPartner = {} /\ WithoutCategory = {}
       /\ Enter(p, [NoAsk EXCEPT !.op = "convert", !.filter = f],
                   [NoDelta EXCEPT
                      !.onD  = {[hash |-> h, category |-> filters[f].category,
                                 amount |-> Amount[h[1]]] : h \in found},
                      !.offH = {x \in hits : x[1] \in found \/ x[2] = f}])

StartDropCategory(p, c) ==
    /\ c \in categories \ Protected
    /\ ~Used(c)
    /\ Enter(p, [NoAsk EXCEPT !.op = "dropCategory", !.category = c], NoDelta)

(* Slip: transactions are not counted.                                     *)
StartCloseUnasked(p, a) ==
    /\ accounts[a].stage = "open"
    /\ Enter(p, [NoAsk EXCEPT !.op = "close", !.account = a], NoDelta)

(* delete_account: not while it has transactions.                          *)
StartClose(p, a) ==
    /\ accounts[a].stage = "open"
    /\ \A h \in Booked : tx[h].account # a
    /\ Enter(p, [NoAsk EXCEPT !.op = "close", !.account = a], NoDelta)

-----------------------------------------------------------------------------
(* Match                                                                   *)

Rows(r) == r.delta.insert \cup r.delta.revive \cup r.delta.aside \cup r.delta.rebind

(* Two requests change a row in common.                                    *)
Contend(r, s) ==
    \/ Rows(r) \cap Rows(s) # {}
    \/ r.delta.offH \cap s.delta.offH # {}
    \/ r.delta.offD \cap s.delta.offD # {}
    \/ r.ask.filter # None /\ r.ask.filter = s.ask.filter
                           /\ "convert" \notin {r.ask.op, s.ask.op}

Rebuilds == {"import", "rebuild", "create", "update"}

(* Slip: a transaction that loses its assignment gets no hits.             *)
NewHitsRebuilt(r) ==
    IF r.ask.op \in Rebuilds THEN Found(TxWith(r), FiltersWith(r), Hashes \ r.delta.seen) ELSE {}

NewHits(r) ==
    IF r.ask.op \in Rebuilds
    THEN Found(TxWith(r), FiltersWith(r), Hashes \ r.delta.seen)
    ELSE IF r.ask.op = "release" THEN Found(tx, filters, {r.ask.hash})
    ELSE {}

Match(p) ==
    /\ req[p].pc = "wrote"
    /\ \A q \in req[p].after : ~Contend(req[p], req[q])
    /\ req' = [req EXCEPT ![p].pc = "matched", ![p].delta.onH = NewHits(req[p])]
    /\ UNCHANGED <<ledger, history, asked>>

-----------------------------------------------------------------------------
(* Check                                                                   *)

Keys(r) == {<<d.hash, d.category>> : d \in r.delta.onD}

Refers(r, c) ==
    \/ \E d \in r.delta.onD : d.category = c
    \/ r.ask.rule # None /\ r.ask.rule.category = c

(* The new rows of r wait for those of s, which are written.               *)
Waits(r, s) ==
    \/ Keys(r) \cap Keys(s) # {}
    \/ r.delta.onH \cap s.delta.onH # {}
    \/ s.ask.op = "dropCategory" /\ Refers(r, s.ask.category)
    \/ r.ask.op = "dropCategory" /\ Refers(s, r.ask.category)
    \/ s.ask.op = "drop" /\ \E x \in r.delta.onH : x[2] = s.ask.filter
    \/ r.ask.op = "drop" /\ \E x \in s.delta.onH : x[2] = r.ask.filter

DirectsWith(r) == (directs \ r.delta.offD) \cup r.delta.onD

(* Slip: the trigger is missing.                                           *)
AddUpUnchecked(r) == TRUE

(* p4x_assert_category_direct_sum for each transaction whose rows change,  *)
(* over what is committed and what r writes itself.                        *)
AddUp(r) ==
    \A h \in Directed(r.delta.offD \cup r.delta.onD) :
        OfHash(DirectsWith(r), h) # {} => Total(OfHash(DirectsWith(r), h)) = Amount[h[1]]

(* Slip: nothing refers to categories by a foreign key, and what needs one *)
(* is counted before it is deleted only.                                   *)
FitsUnbound(r) ==
    /\ \A h \in r.delta.insert : tx[h].state = "none"
    /\ \A d \in r.delta.onD :
          /\ d.category \in categories
          /\ \A e \in directs \ r.delta.offD : <<e.hash, e.category>> # <<d.hash, d.category>>
    /\ \A x \in r.delta.onH : FiltersWith(r)[x[2]] # None /\ x \notin hits \ r.delta.offH
    /\ r.ask.op = "create" => filters[r.ask.filter] = None
    /\ r.ask.op = "update" => filters[r.ask.filter] # None

(* Unique and foreign keys.                                                *)
Fits(r) ==
    /\ \A h \in r.delta.insert : tx[h].state = "none"
    /\ \A d \in r.delta.onD :
          /\ d.category \in categories
          /\ \A e \in directs \ r.delta.offD : <<e.hash, e.category>> # <<d.hash, d.category>>
    /\ \A x \in r.delta.onH : FiltersWith(r)[x[2]] # None /\ x \notin hits \ r.delta.offH
    /\ r.ask.rule # None => r.ask.rule.category \in categories
    /\ r.ask.op = "create" => filters[r.ask.filter] = None
    /\ r.ask.op = "update" => filters[r.ask.filter] # None
    /\ r.ask.op = "dropCategory" => ~Used(r.ask.category) /\ r.ask.category \notin spent

Check(p) ==
    LET together == {q \in Requests \ {p} : req[q].pc = "checked"}
    IN /\ req[p].pc = "matched"
       /\ \A q \in together : ~Waits(req[p], req[q])
       /\ Fits(req[p]) /\ AddUp(req[p])
       /\ req' = [req EXCEPT ![p].pc = "checked"]
       /\ raced' = raced \cup UNION {Directed(req[p].delta.onD) \cap Directed(req[q].delta.onD) :
                                        q \in together}
       /\ UNCHANGED <<ledger, blurred, crossed, asked>>

-----------------------------------------------------------------------------
(* Commit                                                                  *)

(* Who waited to set the same assignments aside finds them gone; what is   *)
(* assigned instead is not among the rows it looked for.                   *)
Ended(p, committed) ==
    [q \in Requests |->
        IF q = p THEN Idle
        ELSE [req[q] EXCEPT !.after = @ \ {p},
                            !.stale = @ \/ (committed /\ req[q].pc # "idle"),
                            !.delta.offD = IF committed THEN @ \ req[p].delta.offD ELSE @]]

(* Only a rebuild that overlapped nobody makes the hits certain again.     *)
Blur(r) ==
    IF r.stale
    THEN blurred \/ r.ask.op \in Rebuilds \cup {"assign", "release", "convert"}
    ELSE blurred /\ r.ask.op \notin Rebuilds

(* The accounts that r closes or whose transactions it imports.            *)
Touched(r) == ({r.ask.account} \ {None}) \cup {TxWith(r)[h].account : h \in Rows(r)}

Commit(p) ==
    LET r == req[p]
        f == FiltersWith(r)
    IN /\ r.pc = "checked"
       /\ tx' = TxWith(r)
       /\ directs' = DirectsWith(r)
       /\ spent' = spent \cup {d.category : d \in directs \cap r.delta.offD}
       /\ filters' = f
       /\ hits' = {x \in (hits \ r.delta.offH) \cup r.delta.onH : f[x[2]] # None}
       /\ categories' = IF r.ask.op = "dropCategory" THEN categories \ {r.ask.category}
                        ELSE categories
       /\ accounts' = IF r.ask.op = "close"
                      THEN [accounts EXCEPT ![r.ask.account].stage = "closed"] ELSE accounts
       /\ blurred' = Blur(r)
       /\ crossed' = IF r.stale THEN crossed \cup Touched(r) ELSE crossed
       /\ req' = Ended(p, TRUE)
       /\ UNCHANGED <<known, raced, asked>>

(* A refusal, an error of the database (a deadlock included) or a crash:   *)
(* the transaction is rolled back.                                         *)
Fail(p) ==
    /\ req[p].pc # "idle"
    /\ req' = Ended(p, FALSE)
    /\ UNCHANGED <<ledger, history, asked>>

-----------------------------------------------------------------------------
Init ==
    /\ tx = [h \in Hashes |-> [state |-> "none", account |-> None]]
    /\ directs = {} /\ spent = {} /\ hits = {}
    /\ filters = [f \in Filters |-> None]
    /\ categories = Protected
    /\ accounts = [a \in Accounts |-> [stage |-> "none", since |-> CHOOSE d \in Days : TRUE]]
    /\ known = {}
    /\ req = [p \in Requests |-> Idle]
    /\ asked = 0
    /\ blurred = FALSE /\ raced = {} /\ crossed = {}

Next ==
    \/ \E a \in Accounts, d \in Days : CreateAccount(a, d) \/ UpdateAccount(a, d)
    \/ \E c \in Categories : CreateCategory(c)
    \/ \E h \in Hashes, given \in BOOLEAN : SetPartner(h, given)
    \/ \E p \in Requests, a \in Accounts, file \in Files : StartImport(p, a, file)
    \/ \E p \in Requests, f \in Filters, rule \in Rules : StartSave(p, f, rule)
    \/ \E p \in Requests, h \in Hashes, slots \in Slots : StartAssign(p, h, slots)
    \/ \E p \in Requests, h \in Hashes : StartRelease(p, h)
    \/ \E p \in Requests, f \in Filters : StartDrop(p, f) \/ StartConvert(p, f)
    \/ \E p \in Requests, c \in Categories : StartDropCategory(p, c)
    \/ \E p \in Requests, a \in Accounts : StartClose(p, a)
    \/ \E p \in Requests : StartRebuild(p) \/ Match(p) \/ Check(p) \/ Commit(p) \/ Fail(p)

Spec == Init /\ [][Next]_vars

-----------------------------------------------------------------------------
(* What a row refers to exists, be the row active or set aside: no         *)
(* category is deleted while an assignment or a filter needs it, whatever  *)
(* else is on the way, and no hit outlives its filter (the foreign keys).  *)
ReferencesHold ==
    /\ \A d \in directs : tx[d.hash].state # "none" /\ d.category \in categories
    /\ spent \subseteq categories
    /\ \A f \in Filters : filters[f] # None => filters[f].category \in categories
    /\ hits \subseteq Hashes \X {f \in Filters : filters[f] # None}

(* Rows and requests are well formed, and no category is assigned twice to *)
(* a transaction.                                                          *)
TypeOK ==
    /\ tx \in [Hashes -> Transaction]
    /\ directs \subseteq Direct
    /\ \A d, e \in directs : d.hash = e.hash /\ d.category = e.category => d = e
    /\ filters \in [Filters -> Rules \cup {None}]
    /\ ReferencesHold
    /\ categories \subseteq Categories
    /\ accounts \in [Accounts -> Account]
    /\ known \subseteq {Iban[e] : e \in Entries}
    /\ req \in [Requests -> [pc : {"idle", "wrote", "matched", "checked"}, ask : Ask,
                             delta : Delta, after : SUBSET Requests, stale : BOOLEAN]]
    /\ asked \in 0..MaxAsked /\ blurred \in BOOLEAN
    /\ raced \subseteq Hashes /\ crossed \subseteq Accounts

(* The direct categories of a transaction split its amount: its active     *)
(* rows add up to it, unless two requests assigned it at the same time and *)
(* the deferred trigger of each ran before the other committed.            *)
DirectsAddUp ==
    \A h \in Directed(directs) \ raced : Total(OfHash(directs, h)) = Amount[h[1]]

(* The stored hits are those the rules give now, whatever was imported,    *)
(* set aside, assigned, released or saved since the last rebuild, unless   *)
(* writers overlapped; a rebuild that overlaps nobody repairs them.        *)
HitsFollowRules ==
    ~blurred => hits = Found(tx, filters, Hashes \ Directed(directs))

(* An account is closed only when it has no transactions, and gets none    *)
(* afterwards. Left out, for good, is an account that was closed or        *)
(* imported into by a request that overlapped any other.                   *)
ClosedHoldsNothing ==
    \A h \in Booked : accounts[tx[h].account].stage = "closed" => tx[h].account \in crossed

(* Making a filter permanent changes the category of no transaction: the   *)
(* warnings that block it make sure that every hit it turns into a direct  *)
(* assignment is the transaction's only one.                               *)
ConversionKeepsCategories ==
    [][\A p \in Requests :
          req[p].pc = "checked" /\ req[p].ask.op = "convert" /\ ~req[p].stale
          /\ req'[p].pc = "idle"
          => \A h \in Booked : Effective(h)' = Effective(h)]_vars

(* The migration that adds the trigger says of the rule that "the database *)
(* now refuses any other state, whichever path wrote it".                  *)
DatabaseRefusesOtherSums ==
    \A h \in Directed(directs) : Total(OfHash(directs, h)) = Amount[h[1]]
=============================================================================
