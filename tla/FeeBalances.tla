---------------------------- MODULE FeeBalances ----------------------------
(***************************************************************************)
(* Membership fees and what members owe (p4x_fee_balance_service). The     *)
(* balance of a member is computed twice in the code: for one member and   *)
(* any period, and for all members at once; both read the same rows.       *)
(*                                                                         *)
(* A day is a number and every month has MonthLength days, so that the     *)
(* first and the last day of a month can be told from the others. The fee  *)
(* category of a booking comes from P4xLedger's direct assignments and     *)
(* filter hits.                                                            *)
(***************************************************************************)
EXTENDS Integers, FiniteSets, FiniteSetsExt

CONSTANTS
    Members,
    Contact,      \* a partner who is not a member
    Ibans,
    Bookings,     \* incoming transactions
    BookedOn,     \* the days a booking may have
    Worth,        \* booking -> its amount
    MonthLength,
    LastMonth,    \* bound: months are 0..LastMonth
    Since,        \* the days from which a member may owe fees, or None
    Openings,     \* balances a member may start with
    Amounts,      \* monthly fees
    Protected,    \* months whose fee cannot be deleted
    None

Months == 0..LastMonth

Month(day) == day \div MonthLength
FirstOf(m) == m * MonthLength
EndOf(m)   == m * MonthLength + MonthLength - 1   \* _end_of_month

ASSUME MonthAssumption  == MonthLength \in Nat \ {0} /\ LastMonth \in Nat
ASSUME DayAssumption    == BookedOn \subseteq Nat /\ Since \subseteq Nat \cup {None}
ASSUME ColumnAssumption == None \in Since /\ 0 \in Openings
ASSUME AmountAssumption ==
    /\ Amounts \subseteq Nat /\ Openings \subseteq Int
    /\ Worth \in [Bookings -> Nat \ {0}] /\ IsFiniteSet(Bookings)
ASSUME NoneAssumption   == None \notin Int \cup Members \cup {Contact}

Partners == Members \cup {Contact, None}

VARIABLES
    today,      \* the current month
    fees,       \* month -> the fee in force from then on, or None
    members,    \* member -> p4x_init_date, p4x_init_balance, p4x_freed, fee membership
    partner,    \* IBAN -> whose it is
    bookings    \* booking -> its row, or None

vars == <<today, fees, members, partner, bookings>>

Member  == [since : Since, opening : Openings, freed : BOOLEAN, liable : BOOLEAN]

(* direct and hit: the category of direct assignments and of filter hits.  *)
Booking == [iban : Ibans, day : BookedOn, direct : {"none", "fee", "other"},
            hit : BOOLEAN, delegate : Partners]

-----------------------------------------------------------------------------
(* What both computations use                                              *)

(* _fee_at: the latest fee that started by then, zero before the first.    *)
FeeAt(month) ==
    LET started == {m \in 0..month : m \in Months /\ fees[m] # None}
    IN IF started = {} THEN 0 ELSE fees[Max(started)]

FeesOf(from, to) == MapThenSumSet(FeeAt, from..to)

(* _fee_category_tx_ids: a direct assignment overrides the filters.        *)
FeePayments ==
    {b \in Bookings :
        /\ bookings[b] # None
        /\ bookings[b].direct = "fee" \/ (bookings[b].direct = "none" /\ bookings[b].hit)}

Sum(S) == MapThenSumSet(LAMBDA b : Worth[b], S)

Between(S, from, to) == {b \in S : bookings[b].day \in from..to}

IsFeeMember(m) == members[m].liable /\ members[m].since # None

-----------------------------------------------------------------------------
(* calculate_fee_balance: one member, from the month of one day to the end *)
(* of the month of another; None stands for the default.                   *)

OwnIbans(m) == {i \in Ibans : partner[i] = m}

(* _get_fee_payments_sum and _get_fee_payments_list: nothing for a member  *)
(* without an IBAN, whatever was paid in their name.                       *)
PaymentsOf(m) ==
    IF OwnIbans(m) = {} THEN {}
    ELSE {b \in FeePayments :
             \/ bookings[b].iban \in OwnIbans(m) /\ bookings[b].delegate = None
             \/ bookings[b].delegate = m}

(* Slip: payments before the period end with its first day.                *)
StatementClosed(m, from, to) ==
    LET first  == Month(members[m].since)
        start  == IF from = None THEN first ELSE Max({Month(from), first})
        asked  == IF to = None THEN today - 1 ELSE Month(to)
        end    == Max({start, asked})
        owed(a, b) == IF members[m].freed THEN 0 ELSE FeesOf(a, b)
        before == members[m].opening - owed(first, start - 1)
                  + Sum(Between(PaymentsOf(m), FirstOf(first), FirstOf(start)))
    IN [from |-> start, to |-> end, start |-> before,
        end  |-> before - owed(start, end)
                 + Sum(Between(PaymentsOf(m), FirstOf(start), EndOf(end)))]

Statement(m, from, to) ==
    LET first  == Month(members[m].since)
        start  == IF from = None THEN first ELSE Max({Month(from), first})
        asked  == IF to = None THEN today - 1 ELSE Month(to)
        end    == Max({start, asked})
        owed(a, b) == IF members[m].freed THEN 0 ELSE FeesOf(a, b)
        before == members[m].opening - owed(first, start - 1)
                  + Sum(Between(PaymentsOf(m), FirstOf(first), FirstOf(start) - 1))
    IN [from |-> start, to |-> end, start |-> before,
        end  |-> before - owed(start, end)
                 + Sum(Between(PaymentsOf(m), FirstOf(start), EndOf(end)))]

-----------------------------------------------------------------------------
(* get_fee_balances: all members in one pass                               *)

Listed == {m \in Members : IsFeeMember(m)}

ListEnd(m) == Max({Month(members[m].since), today - 1})

(* _iban_to_member_id_map knows the listed members only.                   *)
WithOwnIban == {m \in Listed : OwnIbans(m) # {}}

(* Slip: a payment in somebody's name counts without an IBAN of their own. *)
TargetNamed(b) ==
    IF bookings[b].delegate \in Listed THEN bookings[b].delegate
    ELSE IF bookings[b].delegate = None THEN partner[bookings[b].iban]
    ELSE None

(* _attribute_payment                                                      *)
Target(b) ==
    IF bookings[b].delegate \in WithOwnIban THEN bookings[b].delegate
    ELSE IF bookings[b].delegate = None THEN partner[bookings[b].iban]
    ELSE None

Balance(m) ==
    LET first == Month(members[m].since)
    IN members[m].opening
       - (IF members[m].freed THEN 0 ELSE FeesOf(first, ListEnd(m)))
       + Sum(Between({b \in FeePayments : Target(b) = m}, FirstOf(first), EndOf(ListEnd(m))))

-----------------------------------------------------------------------------
(* Slip: a fee may start in the past.                                      *)
CreateFeeAnytime(m, amount) ==
    /\ fees[m] = None
    /\ fees' = [fees EXCEPT ![m] = amount]
    /\ UNCHANGED <<today, members, partner, bookings>>

(* create_fee; today is read and the fee committed within one day.         *)
CreateFee(m, amount) ==
    /\ m >= today /\ fees[m] = None
    /\ fees' = [fees EXCEPT ![m] = amount]
    /\ UNCHANGED <<today, members, partner, bookings>>

DeleteFee(m) ==
    /\ fees[m] # None /\ m \notin Protected
    /\ fees' = [fees EXCEPT ![m] = None]
    /\ UNCHANGED <<today, members, partner, bookings>>

(* update_fee_member                                                       *)
UpdateFeeMember(m, since, opening, freed) ==
    /\ members' = [members EXCEPT ![m].since = since, ![m].opening = opening, ![m].freed = freed]
    /\ members' # members
    /\ UNCHANGED <<today, fees, partner, bookings>>

(* A member dies, leaves or becomes liable (standesdb).                    *)
ChangeState(m) ==
    /\ members' = [members EXCEPT ![m].liable = ~@]
    /\ UNCHANGED <<today, fees, partner, bookings>>

SetPartner(i, who) ==
    /\ partner[i] # who
    /\ partner' = [partner EXCEPT ![i] = who]
    /\ UNCHANGED <<today, fees, members, bookings>>

Delegate(b, who) ==
    /\ bookings[b] # None /\ bookings[b].delegate # who
    /\ bookings' = [bookings EXCEPT ![b].delegate = who]
    /\ UNCHANGED <<today, fees, members, partner>>

(* P4xLedger: a booking is imported, or its category changes.              *)
Import(b, i, day, hit) ==
    /\ bookings[b] = None
    /\ bookings' = [bookings EXCEPT ![b] = [iban |-> i, day |-> day, direct |-> "none",
                                            hit |-> hit, delegate |-> None]]
    /\ UNCHANGED <<today, fees, members, partner>>

Assign(b, direct) ==
    /\ bookings[b] # None /\ bookings[b].direct # direct
    /\ bookings' = [bookings EXCEPT ![b].direct = direct]
    /\ UNCHANGED <<today, fees, members, partner>>

NextMonth ==
    /\ today < LastMonth
    /\ today' = today + 1
    /\ UNCHANGED <<fees, members, partner, bookings>>

Init ==
    /\ today = 0
    /\ fees = [m \in Months |-> None]
    /\ members \in [Members -> [since : {None}, opening : {0}, freed : {FALSE}, liable : {TRUE}]]
    /\ partner = [i \in Ibans |-> None]
    /\ bookings = [b \in Bookings |-> None]

Next ==
    \/ \E m \in Months, amount \in Amounts : CreateFee(m, amount)
    \/ \E m \in Months : DeleteFee(m)
    \/ \E m \in Members, since \in Since, opening \in Openings, freed \in BOOLEAN :
          UpdateFeeMember(m, since, opening, freed)
    \/ \E m \in Members : ChangeState(m)
    \/ \E i \in Ibans, who \in Partners : SetPartner(i, who)
    \/ \E b \in Bookings, who \in Partners : Delegate(b, who)
    \/ \E b \in Bookings, i \in Ibans, day \in BookedOn, hit \in BOOLEAN : Import(b, i, day, hit)
    \/ \E b \in Bookings, direct \in {"none", "fee", "other"} : Assign(b, direct)
    \/ NextMonth

Spec == Init /\ [][Next]_vars

-----------------------------------------------------------------------------
(* Rows are well formed.                                                   *)
TypeOK ==
    /\ today \in Months
    /\ fees \in [Months -> Amounts \cup {None}]
    /\ members \in [Members -> Member]
    /\ partner \in [Ibans -> Partners]
    /\ bookings \in [Bookings -> Booking \cup {None}]

(* The list of balances shows of every member what the member's own        *)
(* statement ends with, although it attributes each payment to a member    *)
(* where the statement collects the payments of one.                       *)
ListMatchesStatements ==
    \A m \in Listed : Balance(m) = Statement(m, None, None).end

(* A statement begins with the balance the one before ended with: no fee   *)
(* and no payment falls between two periods or into both.                  *)
StatementsJoin ==
    \A m \in Listed : \A a, b \in Months :
        LET earlier == Statement(m, FirstOf(a), FirstOf(b))
        IN earlier.to < LastMonth =>
             Statement(m, FirstOf(earlier.to + 1), None).start = earlier.end

(* A new fee changes no balance of a period that is over: it is owed from  *)
(* the current month on at the earliest.                                   *)
NewFeeLeavesPast ==
    [][\A m \in Listed :
          /\ members[m].since < FirstOf(today)
          /\ (\E n \in Months : fees[n] = None /\ fees'[n] # None)
          => Balance(m)' = Balance(m)]_vars
=============================================================================
