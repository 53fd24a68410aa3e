---------------------------- MODULE ExpenseForm ----------------------------
(***************************************************************************)
(* Adding an expense, or changing one (AddExpenseScreen): the form, the    *)
(* four ways to split, split by item, and what is sent, while the people   *)
(* in the group change under it.  Members are numbered in the group's      *)
(* order; an amount is minor units, and a field not typed in holds -1.     *)
(***************************************************************************)
EXTENDS GroupLedger, SequencesExt

CONSTANTS
    Amounts, Parts, Percents,  \* what may be typed as an amount, as parts, as a percent
    MaxEdits                   \* bound on what is done to the form

\* Assumed of the constants, wherever they are given values.
ExpenseFormAssumption ==
    Amounts \subseteq Nat /\ Parts \subseteq Nat /\ Percents \subseteq 0..100 /\ MaxEdits \in Nat

VARIABLES
    here,              \* who is in the group, as the app last read it
    seed, kind,        \* the expense it starts from; "add", "edit" or "draft"
    amount, named,     \* the amount typed; there is a name
    way, included, typed,
    page, items,       \* "form" or "bill"; the bill's lines
    saved, sent, deleted, edits

formVars == <<seed, kind, amount, named, way, included, typed, page, items, saved, sent, deleted>>
vars == <<here, formVars, edits>>

Ways == {"equal", "exact", "shares", "percent"}
Typed == Ways \ {"equal"}
NotTyped == -1
Nothing == [m \in Members |-> NotTyped]
Blank == [price |-> 0, who |-> <<>>]
NoInput == [mode |-> "equal", amount |-> 0, who |-> <<>>, number |-> <<>>]

InOrder(S) == SetToSortSeq(S, <)

-----------------------------------------------------------------------------
(* The split, as it is shown                                               *)

\* Mutant: whoever was in it when the form opened stays in it.
InSplitAnyway == InOrder(ToSet(included))

\* Whoever is in it and still in the group, in group order.
InSplit == InOrder({m \in here : m \in ToSet(included)})

\* Shared out evenly between whoever is in, with the odd one to the first.
EvenPercent(m) ==
    LET n == Greatest(Len(InSplit), 1)
        even == 100 \div n
    IN IF InSplit # <<>> /\ Head(InSplit) = m THEN 100 - even * (n - 1) ELSE even

PercentTyped == typed["percent"] # Nothing

\* What a person's field says.
Raw(w, m) ==
    IF typed[w][m] # NotTyped THEN typed[w][m]
    ELSE CASE w = "shares" -> 1
           [] w = "percent" -> IF PercentTyped THEN 0 ELSE EvenPercent(m)
           [] OTHER -> 0

Numbers(w) == [i \in DOMAIN InSplit |-> Raw(w, InSplit[i])]

\* What is wrong with the split, if anything.
Bad ==
    \/ InSplit = <<>> \/ amount <= 0
    \/ way = "exact" /\ Total(Numbers("exact")) # amount
    \/ way = "percent" /\ Total(Numbers("percent")) # 100
    \/ way \in {"shares", "percent"} /\ \E i \in DOMAIN InSplit : Numbers(way)[i] = 0

\* Each person's amount on the card.
PreviewInput ==
    [mode |-> IF way = "percent" THEN "shares" ELSE way, amount |-> amount, who |-> InSplit,
     number |-> IF way = "equal" THEN [i \in DOMAIN InSplit |-> 1] ELSE Numbers(way)]
Preview == ResolveParts(PreviewInput)

\* What is sent: percents as the amounts they come to.
ToInput ==
    IF way = "percent"
    THEN [PreviewInput EXCEPT !.mode = "exact",
          !.number = [i \in DOMAIN InSplit |-> Preview[InSplit[i]]]]
    ELSE PreviewInput

-----------------------------------------------------------------------------
(* Split by item                                                           *)

WhoHad(it) == InOrder({m \in here : m \in ToSet(it.who)})

\* A line is shared equally, a unit at a time for what doesn't divide.
LineParts(it) ==
    IF it.price = 0 \/ WhoHad(it) = <<>> THEN [m \in Members |-> 0]
    ELSE ResolveParts([mode |-> "equal", amount |-> it.price, who |-> WhoHad(it), number |-> <<>>])

BillTotal == Total([i \in DOMAIN items |-> items[i].price])
BillParts == [m \in Members |-> Total([i \in DOMAIN items |-> LineParts(items[i])[m]])]
BillBad == BillTotal = 0 \/ \E i \in DOMAIN items : items[i].price > 0 /\ WhoHad(items[i]) = <<>>
OnBill == InOrder({m \in Members : BillParts[m] > 0})
BillInput ==
    [mode |-> "exact", amount |-> BillTotal, who |-> OnBill,
     number |-> [i \in DOMAIN OnBill |-> BillParts[OnBill[i]]]]

-----------------------------------------------------------------------------
(* The form                                                                *)

\* An uneven split comes back as the amounts it resolved to.
StartsAs(e) == IF e.mode = "equal" THEN "equal" ELSE "exact"

Expenses ==
    {[mode |-> "equal", amount |-> a, who |-> InOrder(S), number |-> <<>>] :
        a \in Amounts \ {0}, S \in {Members, Members \ {1}}} \cup
    {[mode |-> "shares", amount |-> a, who |-> <<1, 2>>, number |-> <<2, 1>>] : a \in Amounts \ {0}}

OpenOn(e, k) ==
    /\ kind = k /\ seed = e /\ amount = e.amount /\ named = TRUE /\ way = StartsAs(e)
    /\ included = SelectSeq(e.who, LAMBDA m : k = "edit" \/ m \in here)
    /\ typed = [w \in Typed |->
                  IF w = "exact" /\ e.mode # "equal"
                  THEN [m \in Members |-> IF m \in ToSet(e.who) THEN ResolveParts(e)[m] ELSE NotTyped]
                  ELSE Nothing]

OpenEmpty ==
    /\ kind = "add" /\ seed = NoInput /\ amount = 0 /\ named = FALSE /\ way = "equal"
    /\ included = InOrder(here) /\ typed = [w \in Typed |-> Nothing]

Init ==
    /\ here \in {Members, Members \ {HowMany}}
    /\ \/ OpenEmpty
       \/ \E e \in Expenses, k \in {"edit", "draft"} :
            (k = "edit" => ToSet(e.who) \subseteq here) /\ OpenOn(e, k)
    /\ page = "form" /\ items = <<Blank>> /\ saved = FALSE /\ sent = <<>> /\ deleted = FALSE /\ edits = 0

\* What anyone does to the form.
Editing == page = "form" /\ ~saved /\ edits < MaxEdits /\ edits' = edits + 1

TypeAmount(a) ==
    /\ Editing /\ amount' = a
    /\ UNCHANGED <<here, seed, kind, named, way, included, typed, page, items, saved, sent,
                   deleted>>

TypeName ==
    /\ Editing /\ named' = ~named
    /\ UNCHANGED <<here, seed, kind, amount, way, included, typed, page, items, saved, sent,
                   deleted>>

ChooseWay(w) ==
    /\ Editing /\ way' = w
    /\ UNCHANGED <<here, seed, kind, amount, named, included, typed, page, items, saved, sent,
                   deleted>>

Without(m) == SelectSeq(included, LAMBDA x : x # m)

Toggle(m) ==
    /\ Editing /\ m \in here
    /\ included' = IF m \in ToSet(included) THEN Without(m) ELSE Append(included, m)
    /\ UNCHANGED <<here, seed, kind, amount, named, way, typed, page, items, saved, sent, deleted>>

\* The first percent typed fixes everyone else's where they are showing.
Fixed(w) ==
    IF w = "percent" /\ ~PercentTyped
    THEN [m \in Members |-> IF m \in ToSet(InSplit) THEN EvenPercent(m) ELSE NotTyped]
    ELSE typed[w]

TypeFor(m, n) ==
    /\ Editing /\ way # "equal" /\ m \in ToSet(InSplit)
    /\ n \in (CASE way = "exact" -> Amounts [] way = "shares" -> Parts [] OTHER -> Percents)
    /\ typed' = [typed EXCEPT ![way] = [Fixed(way) EXCEPT ![m] = n]]
    /\ UNCHANGED <<here, seed, kind, amount, named, way, included, page, items, saved, sent,
                   deleted>>

MaySave == ~saved

\* On the group at once, and sent behind; one that didn't save goes.
Save(input) ==
    /\ MaySave /\ saved' = TRUE /\ sent' = Append(sent, input)

Submit ==
    /\ page = "form" /\ named /\ ~Bad
    /\ Save(ToInput)
    /\ UNCHANGED <<here, seed, kind, amount, named, way, included, typed, page, items, deleted,
                   edits>>

\* What it made people owe goes with it.
RemoveExpense ==
    /\ page = "form" /\ kind = "edit" /\ MaySave
    /\ saved' = TRUE /\ deleted' = TRUE
    /\ UNCHANGED <<here, seed, kind, amount, named, way, included, typed, page, items, sent, edits>>

-----------------------------------------------------------------------------
(* The bill                                                                *)

SplitByItem ==
    /\ page = "form" /\ ~saved /\ page' = "bill"
    /\ UNCHANGED <<here, seed, kind, amount, named, way, included, typed, items, saved, sent,
                   deleted, edits>>

BackToForm ==
    /\ page = "bill" /\ page' = "form"
    /\ UNCHANGED <<here, seed, kind, amount, named, way, included, typed, items, saved, sent,
                   deleted, edits>>

ChangeItem(i, it) ==
    /\ page = "bill" /\ ~saved /\ edits < MaxEdits /\ edits' = edits + 1
    /\ items' = IF i > Len(items) THEN Append(items, it) ELSE [items EXCEPT ![i] = it]
    /\ UNCHANGED <<here, seed, kind, amount, named, way, included, typed, page, saved, sent,
                   deleted>>

RemoveItem(i) ==
    /\ page = "bill" /\ ~saved /\ Len(items) > 1 /\ i \in DOMAIN items
    /\ items' = RemoveAt(items, i)
    /\ UNCHANGED <<here, seed, kind, amount, named, way, included, typed, page, saved, sent,
                   deleted, edits>>

\* The form takes on what the bill came to.
TakesOn == BillTotal

\* Saved, or back to the form for the name it needs.
SaveBill ==
    /\ page = "bill" /\ ~BillBad
    /\ amount' = TakesOn /\ way' = "exact" /\ included' = OnBill
    /\ typed' = [typed EXCEPT !["exact"] =
                    [m \in Members |-> IF m \in ToSet(OnBill) THEN BillParts[m] ELSE NotTyped]]
    /\ IF named THEN Save(BillInput) /\ UNCHANGED page
       ELSE page' = "form" /\ UNCHANGED <<saved, sent>>
    /\ UNCHANGED <<here, seed, kind, named, items, deleted, edits>>

\* Someone is taken out on another phone, or comes in. Whoever the saved
\* expense names can't go.
PeopleChange(m) ==
    /\ kind = "edit" => m \notin ToSet(seed.who)
    /\ edits < MaxEdits /\ edits' = edits + 1
    /\ here' = (here \ {m}) \cup ({m} \ here)
    /\ UNCHANGED formVars

Next ==
    \/ Submit \/ RemoveExpense \/ SplitByItem \/ BackToForm \/ SaveBill \/ TypeName
    \/ \E i \in 1..2 : RemoveItem(i)
    \/ \E a \in Amounts : TypeAmount(a)
    \/ \E w \in Ways : ChooseWay(w)
    \/ \E m \in Members :
         \/ Toggle(m) \/ PeopleChange(m)
         \/ \E n \in Amounts \cup Parts \cup Percents : TypeFor(m, n)
    \/ \E i \in 1..2, a \in Amounts, S \in {{}, {1, HowMany}, Members} :
         i <= Len(items) + 1 /\ ChangeItem(i, [price |-> a, who |-> InOrder(S)])

Spec == Init /\ [][Next]_vars

-----------------------------------------------------------------------------

TypeOK ==
    /\ here \subseteq Members /\ amount \in Nat /\ way \in Ways
    /\ ToSet(included) \subseteq Members /\ DOMAIN typed = Typed
    /\ page \in {"form", "bill"} /\ Len(items) \in 1..2
    /\ named \in BOOLEAN /\ saved \in BOOLEAN /\ deleted \in BOOLEAN /\ edits \in 0..MaxEdits

\* What the card showed each person is what the server works out from what
\* was sent, down to who gets the odd unit (split, toInput).
SavedIsShown ==
    Len(sent') > Len(sent) /\ page = "form" => ResolveParts(Last(sent')) = Preview

\* What is sent adds up and names nobody the app knows is gone, so the server
\* has no reason to refuse the split after the form has closed (members, save).
SavedHoldsUp ==
    Len(sent') > Len(sent) => Splittable(Last(sent')) /\ ToSet(Last(sent').who) \subseteq here

\* Once a percent was typed, the number of anyone who stays in the split moves
\* only when it is typed in (typeFor).
PercentsStayPut ==
    way = "percent" /\ typed'["percent"] # Nothing =>
      LET stay == {m \in Members : m \in ToSet(InSplit) /\ m \in ToSet(InSplit')}
          moved == {m \in stay : Raw("percent", m)' # Raw("percent", m)}
      IN \A m \in moved : typed'["percent"][m] # typed["percent"][m] /\ \A x \in moved : x = m

\* Back from a bill that had no name yet, the form shows the bill's split.
BillCarriesOver ==
    page = "bill" /\ page' = "form" /\ included' = OnBill /\ included # included' =>
      ~Bad' /\ Preview' = BillParts

\* Opening an expense and saving it as it is changes nobody's share.
EditKeepsShares ==
    kind = "edit" /\ edits = 0 /\ sent # <<>> /\ page = "form" =>
        ResolveParts(Last(sent)) = ResolveParts(seed)

\* One form, one expense, added, changed or deleted (saved).
SavedOnce == IF deleted THEN sent = <<>> ELSE Len(sent) <= 1
=============================================================================
