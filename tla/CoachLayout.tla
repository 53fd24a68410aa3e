----------------------------- MODULE CoachLayout -----------------------------
(* Where a tip's hole, card and arrow go (ui/coachmarkLayout.ts), in whole   *)
(* points of the window, as the measuring loop of ui/Coachmarks.tsx places   *)
(* them again whenever what it points at has moved, and the rectangles that  *)
(* keep taps off everything else.  The arrow's curve and its head are left   *)
(* out: only where it starts and ends.                                       *)
EXTENDS Integers, FiniteSets, SequencesExt, FiniteSetsExt

CONSTANTS
    Stage,         \* the window's size
    Insets,        \* what the status bar and the home indicator may take
    Xs, Ys,        \* bound: where a target's corner may be
    Widths, Heights,   \* bound: how large a target may be
    CardHeights    \* bound: how tall the card may be

Rects == [x : Xs, y : Ys, width : Widths, height : Heights]

MARGIN == 16
CARD_MAX == 360
Want == 72
Least == 32
TIP_GAP == 10
START_GAP == 6
Pad == 6

VARIABLES
    targets,       \* what the step points at, the widest first
    inset,         \* what the system takes of the screen
    height,        \* how tall the card is
    placed         \* what is drawn: the hole, the card, and which target it is for

vars == <<targets, inset, height, placed>>

-----------------------------------------------------------------------------
clamp(n, lo, hi) == Min({Max({n, lo}), Max({lo, hi})})

Right(r) == r.x + r.width
Bottom(r) == r.y + r.height
Area(r) == r.width * r.height

cardBounds(in) ==
    [x |-> MARGIN, y |-> in.top + MARGIN,
     width |-> Max({0, Stage.width - 2 * MARGIN}),
     height |-> Max({0, Stage.height - in.top - in.bottom - 2 * MARGIN})]

cardWidth == Max({0, Min({Stage.width - 2 * MARGIN, CARD_MAX})})

\* The target with room around it, kept inside the stage on every side.
holeAround(t) ==
    LET x == clamp(t.x - Pad, 0, Stage.width)
        y == clamp(t.y - Pad, 0, Stage.height)
    IN [x |-> x, y |-> y,
        width |-> clamp(Right(t) + Pad, x, Stage.width) - x,
        height |-> clamp(Bottom(t) + Pad, y, Stage.height) - y]

\* Under the hole if the arrow gets its room there, else over it, else whichever
\* side leaves more.
SideFor(below, above) ==
    IF below >= Want \/ (above < Want /\ below >= above) THEN "below" ELSE "above"

\* The card leaves the hole uncovered only where the side has room for it.
Clear(spare) == spare >= 0

\* A card that fits nowhere is kept on the screen, even over the hole.
OnScreen(y, in, h) ==
    clamp(y, cardBounds(in).y, Bottom(cardBounds(in)) - h)

placeCard(hole, h, in) ==
    LET bounds == cardBounds(in)
        below  == Bottom(bounds) - Bottom(hole) - h
        above  == hole.y - bounds.y - h
        side   == SideFor(below, above)
        spare  == IF side = "below" THEN below ELSE above
        room   == clamp(spare, 0, Want)
        y      == IF side = "below" THEN Bottom(hole) + room ELSE hole.y - room - h
    IN [x |-> clamp(hole.x + hole.width \div 2 - cardWidth \div 2,
                    bounds.x, Right(bounds) - cardWidth),
        y |-> OnScreen(y, in, h), width |-> cardWidth, height |-> h,
        side |-> side, gap |-> room, clear |-> Clear(spare)]

\* The first target the card fits beside with room for the arrow; failing that
\* the first it fits beside at all; failing that the last.
Chosen(all) ==
    LET Fits(i) == all[i].card.clear
        Roomy(i) == Fits(i) /\ all[i].card.gap >= Least
    IN IF \E i \in DOMAIN all : Roomy(i) THEN Min({i \in DOMAIN all : Roomy(i)})
       ELSE IF \E i \in DOMAIN all : Fits(i) THEN Min({i \in DOMAIN all : Fits(i)})
       ELSE Len(all)

layOut(ts, h, in) ==
    LET all == [i \in DOMAIN ts |->
                   [hole |-> holeAround(ts[i]), card |-> placeCard(holeAround(ts[i]), h, in)]]
        it  == Chosen(all)
    IN [hole |-> all[it].hole, card |-> all[it].card, target |-> it]

\* Whether an arrow is drawn: the card is beside the hole with room for one.
HasArrow(l) == l.card.gap >= Least

\* Where the arrow starts, off the card's edge, and ends, short of the hole.
TipY(l) == IF l.card.side = "below" THEN Bottom(l.hole) + TIP_GAP ELSE l.hole.y - TIP_GAP
StartY(l) == IF l.card.side = "below" THEN l.card.y - START_GAP
             ELSE Bottom(l.card) + START_GAP
TipX(l) == LET in == Min({TIP_GAP, l.hole.width \div 2})
           IN clamp(l.hole.x + l.hole.width \div 2, l.hole.x + in, Right(l.hole) - in)
Swing(l) == LET rise == IF StartY(l) > TipY(l) THEN StartY(l) - TipY(l) ELSE TipY(l) - StartY(l)
            IN clamp((rise * 4) \div 5, 18, 56)
StartX(l) ==
    LET toward == IF 2 * TipX(l) <= 2 * l.card.x + l.card.width THEN 1 ELSE -1
        At(way) == clamp(TipX(l) + way * toward * Swing(l), l.card.x + 24, Right(l.card) - 24)
        Near(n) == n - TipX(l) \in -11 .. 11
    IN IF Near(At(1)) THEN At(-1) ELSE At(1)

\* What a tap outside the hole lands on.
blockersAround(hole) ==
    {[x |-> 0, y |-> 0, width |-> Stage.width, height |-> hole.y],
     [x |-> 0, y |-> Bottom(hole), width |-> Stage.width,
      height |-> Max({0, Stage.height - Bottom(hole)})],
     [x |-> 0, y |-> hole.y, width |-> hole.x, height |-> hole.height],
     [x |-> Right(hole), y |-> hole.y, width |-> Max({0, Stage.width - Right(hole)}),
      height |-> hole.height]}

overlaps(a, b) ==
    a.x < Right(b) /\ b.x < Right(a) /\ a.y < Bottom(b) /\ b.y < Bottom(a)

-----------------------------------------------------------------------------
\* The link is along the bottom of what it is in.
LinkIn(t) == [t EXCEPT !.y = Bottom(t) - 40, !.height = 40]
Steps == {<<t>> : t \in Rects} \cup {<<t, LinkIn(t)>> : t \in {r \in Rects : r.height > 40}}

TypeOK ==
    /\ targets \in Steps /\ inset \in Insets /\ height \in CardHeights
    /\ placed.target \in DOMAIN targets
    /\ placed.card.side \in {"below", "above"}

Init ==
    /\ inset \in Insets
    /\ targets = <<CHOOSE r \in Rects : TRUE>> /\ height = Min(CardHeights)
    /\ placed = layOut(targets, height, inset)

\* What the card points at has moved, or the step is another one.
Moves(ts) ==
    /\ targets' = ts /\ UNCHANGED <<height, inset>>
    /\ placed' = layOut(ts, height, inset)

\* What a tap did is said on the card, or another step has more to say.
Grows(h) ==
    /\ height' = h /\ UNCHANGED <<targets, inset>>
    /\ placed' = layOut(targets, h, inset)

Next ==
    \/ \E ts \in Steps : Moves(ts)
    \/ \E h \in CardHeights : Grows(h)

Spec == Init /\ [][Next]_vars

-----------------------------------------------------------------------------
\* A tap lands on exactly one of the hole and the rectangles around it: they
\* cover the window between them and none lies over another.
TapsAreKept ==
    LET all == blockersAround(placed.hole) \cup {placed.hole}
        drawn == {r \in all : Area(r) > 0}
    IN /\ \A r, s \in drawn : r # s => ~overlaps(r, s)
       /\ \A r \in drawn : r.x >= 0 /\ r.y >= 0 /\ Right(r) <= Stage.width
                             /\ Bottom(r) <= Stage.height
       /\ MapThenSumSet(Area, drawn) = Stage.width * Stage.height

\* The card can be read: all of it is on the screen wherever it fits there.
CardIsRead ==
    LET b == cardBounds(inset)
    IN height <= b.height => /\ placed.card.y >= b.y /\ Bottom(placed.card) <= Bottom(b)
                             /\ placed.card.x >= b.x /\ Right(placed.card) <= Right(b)

\* A card said to leave the hole uncovered does, and its arrow starts off the
\* card, ends short of the hole and points at it from the card's side.
ClearIsClear ==
    /\ placed.card.clear => ~overlaps(placed.card, placed.hole)
    /\ HasArrow(placed) =>
        /\ IF placed.card.side = "below"
           THEN Bottom(placed.hole) < TipY(placed) /\ TipY(placed) < StartY(placed)
           ELSE StartY(placed) < TipY(placed) /\ TipY(placed) < placed.hole.y
        /\ StartX(placed) - TipX(placed) \notin -11 .. 11

\* A hole is covered only if the card fits beside none of the step's targets.
CoversIfItMust ==
    placed.card.clear
        \/ \A i \in DOMAIN targets : ~placeCard(holeAround(targets[i]), height, inset).clear
=============================================================================
