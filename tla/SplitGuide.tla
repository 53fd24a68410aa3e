----------------------------- MODULE SplitGuide -----------------------------
(* The tips the expense form shows once on a device: the intro over the     *)
(* split card, the tour of the sheet, and what the device keeps of them     *)
(* (ui/tips.ts, ui/Coachmarks.tsx, ui/AddExpenseScreen.tsx).  A tip is      *)
(* placed once it has been measured; until then nothing under it is covered.*)
EXTENDS Naturals, Sequences, SequencesExt

CONSTANTS
    Unknown,       \* a tip of a newer version, kept but not known here
    MaxLives,      \* bound: launches of the app
    MaxForms       \* bound: forms opened in one launch

TIPS == {"splitIntro", "splitTour"}
Tour == <<"paid", "out", "ways", "items", "done">>
NoTour == 0

VARIABLES
    kept,          \* the tips the device has stored as seen
    read,          \* what this launch's read of them is: asked, answered, failed
    seen,          \* the tips seen, as the app knows; nothing until it has said
    owing,         \* whether something marked waits for the read to be written
    writes,        \* the writes on their way to the device, oldest first
    form,          \* which form is open: none, adding, editing, locked
    focusAtOnce,   \* whether the amount takes the keyboard as it appears
    keyboard,      \* down, brought by the app, or tapped by the person
    details,       \* whether the sheet is open
    byItem,        \* whether the bill's own screen is in the form's place
    tour,          \* the step the tour is at
    frame,         \* the step that is placed, while the tour is up
    tourShown,     \* whether this tour got as far as the screen
    ack,           \* what the tour's card says a tap did
    isIn,          \* whether the person the tour points at shares the spend
    introAt,       \* whether the intro is placed
    backs,         \* who a press of Back reaches, newest last
    toured,        \* ghost: a tour was on this device's screen once
    here,          \* ghost: one was, in this launch
    lives, forms   \* how often the app was started and a form opened

device == <<kept, read, owing, writes, lives, forms>>
screen == <<form, focusAtOnce, byItem, isIn>>
guide  == <<tour, frame, tourShown, ack, introAt>>
ghosts == <<toured, here>>
vars == <<device, screen, guide, ghosts, seen, keyboard, details, backs>>

TypeOK ==
    /\ kept \subseteq TIPS \cup {Unknown} /\ seen \subseteq TIPS \cup {Unknown}
    /\ read \in {"asked", "answered", "failed"} /\ owing \in BOOLEAN
    /\ writes \in Seq(SUBSET (TIPS \cup {Unknown}))
    /\ form \in {"none", "adding", "editing", "locked"}
    /\ keyboard \in {"down", "brought", "tapped"}
    /\ {focusAtOnce, details, byItem, tourShown, isIn, introAt, toured, here} \subseteq BOOLEAN
    /\ tour \in 0 .. Len(Tour) /\ frame \in 0 .. Len(Tour)
    /\ ack \in {"none", "out", "back"}
    /\ backs \in Seq({"sheet", "tour", "intro"})
    /\ lives \in 1 .. MaxLives /\ forms \in 0 .. MaxForms

-----------------------------------------------------------------------------
(* What the device keeps.                                                   *)

\* Whether a screen can tell: until then it shows no tip, and then every tip
\* not seen.  A mark made before the device answered is enough.
WasRead == read # "asked"
HasSaid == WasRead \/ seen # {}

\* Whether this device is known not to have seen a tip.
Unseen(tip, said, known) == said /\ tip \notin known

\* What was stored is kept beside what was marked before the read was answered.
Merged(saved, marked) == saved \cup marked

\* A mark is written after the read, with everything seen by then.
WritesOf(marked) ==
    IF marked \subseteq seen
    THEN UNCHANGED <<owing, writes>>
    ELSE IF WasRead
    THEN writes' = Append(writes, seen \cup marked) /\ UNCHANGED owing
    ELSE owing' = TRUE /\ UNCHANGED writes

MarkSeen(marked) ==
    /\ seen' = seen \cup marked
    /\ WritesOf(marked)
    /\ UNCHANGED <<kept, read, lives, forms>>

NotMarked == UNCHANGED <<seen, device>>

IntroUp == form = "adding" /\ ~byItem /\ Unseen("splitIntro", HasSaid, seen)

\* A form that was waiting to be told takes the keyboard, unless the intro comes.
Hears ==
    keyboard' = IF /\ ~HasSaid /\ (read' # "asked" \/ seen' # {})
                   /\ form = "adding" /\ ~byItem /\ "splitIntro" \in seen'
                THEN "brought" ELSE keyboard

\* The device answers, or cannot be read.
Answered(ok) ==
    /\ ~WasRead
    /\ read' = IF ok THEN "answered" ELSE "failed"
    /\ seen' = Merged(IF ok THEN kept ELSE {}, seen)
    /\ owing' = FALSE
    /\ writes' = IF owing THEN Append(writes, seen') ELSE writes
    /\ Hears
    /\ UNCHANGED <<kept, lives, forms, screen, guide, ghosts, details, backs>>

\* The device stores the oldest write, or refuses it.
Written(ok) ==
    /\ writes # <<>>
    /\ kept' = IF ok THEN Head(writes) ELSE kept
    /\ writes' = Tail(writes)
    /\ UNCHANGED <<read, owing, lives, forms, seen, screen, guide, ghosts,
                   keyboard, details, backs>>

-----------------------------------------------------------------------------
(* The form and its sheet.                                                  *)

\* The tour covers what is under it once it is placed, but for its hole.
Uncovered == IF frame = 0 THEN Range(Tour) ELSE {Tour[frame]}
OnForm == form # "none" /\ ~details /\ ~byItem
OnSheet(what) == details /\ what \in Uncovered

\* The amount has the keyboard at once where no intro is coming.
FocusAtOnce(kind) == kind = "adding" /\ HasSaid /\ "splitIntro" \in seen

OpenForm(kind) ==
    /\ form = "none" /\ forms < MaxForms
    /\ form' = kind /\ forms' = forms + 1
    /\ focusAtOnce' = FocusAtOnce(kind)
    /\ keyboard' = IF FocusAtOnce(kind) THEN "brought" ELSE "down"
    /\ isIn' = TRUE
    /\ UNCHANGED <<kept, read, owing, writes, lives, byItem, guide, ghosts, seen,
                   details, backs>>

\* Saved, or closed without saving.
CloseForm ==
    /\ OnForm /\ ~introAt
    /\ form' = "none" /\ keyboard' = "down"
    /\ UNCHANGED <<device, focusAtOnce, byItem, isIn, guide, ghosts, seen, details, backs>>

TapAmount ==
    /\ OnForm /\ ~introAt /\ form # "locked"
    /\ keyboard' = "tapped"
    /\ UNCHANGED <<device, screen, guide, ghosts, seen, details, backs>>

Without(who) == SelectSeq(backs, LAMBDA b : b # who)

StartTour == tour' = 1 /\ frame' = 0 /\ tourShown' = FALSE /\ ack' = "none"
NoTourStarts == UNCHANGED <<tour, frame, tourShown, ack>>

\* The first time on this device the sheet brings the tour; asked for, always.
BringsTour(guided) ==
    form # "locked" /\ (guided \/ Unseen("splitTour", HasSaid, seen))

OpenDetails(guided) ==
    /\ details' = TRUE
    /\ IF BringsTour(guided) THEN StartTour ELSE NoTourStarts

\* The card and its link: Show me where the intro is up, else the sheet.
PressCard ==
    /\ OnForm /\ form # "locked" /\ ~IntroUp
    /\ OpenDetails(FALSE)
    /\ backs' = Append(backs, "sheet")
    /\ NotMarked
    /\ UNCHANGED <<screen, introAt, ghosts, keyboard>>

ShowMe ==
    /\ OnForm /\ IntroUp
    /\ MarkSeen({"splitIntro"})
    /\ introAt' = FALSE
    /\ OpenDetails(TRUE)
    /\ backs' = Append(Without("intro"), "sheet")
    /\ UNCHANGED <<screen, ghosts, keyboard>>

\* Not now: Escape and Back are it too, once the intro is placed.
NotNow ==
    /\ MarkSeen({"splitIntro"})
    /\ introAt' = FALSE
    /\ keyboard' = "brought"
    /\ backs' = Without("intro")
    /\ UNCHANGED <<screen, tour, frame, tourShown, ack, ghosts, details>>

PressNotNow == OnForm /\ introAt /\ NotNow

-----------------------------------------------------------------------------
(* The tour.                                                                *)

\* Mutants: only the way through it counts; a tour still waiting counts.
MarkedWhenDone(how) == IF tourShown /\ how = "done" THEN TIPS ELSE {}
MarkedAnyway(how) == TIPS

\* What is marked as the tour ends: both tips, if it got to the screen.
MarkedAtEnd(how) == IF tourShown THEN TIPS ELSE {}

\* It ends: through it, skipped, or the sheet under it closed.  The intro, seen
\* from now on, goes with it.
EndTour(how) ==
    /\ IF MarkedAtEnd(how) = {} THEN NotMarked ELSE MarkSeen(MarkedAtEnd(how))
    /\ introAt' = (introAt /\ MarkedAtEnd(how) = {})
    /\ tour' = NoTour /\ frame' = 0 /\ ack' = "none"
    /\ UNCHANGED tourShown

LeftAfter(gone) ==
    SelectSeq(backs, LAMBDA b : b \notin gone /\ (b = "intro" => introAt'))

CloseDetails(how) ==
    /\ IF tour # NoTour THEN EndTour(how) ELSE NotMarked /\ UNCHANGED guide
    /\ details' = FALSE
    /\ backs' = LeftAfter({"sheet", "tour"})
    /\ UNCHANGED ghosts

PressDone ==
    /\ OnSheet("done")
    /\ CloseDetails("closed")
    /\ Hears /\ UNCHANGED screen

SplitByItem ==
    /\ OnSheet("items") /\ form # "locked"
    /\ CloseDetails("closed")
    /\ byItem' = TRUE /\ keyboard' = "down"
    /\ UNCHANGED <<form, focusAtOnce, isIn>>

\* Back from the bill: the amount appears again.
BackFromBill ==
    /\ byItem /\ byItem' = FALSE
    /\ keyboard' = IF focusAtOnce THEN "brought" ELSE "down"
    /\ UNCHANGED <<device, form, focusAtOnce, isIn, guide, ghosts, seen, details, backs>>

\* The i beside Done, which is not in any of the tour's holes.
PressInfo ==
    /\ details /\ frame = 0 /\ form # "locked"
    /\ StartTour
    /\ NotMarked
    /\ UNCHANGED <<screen, introAt, ghosts, keyboard, details, backs>>

\* A person is left out or put back.  On the step about it the card says so.
AckOf(in) == IF in THEN "back" ELSE "out"
ToggleOut ==
    /\ OnSheet("out")
    /\ isIn' = ~isIn
    /\ ack' = IF tour # NoTour /\ Tour[tour] = "out" THEN AckOf(~isIn) ELSE ack
    /\ NotMarked
    /\ UNCHANGED <<form, focusAtOnce, byItem, tour, frame, tourShown, introAt, ghosts,
                   keyboard, details, backs>>

\* Next and Previous, which can be pressed once their step is placed.
Said(at) == "none"
OnAt(at) ==
    /\ tour # NoTour /\ frame = tour /\ at \in 1 .. Len(Tour) /\ at \in {tour - 1, tour + 1}
    /\ tour' = at /\ ack' = Said(at)
    /\ NotMarked
    /\ UNCHANGED <<screen, frame, tourShown, introAt, ghosts, keyboard, details, backs>>

OnEnd(how) ==
    /\ EndTour(how)
    /\ backs' = LeftAfter({"tour"})
    /\ Hears
    /\ UNCHANGED <<screen, ghosts, details>>

\* Got it is on the last step, Skip on every one.
PressEnd(how) ==
    /\ tour # NoTour /\ frame = tour /\ (how = "done" => tour = Len(Tour))
    /\ OnEnd(how)

\* Who listens for Back when the tour is first on the screen: it is newer than
\* the sheet then, which listened as it opened.
Listens == Append(backs, "tour")

\* The step has been measured and is placed.  The first of a tour is when it is
\* shown, and puts the keyboard away.
PlaceStep ==
    /\ tour # NoTour /\ frame # tour /\ details
    /\ frame' = tour
    /\ IF frame = 0
       THEN /\ keyboard' = "down" /\ tourShown' = TRUE /\ backs' = Listens
            /\ toured' = TRUE /\ here' = TRUE
       ELSE UNCHANGED <<keyboard, tourShown, backs, ghosts>>
    /\ NotMarked
    /\ UNCHANGED <<screen, tour, ack, introAt, details>>

PlaceIntro ==
    /\ IntroUp /\ ~introAt
    /\ introAt' = TRUE /\ keyboard' = "down"
    /\ backs' = Append(backs, "intro")
    /\ NotMarked
    /\ UNCHANGED <<screen, tour, frame, tourShown, ack, ghosts, details>>

\* The back button reaches the newest that listens; with none, it leaves the form.
PressBack ==
    /\ backs # <<>>
    /\ CASE Last(backs) = "tour"  -> OnEnd("skipped")
         [] Last(backs) = "intro" -> NotNow
         [] Last(backs) = "sheet" -> CloseDetails("closed") /\ Hears /\ UNCHANGED screen

\* The app is closed and started again: what was on its way to the device may
\* have been stored or not.
Restart ==
    /\ lives < MaxLives /\ lives' = lives + 1 /\ forms' = 0
    /\ \E n \in 0 .. Len(writes) : kept' = IF n = 0 THEN kept ELSE writes[n]
    /\ read' = "asked" /\ seen' = {} /\ owing' = FALSE /\ writes' = <<>>
    /\ form' = "none" /\ focusAtOnce' = FALSE /\ keyboard' = "down"
    /\ details' = FALSE /\ byItem' = FALSE /\ isIn' = TRUE
    /\ tour' = NoTour /\ frame' = 0 /\ tourShown' = FALSE /\ ack' = "none" /\ introAt' = FALSE
    /\ backs' = <<>> /\ here' = FALSE
    /\ UNCHANGED toured

Init ==
    /\ kept \in {{}, {"splitIntro"}, {"splitTour", Unknown}}
    /\ read = "asked" /\ seen = {} /\ owing = FALSE /\ writes = <<>>
    /\ form = "none" /\ focusAtOnce = FALSE /\ keyboard = "down"
    /\ details = FALSE /\ byItem = FALSE /\ isIn = TRUE
    /\ tour = NoTour /\ frame = 0 /\ tourShown = FALSE /\ ack = "none" /\ introAt = FALSE
    /\ backs = <<>> /\ here = FALSE
    /\ toured = ("splitTour" \in kept)
    /\ lives = 1 /\ forms = 0

Next ==
    \/ \E ok \in BOOLEAN : Answered(ok) \/ Written(ok)
    \/ \E kind \in {"adding", "editing", "locked"} : OpenForm(kind)
    \/ CloseForm \/ TapAmount \/ PressCard \/ ShowMe \/ PressNotNow
    \/ PressDone \/ SplitByItem \/ BackFromBill \/ PressInfo \/ ToggleOut
    \/ \E at \in 1 .. Len(Tour) : OnAt(at)
    \/ \E how \in {"done", "skipped"} : PressEnd(how)
    \/ PlaceStep \/ PlaceIntro \/ PressBack \/ Restart

Spec == Init /\ [][Next]_vars

-----------------------------------------------------------------------------
\* A tour that was on the screen and is gone has been seen, whichever way it
\* went: through it, skipped, by Back, or the sheet closed under it (tips.ts:
\* "anything else that ends it once it's up, marks every tip seen").
EndedIsSeen == here /\ frame = 0 /\ tour = NoTour => TIPS \subseteq seen

\* Only a tour that showed is taken as seen: one closed while the sheet was
\* still sliding in comes round again (AddExpenseScreen.tsx, endTour).
SeenWasShown == "splitTour" \in seen \cup kept => toured

\* What the card says a tap did is about the person as they are now, and is said
\* on the step about them.
AckIsTrue == ack # "none" => tour # NoTour /\ Tour[tour] = "out" /\ ack = AckOf(isIn)

\* The app never brings the keyboard up over what the intro points at, even
\* where the device says late that the intro was not seen.
KeyboardLeavesIntro == IntroUp => keyboard # "brought"

\* Back ends the tour and leaves the sheet under it open, although the sheet
\* listens for Back too and both opened in the same moment (Coachmarks.tsx).
BackLeavesTheSheet == PressBack /\ frame # 0 => details'

\* Nothing the device has stored as seen is lost by a later write, also of a tip
\* this version does not know, unless the device could not be read.
KeptGrows == kept \subseteq kept' \/ read = "failed"
=============================================================================
