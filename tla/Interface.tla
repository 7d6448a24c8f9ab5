-------------------------------- MODULE Interface --------------------------------
(***************************************************************************)
(* The session view (session.rs) with the prompt's routing of keys and its *)
(* history (prompt.rs), the menu (menus.rs), the exit confirmation and the *)
(* stream pump of the frames (statusline.rs), on the scripted backend.     *)
(*                                                                         *)
(* One action per key, from the element that gets it first to the handler  *)
(* that acts on it, and one for a frame; a key that has no effect is left  *)
(* out.  The buffer holds one of a few texts (module Prompt has its        *)
(* edits).  Which entry of the menu is highlighted, the scroll position,   *)
(* folding, hints and the help overlay change nothing but what is drawn,   *)
(* and are left out.                                                       *)
(***************************************************************************)
EXTENDS MockBackend

CONSTANTS Texts,        \* what is typed, named as in module MockBackend
          TwoLines,     \* the texts of two lines
          FirstLine,    \* of each text
          Items,        \* texts that an entry of the menu inserts
          HistoryCap,   \* HISTORY_CAP
          MaxMoves      \* bound: submits, simulated activities and new sessions

Nothing == ""
Slash == "/"            \* opens the menu

ASSUME TextsAssumption ==
  /\ TwoLines \subseteq Texts
  /\ FirstLine \in [Texts \cup Items \cup {Slash} -> (Texts \ TwoLines) \cup Items \cup {Slash}]
ASSUME CapAssumption == HistoryCap \in Nat \ {0} /\ MaxMoves \in Nat

VARIABLES
  buffer,
  history,      \* PromptHistory; cursor 0 when there is no navigation
  dismissed,    \* the menu was closed
  armed,        \* ExitConfirmation, its window not lapsed
  quit,
  strip,        \* what the tab strip knows: how many tabs, which one is selected
  repaint,      \* a frame has been asked for
  moves,
  asked         \* history variable: the last ctrl-c asked for another, and not too long ago

vars == <<mock, buffer, history, dismissed, armed, quit, strip, repaint, moves, asked>>

-------------------------------------------------------------------------------
(* PromptHistory *)

Reset(h) == [h EXCEPT !.cursor = 0, !.draft = Nothing]

\* A repeat of the newest entry is skipped, and the oldest one goes when there are too many.
Recorded(h, text) ==
  LET all == Append(h.entries, text)
  IN Reset(IF h.entries # <<>> /\ Last(h.entries) = text THEN h
           ELSE [h EXCEPT !.entries = IF Len(all) > HistoryCap THEN Tail(all) ELSE all])

Older(h, current) ==
  IF h.cursor = 0 THEN [h EXCEPT !.cursor = Len(h.entries), !.draft = current]
  ELSE [h EXCEPT !.cursor = IF @ > 1 THEN @ - 1 ELSE @]

\* Past the newest entry the navigation is over.
Newer(h) == IF h.cursor = Len(h.entries) THEN Reset(h) ELSE [h EXCEPT !.cursor = @ + 1]

-------------------------------------------------------------------------------
\* tab_config, as far as the keys are concerned.
Strip(all, shown) == [count |-> Len(all), selected |-> shown]

Init ==
  /\ MockInit
  /\ buffer = Nothing
  /\ history = [entries |-> <<>>, cursor |-> 0, draft |-> Nothing]
  /\ dismissed = FALSE /\ armed = FALSE /\ quit = FALSE
  /\ strip = Strip(sessions, active)
  /\ repaint = FALSE /\ moves = 0
  /\ asked = FALSE

\* What the menu offers: a text with a blank is no command any more, and a full name is
\* submitted as it is.
Offered(text) == IF text = Slash THEN Items ELSE {}

MenuOpen == Offered(buffer) # {} /\ ~dismissed
GateLive == Blocker # None

Calls == ~quit /\ repaint' = TRUE
Moves == Calls /\ moves < MaxMoves /\ moves' = moves + 1

-------------------------------------------------------------------------------
(* The prompt *)

\* Any edit of the buffer leaves the history.
Type(text) ==
  /\ Calls /\ buffer # text
  /\ buffer' = text /\ history' = Reset(history)
  /\ UNCHANGED <<mock, dismissed, armed, quit, strip, moves, asked>>

\* Enter is the menu's while it is open, and nobody's while a gate is up.
Enter ==
  /\ Moves /\ ~MenuOpen /\ ~GateLive /\ buffer # Nothing
  /\ history' = Recorded(history, buffer)
  /\ buffer' = Nothing /\ dismissed' = FALSE
  /\ Submit(buffer)
  /\ UNCHANGED <<armed, quit, strip, asked>>

\* Enter or tab
Accept ==
  /\ Calls /\ MenuOpen
  /\ buffer' \in Offered(buffer) /\ dismissed' = FALSE
  /\ UNCHANGED <<mock, history, armed, quit, strip, moves, asked>>

Escape ==
  /\ Calls /\ MenuOpen
  /\ dismissed' = TRUE
  /\ UNCHANGED <<mock, buffer, history, armed, quit, strip, moves, asked>>

\* An arrow recalls what was submitted, unless the menu or a gate is there or the buffer
\* has more lines than one.  set_text keeps the first line of what it shows.
Recalls ==
  /\ Calls /\ ~MenuOpen /\ ~GateLive
  /\ buffer \notin TwoLines /\ history.entries # <<>>
  /\ UNCHANGED <<mock, dismissed, armed, quit, strip, moves, asked>>

Up ==
  /\ Recalls
  /\ history' = Older(history, buffer)
  /\ buffer' = FirstLine[history'.entries[history'.cursor]]

Down ==
  /\ Recalls /\ history.cursor # 0
  /\ history' = Newer(history)
  /\ buffer' = IF history'.cursor = 0 THEN history.draft
               ELSE FirstLine[history'.entries[history'.cursor]]

-------------------------------------------------------------------------------
(* The keys of the view *)

\* A digit is text unless a gate is up.
Answered(option) ==
  CASE Blocker = "permission" -> ResolvePermission(option = 0)
    [] Blocker = "question" -> AnswerQuestion(option)

Digit(option) ==
  /\ Calls /\ GateLive
  /\ Answered(option)
  /\ UNCHANGED <<buffer, history, dismissed, armed, quit, strip, moves, asked>>

\* ExitConfirmation
Arm == armed' = TRUE
Disarm == armed' = FALSE
ShouldExit == armed

\* Deliberately wrong: what was armed before stays armed.
ClearAndStay == buffer' = Nothing /\ UNCHANGED armed

ClearInput == buffer' = Nothing /\ Disarm

\* Ctrl-c clears the buffer, or cancels the streams, or exits if it was pressed just before.
CtrlC ==
  /\ Calls
  /\ CASE buffer # Nothing ->
            ClearInput /\ asked' = FALSE /\ UNCHANGED <<mock, quit>>
       [] buffer = Nothing /\ StreamActive ->
            Cancel /\ Disarm /\ asked' = FALSE /\ UNCHANGED <<buffer, quit>>
       [] OTHER ->
            /\ quit' = ShouldExit /\ Arm /\ asked' = TRUE
            /\ UNCHANGED <<mock, buffer>>
  /\ UNCHANGED <<history, dismissed, strip, moves>>

\* A second later.
Lapse ==
  /\ armed /\ ~quit
  /\ Disarm /\ asked' = FALSE
  /\ UNCHANGED <<mock, buffer, history, dismissed, quit, strip, repaint, moves>>

CtrlT ==
  /\ Moves /\ SimulateActivity
  /\ UNCHANGED <<buffer, history, dismissed, armed, quit, strip, asked>>

\* sync_tabs: only the keys that select a tab bring the strip up to date.
Synced == strip' = Strip(sessions', active')

CtrlO ==
  /\ Moves /\ NewSession /\ Synced
  /\ UNCHANGED <<buffer, history, dismissed, armed, quit, asked>>

\* The neighbour is looked up in the strip, past either end.
NavigationTarget(step) == ((strip.selected - 1 + step + strip.count) % strip.count) + 1

CycleTab(step) ==
  /\ Calls
  /\ SetActive(NavigationTarget(step)) /\ Synced
  /\ UNCHANGED <<buffer, history, dismissed, armed, quit, moves, asked>>

\* With the mouse, on a tab of the strip.
ClickTab(tab) ==
  /\ Calls /\ tab # active
  /\ SetActive(tab) /\ Synced
  /\ UNCHANGED <<buffer, history, dismissed, armed, quit, moves, asked>>

\* Deliberately wrong: what goes on behind the session that is shown draws nothing.
AskAgainForShown == repaint' = (streams'[active] # <<>>)

AskAgain == repaint' = StreamActive'

\* A frame polls the backend before it draws, and asks for the next one while there is more.
Frame ==
  /\ repaint /\ ~quit
  /\ PollStream
  /\ AskAgain
  /\ UNCHANGED <<buffer, history, dismissed, armed, quit, strip, moves, asked>>

Next ==
  \/ \E text \in Texts \cup {Slash} : Type(text)
  \/ Enter \/ Accept \/ Escape \/ Up \/ Down
  \/ \E option \in 0..2 : Digit(option)
  \/ CtrlC \/ Lapse \/ CtrlT \/ CtrlO
  \/ \E step \in {-1, 1} : CycleTab(step)
  \/ \E tab \in 1..strip.count : ClickTab(tab)
  \/ Frame

\* The runtime draws the frames it is asked for.
Spec == Init /\ [][Next]_vars /\ WF_vars(Frame)

-------------------------------------------------------------------------------
(* Properties *)

UserBlocks(s) == SelectSeq(sessions[s], LAMBDA b : b.kind = "user")

\* Gates, indicators and confirmations are taken out of the transcripts by position; what a
\* user submitted is never taken out with them.
SubmittedStays ==
  [][\A s \in DOMAIN sessions :
       s \in DOMAIN sessions' /\ Len(UserBlocks(s)') >= Len(UserBlocks(s))]_vars

\* The program exits only on a press of ctrl-c that finds nothing typed and nothing streaming
\* in any session, when the last press before it found nothing either and was not too long
\* ago; other keys and frames may have come in between.  This is the order of keymap.md:35,
\* and of session.rs, where a press that clears or cancels disarms.  The header of
\* exit_confirmation.rs says that such a press arms: PressArms.
QuitIsConfirmed == [][quit' /\ ~quit => asked /\ buffer = Nothing /\ ~StreamActive]_vars

\* Header of exit_confirmation.rs: "One ctrl-c performs a contextual action (cancel the
\* running conversation, else clear the input) and arms this confirmation".  It does not
\* hold of the code: typing and one press refute it.
PressArms == [][CtrlC => armed']_vars

\* The pump of frames does not stop before the queues are empty.
StreamsDrain == StreamActive ~> (~StreamActive \/ quit)
=============================================================================
