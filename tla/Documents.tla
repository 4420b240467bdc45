------------------------------- MODULE Documents -------------------------------
(***************************************************************************)
(* The document panel of the browser front end: static/js/document.js      *)
(* (tabs, one shared textarea, autosave, review of the agent's edits, live *)
(* streaming, minimising and restoring), the document events of            *)
(* static/js/chat.js and the document store behind /api/document.          *)
(*                                                                         *)
(* All tabs share one textarea.  Which document its text belongs to is     *)
(* only recorded by activeDocId, so a text is modelled with the document   *)
(* it was written for.  Every function of the panel is an operator from    *)
(* page to page; an action is the code between two awaits.                 *)
(***************************************************************************)
EXTENDS Naturals, FiniteSets

CONSTANTS Doc,      \* document ids
          Session,  \* conversations
          MaxTexts, \* texts that are typed or written by the agent
          MaxSends, \* times the text of a written document is sent
          MaxSteps  \* things the user and the agent do

NoDoc == "no document"

ASSUME DocAssumption == Doc # {} /\ Session # {} /\ NoDoc \notin Doc
ASSUME BoundsAssumption == MaxTexts \in Nat /\ MaxSteps \in Nat /\ MaxSends \in Nat \ {0}

VARIABLES
  home,    \* the conversation of each document
  session, \* the conversation on screen
  page,    \* the state of document.js
  server,  \* the documents of the store
  event,   \* the doc_update on its way, and how often it still comes
  loads,   \* calls of loadSessionDocs: its timer or its request
  creates, \* POST /api/document of createDocument and _autoCreateFromInput
  fresh,   \* texts so far
  steps,   \* things done so far
  owed     \* the user's last text of each document, until somebody replaces it

vars == <<home, session, page, server, event, loads, creates, fresh, owed, steps>>
rest == <<home, session, server, event, loads, creates, fresh, owed>>

Chunks == 2                 \* of every review
Mixture == MaxTexts + 1     \* half an animation, a stream so far, some chunks

Text == [of : Doc \cup {NoDoc}, n : 0..Mixture]
Empty(d) == [of |-> d, n |-> 0]
EmptyPane == Empty(NoDoc)   \* a textarea nobody has filled yet
Mixed(d) == [of |-> d, n |-> Mixture]
Blank(t) == t.n = 0
NoEvent == [text |-> EmptyPane, left |-> 0]
NoReview == [on |-> FALSE, old |-> EmptyPane, new |-> EmptyPane, left |-> 0, taken |-> 0]

TypeOK ==
  /\ home \in [Doc -> Session] /\ session \in Session
  /\ page \in [docs : SUBSET Doc, text : [Doc -> Text], active : Doc \cup {NoDoc},
               editor : Text, locked : BOOLEAN, open : BOOLEAN, mounted : BOOLEAN,
               review : [on : BOOLEAN, old : Text, new : Text, left : 0..Chunks, taken : 0..Chunks],
               exitDue : BOOLEAN, frames : Text, stream : Doc \cup {NoDoc}, temp : SUBSET Doc,
               chip : Doc \cup {NoDoc}, timer : BOOLEAN, closes : Nat, last : Session, shown : SUBSET Session,
               puts : SUBSET [doc : Doc, text : Text, done : BOOLEAN], deletes : SUBSET Doc]
  /\ server \in [Doc -> [text : Text, state : {"absent", "live", "deleted"}]]
  /\ event \in [text : Text, left : 0..MaxSends]
  /\ loads \subseteq [sess : Session, restore : BOOLEAN, sent : BOOLEAN, open : BOOLEAN]
  /\ creates \subseteq [kind : {"button", "typed"}, sess : Session, text : Text, wasEmpty : BOOLEAN]
  /\ fresh \in 0..MaxTexts /\ steps \in 0..MaxSteps /\ owed \in [Doc -> 0..MaxTexts]

\* The page as it is loaded, or with the documents of a conversation in tabs.
Init ==
  /\ home \in [Doc -> Session] /\ session \in Session
  /\ \E existing \in SUBSET Doc, shown \in Doc \cup {NoDoc} :
       LET text == [d \in Doc |-> IF d \in existing THEN Mixed(d) ELSE Empty(d)]
           opened == shown # NoDoc
           tabs == IF opened THEN {d \in existing : home[d] = session} ELSE {}
       IN /\ opened => shown \in tabs
          /\ server = [d \in Doc |-> [text |-> text[d],
                                      state |-> IF d \in existing THEN "live" ELSE "absent"]]
          /\ page = [docs |-> tabs, text |-> [d \in Doc |-> IF d \in tabs THEN text[d] ELSE Empty(d)],
                     active |-> shown, editor |-> IF opened THEN text[shown] ELSE EmptyPane,
                     locked |-> FALSE, open |-> opened, mounted |-> opened,
                     review |-> NoReview, exitDue |-> FALSE, frames |-> EmptyPane, stream |-> NoDoc,
                     temp |-> {}, chip |-> NoDoc, timer |-> FALSE, closes |-> 0, last |-> session,
                     shown |-> IF opened THEN {session} ELSE {}, puts |-> {}, deletes |-> {}]
  /\ event = NoEvent /\ loads = {} /\ creates = {} /\ fresh = 0 /\ steps = 0
  /\ owed = [d \in Doc |-> 0]

Live(s) == {d \in Doc : home[d] = s /\ server[d].state = "live"}
Unused(s) == {d \in Doc : home[d] = s /\ server[d].state = "absent" /\ d \notin page.docs}

-----------------------------------------------------------------------------
(* The functions of document.js.                                            *)

SaveCurrentToMap(p) ==
  IF p.mounted /\ p.active \in p.docs THEN [p EXCEPT !.text[p.active] = p.editor] ELSE p

\* saveDocument up to its request.
SaveDocument(p) ==
  LET q == SaveCurrentToMap(p)
      text == IF q.active \in q.docs THEN q.text[q.active] ELSE q.editor
  IN IF p.active = NoDoc \/ ~p.mounted THEN p
     ELSE [q EXCEPT !.puts = @ \cup {[doc |-> q.active, text |-> text, done |-> FALSE]}]

Decided(r) == IF r.taken = 0 THEN r.old
              ELSE IF r.taken = Chunks THEN r.new ELSE Mixed(r.new.of)

ExitDiffMode(p, discard) ==
  IF ~p.review.on THEN p
  ELSE SaveDocument([p EXCEPT !.review = NoReview, !.locked = FALSE,
         !.editor = IF ~p.mounted THEN @ ELSE IF discard THEN p.review.old ELSE Decided(p.review)])

\* A document that is left completely empty, without a title too, is deleted.
DropEmpty(p, d, untitled) ==
  IF untitled /\ p.active \in p.docs \ {d} /\ Blank(p.text[p.active])
  THEN [p EXCEPT !.docs = @ \ {p.active}, !.deletes = @ \cup {p.active}]
  ELSE p

SwitchUnsaved(p, d, untitled) ==
  LET q == DropEmpty(ExitDiffMode(p, TRUE), d, untitled)
  IN IF d \notin p.docs THEN p
     ELSE [q EXCEPT !.active = d, !.editor = IF q.mounted THEN q.text[d] ELSE @]

SwitchInReview(p, d, untitled) ==
  LET q == DropEmpty(SaveCurrentToMap(p), d, untitled)
  IN IF d \notin p.docs THEN p
     ELSE [q EXCEPT !.active = d, !.editor = IF q.mounted THEN q.text[d] ELSE @]

SwitchToDoc(p, d, untitled) ==
  LET q == DropEmpty(SaveCurrentToMap(ExitDiffMode(p, TRUE)), d, untitled)
  IN IF d \notin p.docs THEN p
     ELSE [q EXCEPT !.active = d, !.editor = IF q.mounted THEN q.text[d] ELSE @]

\* The pane is built anew: what slid out is removed, the textarea is empty.
OpenPanel(p) ==
  IF p.open THEN p
  ELSE [p EXCEPT !.open = TRUE, !.mounted = TRUE, !.editor = EmptyPane, !.locked = FALSE,
                 !.frames = EmptyPane, !.chip = NoDoc, !.shown = @ \cup {p.last},
                 !.active = IF p.docs = {} THEN NoDoc ELSE @]

\* The pane stays in the page until it has slid out: FinishClose, which a timer
\* of 200 ms calls a second time.
ClosePanel(p, down) ==
  IF ~p.open THEN IF down THEN p ELSE [p EXCEPT !.chip = NoDoc, !.shown = @ \ {p.last}]
  ELSE LET q == SaveCurrentToMap(p)
       IN [q EXCEPT !.open = FALSE, !.chip = IF down THEN q.active ELSE NoDoc,
                    !.shown = @ \ {q.last}, !.closes = @ + 1]

\* The save is the one of the active document, whichever tab is closed.
DetachDoc(p, d) ==
  LET q == IF d \in p.docs /\ ~Blank(p.text[d]) THEN SaveDocument(p)
           ELSE [p EXCEPT !.deletes = @ \cup {d}]
  IN [q EXCEPT !.docs = @ \ {d}]

InConversation(p, s) == {d \in p.docs : home[d] = s}

-----------------------------------------------------------------------------
(* The user in the panel.                                                   *)

Type ==
  LET d == page.active
      of == IF page.editor.of = NoDoc THEN d ELSE page.editor.of
  IN /\ page.open /\ ~page.locked /\ d # NoDoc /\ fresh < MaxTexts
     /\ fresh' = fresh + 1
     /\ page' = [page EXCEPT !.editor = [of |-> of, n |-> fresh'], !.timer = TRUE]
     /\ owed' = [owed EXCEPT ![d] = fresh']
     /\ UNCHANGED <<home, session, server, event, loads, creates>>

Clear ==
  /\ page.open /\ ~page.locked /\ page.active # NoDoc
  /\ page' = [page EXCEPT !.editor = Empty(page.active), !.timer = TRUE]
  /\ owed' = [owed EXCEPT ![page.active] = 0]
  /\ UNCHANGED <<home, session, server, event, loads, creates, fresh>>

Pending(kind) == \E c \in creates : c.kind = kind

\* Typing into the empty editor creates a document.
TypeNew ==
  LET text == [of |-> NoDoc, n |-> fresh']
  IN /\ page.open /\ ~page.locked /\ page.active = NoDoc /\ fresh < MaxTexts
     /\ fresh' = fresh + 1
     /\ page' = [page EXCEPT !.editor = text, !.timer = @ \/ Pending("button")]
     /\ creates' = IF Pending("button") \/ Pending("typed") THEN creates
                   ELSE creates \cup {[kind |-> "typed", sess |-> page.last, text |-> text, wasEmpty |-> TRUE]}
     /\ UNCHANGED <<home, session, server, event, loads, owed>>

Tab(d) ==
  /\ page.open /\ d # page.active
  /\ \E untitled \in BOOLEAN : page' = SwitchToDoc(page, d, untitled)
  /\ UNCHANGED rest

CloseTab(d) ==
  LET p == DetachDoc(SaveCurrentToMap(page), d)
      next == InConversation(p, session)
  IN /\ page.open /\ d \in page.docs
     /\ \/ /\ next = {}
           /\ page' = ClosePanel([p EXCEPT !.active = NoDoc], FALSE)
        \/ /\ next # {} /\ page.active # d
           /\ page' = p
        \/ /\ page.active = d
           /\ \E e \in next, untitled \in BOOLEAN : page' = SwitchToDoc(p, e, untitled)
     /\ UNCHANGED rest

Close(down) ==
  /\ page.open
  /\ page' = ClosePanel(page, down)
  /\ UNCHANGED rest

SlidOut(p) ==
  [p EXCEPT !.mounted = FALSE, !.active = NoDoc, !.editor = EmptyPane,
            !.locked = FALSE, !.frames = EmptyPane]

FinishClose ==
  /\ ~page.open /\ page.mounted
  /\ page' = SlidOut(page)
  /\ UNCHANGED rest

\* The timer of a closing is for its own pane: the one in the page is the last
\* closing's.  activeDocId is cleared whatever happened since.
FinishCloseAgain ==
  LET p == [page EXCEPT !.closes = @ - 1]
  IN /\ page.closes > 0
     /\ page' = IF p.open THEN p
                ELSE IF p.closes = 0 THEN SlidOut(p) ELSE [p EXCEPT !.active = NoDoc]
     /\ UNCHANGED rest

\* The chip of the minimised panel: opened again, or closed for good.
RestoreChip ==
  LET p == OpenPanel([page EXCEPT !.chip = NoDoc])
  IN /\ page.chip # NoDoc
     /\ \E untitled \in BOOLEAN : page' = SwitchToDoc(p, page.chip, untitled)
     /\ UNCHANGED rest

CloseChip ==
  /\ page.chip # NoDoc
  /\ page' = DetachDoc([page EXCEPT !.chip = NoDoc], page.chip)
  /\ UNCHANGED rest

ResolveTwice(accept) ==
  LET r == [page.review EXCEPT !.left = @ - 1, !.taken = IF accept THEN @ + 1 ELSE @]
  IN /\ page.open /\ page.review.on
     /\ page' = SaveDocument([page EXCEPT !.review = r, !.editor = Decided(r),
                                          !.exitDue = @ \/ r.left = 0])
     /\ UNCHANGED rest

\* Reviewing the agent's edit chunk by chunk; the last decision ends the
\* review 300 ms later.
ResolveChunk(accept) ==
  LET r == [page.review EXCEPT !.left = @ - 1, !.taken = IF accept THEN @ + 1 ELSE @]
  IN /\ page.open /\ page.review.on /\ page.review.left > 0
     /\ page' = SaveDocument([page EXCEPT !.review = r, !.editor = Decided(r),
                                          !.exitDue = @ \/ r.left = 0])
     /\ UNCHANGED rest

ExitFires ==
  /\ page.exitDue
  /\ page' = ExitDiffMode([page EXCEPT !.exitDue = FALSE], FALSE)
  /\ UNCHANGED rest

ResolveAll(accept) ==
  LET r == [page.review EXCEPT !.taken = IF accept THEN @ + page.review.left ELSE @, !.left = 0]
  IN /\ page.open /\ page.review.on
     /\ page' = ExitDiffMode([page EXCEPT !.review = r], FALSE)
     /\ UNCHANGED rest

Escape ==
  /\ page.open /\ page.review.on
  /\ page' = ExitDiffMode(page, TRUE)
  /\ UNCHANGED rest

-----------------------------------------------------------------------------
(* Saving.                                                                  *)

AutosaveFires ==
  /\ page.timer
  /\ page' = SaveDocument([page EXCEPT !.timer = FALSE])
  /\ UNCHANGED rest

\* PUT /api/document/{id}; requests may overtake one another.
PutArrives(put) ==
  /\ put \in page.puts /\ ~put.done /\ server[put.doc].state # "absent"
  /\ server' = [server EXCEPT ![put.doc].text = put.text]
  /\ page' = [page EXCEPT !.puts = (@ \ {put}) \cup {[put EXCEPT !.done = TRUE]}]
  /\ UNCHANGED <<home, session, event, loads, creates, fresh, owed>>

PutReplies(put) ==
  /\ put \in page.puts /\ put.done
  /\ page' = [page EXCEPT !.puts = @ \ {put},
                          !.text[put.doc] = IF put.doc \in page.docs THEN put.text ELSE @]
  /\ UNCHANGED rest

\* 404: the id of a document that is still being streamed, or no reply.
PutNotFound(put) ==
  /\ put \in page.puts /\ server[put.doc].state = "absent"
  /\ page' = [page EXCEPT !.puts = @ \ {put}, !.docs = @ \ {put.doc}, !.temp = @ \ {put.doc},
                          !.active = IF @ = put.doc THEN NoDoc ELSE @]
  /\ UNCHANGED rest

PutFails(put) ==
  /\ put \in page.puts /\ ~put.done
  /\ page' = [page EXCEPT !.puts = @ \ {put}]
  /\ UNCHANGED rest

DeleteArrives(d) ==
  /\ d \in page.deletes
  /\ page' = [page EXCEPT !.deletes = @ \ {d}]
  /\ server' = [server EXCEPT ![d].state = IF @ = "live" THEN "deleted" ELSE @]
  /\ UNCHANGED <<home, session, event, loads, creates, fresh, owed>>

-----------------------------------------------------------------------------
(* Creating documents.                                                      *)

\* For the conversation of the active tab, or else the one loaded last.
NewDocument ==
  /\ ~Pending("button")
  /\ creates' = creates \cup {[kind |-> "button", text |-> EmptyPane, wasEmpty |-> page.active = NoDoc,
                               sess |-> IF page.active \in page.docs THEN home[page.active] ELSE page.last]}
  /\ UNCHANGED <<home, session, page, server, event, loads, fresh, owed>>

Added(p, d, text) == [p EXCEPT !.docs = @ \cup {d}, !.text[d] = text]
Of(d, t) == IF t.of = NoDoc THEN [t EXCEPT !.of = d] ELSE t

\* The text typed meanwhile is carried over, if the editor was empty before.
NewDocumentCreated(c) ==
  /\ c.kind = "button"
  /\ \E d \in Unused(c.sess), untitled \in BOOLEAN :
       LET p == OpenPanel(Added(page, d, Empty(d)))
           q == SwitchToDoc(p, d, untitled)
           typed == c.wasEmpty /\ ~Blank(p.editor)
       IN /\ server' = [server EXCEPT ![d] = [text |-> Empty(d), state |-> "live"]]
          /\ page' = IF typed THEN [q EXCEPT !.editor = Of(d, p.editor), !.timer = TRUE,
                                             !.text[d] = Of(d, p.editor)]
                              ELSE q
          /\ owed' = IF typed /\ p.editor.of = NoDoc THEN [owed EXCEPT ![d] = p.editor.n] ELSE owed
  /\ creates' = creates \ {c}
  /\ UNCHANGED <<home, session, event, loads, fresh>>

\* The textarea is kept as it is.
AutoCreated(c) ==
  /\ c.kind = "typed"
  /\ \E d \in Unused(c.sess) :
       /\ server' = [server EXCEPT ![d] = [text |-> Of(d, c.text), state |-> "live"]]
       /\ page' = [Added(page, d, Of(d, c.text)) EXCEPT
                     !.active = d, !.editor = IF page.mounted THEN Of(d, @) ELSE @, !.timer = TRUE]
       /\ owed' = [owed EXCEPT ![d] = IF page.editor.of = NoDoc THEN page.editor.n ELSE c.text.n]
  /\ creates' = creates \ {c}
  /\ UNCHANGED <<home, session, event, loads, fresh>>

CreateFails(c) ==
  /\ creates' = creates \ {c}
  /\ UNCHANGED <<home, session, page, server, event, loads, fresh, owed>>

-----------------------------------------------------------------------------
(* Conversations.                                                           *)

\* selectSession: the documents follow 300 ms later, or the panel is closed.
OpenConversation(s) ==
  /\ session' = s
  /\ \/ loads' = loads \cup {[sess |-> s, restore |-> TRUE, sent |-> FALSE, open |-> FALSE]} /\ UNCHANGED page
     \/ UNCHANGED loads /\ page' = IF s \in page.shown THEN page ELSE ClosePanel(page, FALSE)
  /\ UNCHANGED <<home, server, event, creates, fresh, owed>>

\* loadSessionDocs up to its request.
Load(s, restore) ==
  /\ page' = [page EXCEPT !.docs = InConversation(page, s), !.active = NoDoc, !.last = s]
  /\ loads' = (loads \ {[sess |-> s, restore |-> TRUE, sent |-> FALSE, open |-> FALSE]})
                \cup {[sess |-> s, restore |-> restore, sent |-> TRUE, open |-> s \in page.shown]}
  /\ UNCHANGED <<home, session, server, event, creates, fresh, owed>>

LoadTimer(l) == ~l.sent /\ Load(l.sess, TRUE)

DocumentButton == ~page.open /\ Load(session, FALSE)

\* The empty editor: showEmptyState.
EmptyEditor(p) == [OpenPanel(p) EXCEPT !.active = NoDoc, !.editor = EmptyPane]

Loaded(p, s) ==
  [p EXCEPT !.docs = @ \cup Live(s),
            !.text = [d \in Doc |-> IF d \in Live(s) \ p.docs THEN server[d].text ELSE p.text[d]]]

\* The empty editor, or the tabs; a conversation that was not left with the
\* panel open only gets a chip.
LoadReply(l) ==
  LET p == Loaded(page, l.sess)
  IN /\ l.sent
     /\ loads' = loads \ {l}
     /\ \/ /\ Live(l.sess) = {}
           /\ page' = IF l.restore /\ ~l.open THEN page
                      ELSE EmptyEditor(page)
        \/ /\ ~l.restore \/ l.open
           /\ \E d \in Live(l.sess), untitled \in BOOLEAN :
                page' = SwitchToDoc(OpenPanel(p), d, untitled)
        \/ /\ l.restore /\ ~l.open
           /\ \E d \in Live(l.sess) :
                LET q == [p EXCEPT !.active = d, !.chip = d, !.shown = @ \ {l.sess}]
                IN page' = IF page.open THEN ClosePanel(SwitchToDoc(q, d, FALSE), TRUE) ELSE q
     /\ UNCHANGED <<home, session, server, event, creates, fresh, owed>>

\* No answer: the panel is opened, whatever the conversation was left with.
LoadFails(l) ==
  /\ l.sent
  /\ loads' = loads \ {l}
  /\ page' = EmptyEditor(page)
  /\ UNCHANGED <<home, session, server, event, creates, fresh, owed>>

-----------------------------------------------------------------------------
(* The agent.                                                               *)

StreamDocOpen(d) ==
  LET p == ExitDiffMode(page, TRUE)
      new == d \notin p.docs
      q == IF new THEN [Added(p, d, Empty(d)) EXCEPT !.temp = @ \cup {d}] ELSE p
  IN /\ home[d] = session
     /\ d \in Unused(session) \cup page.docs
     /\ page' = IF p.stream # NoDoc /\ p.stream \in p.docs THEN p
                ELSE [OpenPanel([q EXCEPT !.active = d, !.stream = d]) EXCEPT
                        !.editor = IF new THEN Empty(d) ELSE EmptyPane]
     /\ owed' = [owed EXCEPT ![d] = 0]
     /\ UNCHANGED <<home, session, server, event, loads, creates, fresh>>

StreamDocDelta ==
  LET d == page.stream
  IN /\ d # NoDoc
     /\ page' = [page EXCEPT !.text[d] = IF d \in page.docs THEN Mixed(d) ELSE @,
                             !.editor = IF page.active = d /\ page.mounted THEN Mixed(d) ELSE @]
     /\ owed' = [owed EXCEPT ![d] = 0]
     /\ UNCHANGED <<home, session, server, event, loads, creates, fresh>>

\* The tool has run: the server's text is new, the event is on its way.
AgentWrites(d) ==
  /\ event = NoEvent /\ fresh < MaxTexts
  /\ home[d] = session /\ server[d].state # "deleted"
  /\ fresh' = fresh + 1
  /\ event' = [text |-> [of |-> d, n |-> fresh'], left |-> MaxSends]
  /\ server' = [server EXCEPT ![d] = [text |-> event'.text, state |-> "live"]]
  /\ owed' = [owed EXCEPT ![d] = IF server[d].text.n = @ THEN 0 ELSE @]
  /\ UNCHANGED <<home, session, page, loads, creates>>

\* An unknown document takes over an open one of the same title, or an empty one.
Targets(p, d) ==
  IF d \in p.docs THEN {d} ELSE {d} \cup InConversation(p, session)

\* handleDocUpdate; one run of a tool sends up to three of these.  A closed panel
\* is opened, but the text goes to the textarea that was there before; only a
\* review, which shows old and new lines together, finds the new textarea.
DocUpdated(p, d, text, how) ==
  LET old == IF d = p.active /\ p.mounted THEN p.editor ELSE EmptyPane
      opened == [OpenPanel(Added(p, d, text)) EXCEPT !.active = d, !.temp = @ \ {d}]
      edit == d \in p.docs /\ p.mounted /\ ~Blank(old) /\ old # text /\ page.stream = NoDoc
  IN IF ~edit THEN [opened EXCEPT !.editor = IF p.open THEN text ELSE @]
     ELSE IF how = "review"
     THEN [opened EXCEPT !.locked = TRUE, !.editor = Mixed(d),
             !.review = [on |-> TRUE, old |-> old, new |-> text, left |-> Chunks, taken |-> 0]]
     ELSE IF how = "animation"
     THEN [opened EXCEPT !.frames = IF p.open THEN text ELSE @]
     ELSE [opened EXCEPT !.editor = IF p.open THEN text ELSE @]

HandleDocUpdate ==
  LET p == ExitDiffMode([page EXCEPT !.stream = NoDoc], TRUE)
  IN /\ event # NoEvent /\ home[event.text.of] = session
     /\ \E d \in Targets(p, event.text.of), how \in {"review", "animation", "plain"} :
          /\ page' = DocUpdated(p, d, [event.text EXCEPT !.of = d], how)
          /\ owed' = [owed EXCEPT ![d] = 0]
     /\ event' = IF event.left = 1 THEN NoEvent ELSE [event EXCEPT !.left = @ - 1]
     /\ UNCHANGED <<home, session, server, loads, creates, fresh>>

\* The stream of another conversation is read in the background: skipped.
SkipDocUpdate ==
  /\ event # NoEvent /\ home[event.text.of] # session
  /\ event' = NoEvent
  /\ UNCHANGED <<home, session, page, server, loads, creates, fresh, owed>>

\* _animateDocEdit: some more of the new text, and at last all of it.
Frame ==
  /\ page.frames # EmptyPane
  /\ \/ page' = [page EXCEPT !.editor = Mixed(page.frames.of)]
     \/ page' = [page EXCEPT !.editor = page.frames, !.frames = EmptyPane]
  /\ UNCHANGED rest

-----------------------------------------------------------------------------
UserStep ==
  /\ steps < MaxSteps /\ steps' = steps + 1
  /\ \/ Type \/ Clear \/ TypeNew \/ NewDocument \/ DocumentButton
     \/ RestoreChip \/ CloseChip \/ Escape
     \/ \E d \in Doc : Tab(d) \/ CloseTab(d)
     \/ \E b \in BOOLEAN : Close(b) \/ ResolveChunk(b) \/ ResolveAll(b)
     \/ \E s \in Session : OpenConversation(s)

AgentStep ==
  /\ steps < MaxSteps /\ steps' = steps + 1
  /\ \E d \in Doc : StreamDocOpen(d) \/ AgentWrites(d)

PageStep ==
  /\ UNCHANGED steps
  /\ \/ \E d \in Doc : DeleteArrives(d)
     \/ \E put \in page.puts : PutArrives(put) \/ PutReplies(put) \/ PutNotFound(put) \/ PutFails(put)
     \/ \E c \in creates : NewDocumentCreated(c) \/ AutoCreated(c) \/ CreateFails(c)
     \/ \E l \in loads : LoadTimer(l) \/ LoadReply(l) \/ LoadFails(l)
     \/ ExitFires \/ AutosaveFires \/ FinishClose \/ FinishCloseAgain \/ StreamDocDelta
     \/ HandleDocUpdate \/ SkipDocUpdate \/ Frame

Next == UserStep \/ AgentStep \/ PageStep

Spec == Init /\ [][Next]_vars

-----------------------------------------------------------------------------
(* Whose text it is.                                                        *)

\* All that is kept for document d was written for d.
Own(d) ==
  /\ d \in page.docs => page.text[d].of = d
  /\ d = page.active /\ page.mounted => page.editor.of = d
  /\ d = page.active /\ page.review.on => page.review.old.of = d /\ page.review.new.of = d
  /\ \A put \in page.puts : put.doc = d => put.text.of = d
  /\ server[d].text.of = d

Reopened == ~page.open /\ page.active # NoDoc /\ page'.open

\* Where a document first gets what was written for another one, or the empty
\* textarea of a pane that was just built.
Stray ==
  \/ Reopened \/ Frame \/ HandleDocUpdate
  \/ \E d \in Doc : StreamDocOpen(d)
  \/ \E c \in creates : AutoCreated(c) \/ NewDocumentCreated(c)
  \/ \E l \in loads : LoadReply(l) \/ LoadFails(l)

\* Switching, closing and minimising tabs, deciding or leaving a review, its
\* late timer, autosaves and their replies never mix documents up: as long as
\* everything kept for a document is its own, it stays so, whatever the other
\* documents went through.  Only the calls of Stray change activeDocId or the
\* textarea without the other one (document.js 10302, 10573, 7321, 4656, 10400).
OwnTextKept == [][\A d \in Doc : Own(d) /\ ~Own(d)' => Stray]_vars

\* What the panel holds of document d: the editor speaks for the active one.
Holds(d, n) ==
  IF page.open /\ page.active = d
  THEN page.editor.n = n
  ELSE page.text[d].n = n

Kept(d) ==
  \/ owed[d] = 0
  \/ d \in page.docs /\ Holds(d, owed[d])
  \/ server[d].text.n = owed[d]
  \/ \E put \in page.puts : put.doc = d /\ put.text.n = owed[d]

\* A save that is not of the last text arrives or is answered, or one is answered
\* that the store has replaced since.
OutOfDate(put) ==
  \/ PutArrives(put) /\ put.text.n # owed[put.doc]
  \/ PutReplies(put) /\ (put.text.n # owed[put.doc] \/ server[put.doc].text.n # put.text.n)

\* Where the user's last text can be lost; the tab that is closed loses it when
\* another one is active, the chip when the panel was closed.
Lossy ==
  \/ HandleDocUpdate \/ Frame \/ CloseChip \/ DocumentButton \/ Reopened
  \/ AutosaveFires /\ ~page.open
  \/ \E d \in Doc : StreamDocOpen(d) \/ (d # page.active /\ CloseTab(d))
  \/ \E c \in creates : AutoCreated(c)
  \/ \E l \in loads : LoadTimer(l) \/ LoadReply(l) \/ LoadFails(l)
  \/ \E put \in page.puts : PutNotFound(put) \/ PutFails(put) \/ OutOfDate(put)

\* What the user typed last into a document stays somewhere - in its tab, in
\* the editor, in a save under way or in the store - through switching tabs,
\* closing the active one, minimising, closing and sliding out, a review and
\* its timer, an autosave of the open panel and a new document: nothing but
\* Lossy drops it, although saves, replies and updates come in any order
\* (saveCurrentToMap is called before every switch, document.js 4465-4607).
\* Of the saves, one that fails or finds no document loses it, and one that is
\* out of date: an older save that overtakes, or an older one's reply, which puts
\* its text back into the tab (9446); a save of the last text never does.
\* What is typed while a review is on is typed beside a review that outlived
\* its pane (closePanel does not leave it, 6894); leaving it then puts the
\* reviewed text in place of what the editor shows (8864).
NothingLost ==
  [][\A d \in Doc : Kept(d) /\ ~Kept(d)' => Lossy \/ (page.review.on /\ d = page.active)]_vars

\* "flushes the stale diff's content into the now-active doc and silently
\* overwrites it (issue #2467)", the fault document.js 10576-10584 guards
\* against: a save that is sent out of a review is of the review's document.
ReviewStaysHome ==
  [][page.review.on => \A put \in page'.puts \ page.puts : put.text.of \in {put.doc, NoDoc}]_vars

=============================================================================
