---------------------------- MODULE DocumentsProofs ----------------------------
(***************************************************************************)
(* Proofs about the document panel: types, whose text it is, and that the  *)
(* user's words are kept.  Every function of the panel maps pages to       *)
(* pages, so there is one lemma for each function that says what it does   *)
(* to the fields the properties speak of, and one for each property that   *)
(* it preserves; the steps of Next only compose them.                      *)
(***************************************************************************)
EXTENDS Documents, TLAPS

-----------------------------------------------------------------------------
(* Types.  TypeOK is not inductive: the user's last text is taken from the *)
(* editor where the editor belongs to no document, the decided chunks are  *)
(* counted beside those that are left, and a stream or a review has the    *)
(* text of some document.                                                  *)

Texts == {t \in Text : t.of = NoDoc => t.n \in 0..MaxTexts}
Reviews == {r \in [on : BOOLEAN, old : Texts, new : Texts, left : 0..Chunks, taken : 0..Chunks] :
              /\ r.left + r.taken <= Chunks
              /\ r.on => r.new.of \in Doc}
Frames == {t \in Texts : t = EmptyPane \/ t.of \in Doc}
Puts == [doc : Doc, text : Texts, done : BOOLEAN]

Page == [docs : SUBSET Doc, text : [Doc -> Texts], active : Doc \cup {NoDoc},
         editor : Texts, locked : BOOLEAN, open : BOOLEAN, mounted : BOOLEAN,
         review : Reviews, exitDue : BOOLEAN, frames : Frames, stream : Doc \cup {NoDoc},
         temp : SUBSET Doc, chip : Doc \cup {NoDoc}, timer : BOOLEAN, closes : Nat, last : Session,
         shown : SUBSET Session, puts : SUBSET Puts, deletes : SUBSET Doc]

Store == [Doc -> [text : Texts, state : {"absent", "live", "deleted"}]]
Events == {e \in [text : Texts, left : 0..MaxSends] :
             e # NoEvent => e.text.of \in Doc /\ e.left # 0}
Loads == [sess : Session, restore : BOOLEAN, sent : BOOLEAN, open : BOOLEAN]
Creates == {c \in [kind : {"button", "typed"}, sess : Session, text : Texts, wasEmpty : BOOLEAN] :
              c.text.of = NoDoc}

Typed ==
  /\ home \in [Doc -> Session] /\ session \in Session
  /\ page \in Page /\ server \in Store /\ event \in Events
  /\ loads \subseteq Loads /\ creates \subseteq Creates
  /\ fresh \in 0..MaxTexts /\ steps \in 0..MaxSteps /\ owed \in [Doc -> 0..MaxTexts]

LEMMA Bounds == MaxTexts \in Nat /\ Mixture \in Nat /\ Mixture = MaxTexts + 1 /\ MaxSends \in Nat \ {0}
BY BoundsAssumption DEF Mixture

LEMMA TextFields ==
  ASSUME NEW t \in Texts
  PROVE  t.of \in Doc \cup {NoDoc} /\ t.n \in Nat /\ t = [of |-> t.of, n |-> t.n]
BY Bounds DEF Texts, Text

\* Texts of a document, and those that are nobody's yet.
LEMMA TextMade ==
  ASSUME NEW d \in Doc, NEW n \in 0..Mixture
  PROVE  /\ [of |-> d, n |-> n] \in Texts
         /\ n \in 0..MaxTexts => [of |-> NoDoc, n |-> n] \in Texts
BY DocAssumption, Bounds DEF Texts, Text

LEMMA TextsMade ==
  /\ EmptyPane \in Texts /\ EmptyPane \in Frames /\ NoReview \in Reviews /\ NoReview.on = FALSE
  /\ \A d \in Doc : Empty(d) \in Texts /\ Mixed(d) \in Texts /\ Mixed(d) \in Frames
  /\ EmptyPane.of = NoDoc /\ EmptyPane.n = 0
  /\ \A d \in Doc : Empty(d).of = d /\ Mixed(d).of = d
<1>1. EmptyPane \in Texts /\ EmptyPane.of = NoDoc /\ EmptyPane.n = 0
  BY Bounds DEF EmptyPane, Empty, Texts, Text
<1>2. EmptyPane \in Frames
  BY <1>1 DEF Frames
<1>3. \A d \in Doc : Empty(d) \in Texts /\ Mixed(d) \in Texts
  <2>1. 0 \in 0..Mixture /\ Mixture \in 0..Mixture
    BY Bounds
  <2> QED BY <2>1, TextMade DEF Empty, Mixed
<1>4. \A d \in Doc : Empty(d).of = d /\ Mixed(d).of = d
  BY DEF Empty, Mixed
<1>5. NoReview \in Reviews /\ NoReview.on = FALSE
  BY <1>1 DEF NoReview, Reviews, Chunks
<1> QED BY <1>1, <1>2, <1>3, <1>4, <1>5 DEF Frames

LEMMA TypedTypes == Typed => TypeOK
<1>1. Texts \subseteq Text /\ Frames \subseteq Text /\ Events \subseteq [text : Text, left : 0..MaxSends]
  BY DEF Texts, Frames, Events
<1>2. Reviews \subseteq [on : BOOLEAN, old : Text, new : Text, left : 0..Chunks, taken : 0..Chunks]
  BY <1>1 DEF Reviews
<1>3. Puts \subseteq [doc : Doc, text : Text, done : BOOLEAN]
  BY <1>1 DEF Puts
<1>4. Creates \subseteq [kind : {"button", "typed"}, sess : Session, text : Text, wasEmpty : BOOLEAN]
  BY <1>1 DEF Creates
<1>5. Store \subseteq [Doc -> [text : Text, state : {"absent", "live", "deleted"}]]
  BY <1>1 DEF Store
<1>6. [Doc -> Texts] \subseteq [Doc -> Text]
  BY <1>1
<1>7. Page \subseteq [docs : SUBSET Doc, text : [Doc -> Text], active : Doc \cup {NoDoc},
               editor : Text, locked : BOOLEAN, open : BOOLEAN, mounted : BOOLEAN,
               review : [on : BOOLEAN, old : Text, new : Text, left : 0..Chunks, taken : 0..Chunks],
               exitDue : BOOLEAN, frames : Text, stream : Doc \cup {NoDoc}, temp : SUBSET Doc,
               chip : Doc \cup {NoDoc}, timer : BOOLEAN, closes : Nat, last : Session, shown : SUBSET Session,
               puts : SUBSET [doc : Doc, text : Text, done : BOOLEAN], deletes : SUBSET Doc]
  BY <1>1, <1>2, <1>3, <1>6 DEF Page
<1> QED BY <1>1, <1>4, <1>5, <1>7 DEF Typed, TypeOK, Loads

-----------------------------------------------------------------------------
(* What each function of the panel does to the page.                        *)

\* All the properties look at, but what is written in tabs and saves.
SameView(p, q) ==
  /\ q.docs = p.docs /\ q.active = p.active /\ q.editor = p.editor /\ q.review = p.review
  /\ q.open = p.open /\ q.mounted = p.mounted /\ q.chip = p.chip

\* The tabs keep their texts, but the active one may get the editor's.
Written(p, q, editor) ==
  \A d \in Doc : \/ q.text[d] = p.text[d]
                 \/ p.active = d /\ p.mounted /\ d \in p.docs /\ q.text[d] = editor

\* No save is dropped, and each new one is the editor's, for the active tab.
Sent(p, q, editor) ==
  /\ p.puts \subseteq q.puts
  /\ \A put \in q.puts \ p.puts : put.doc = p.active /\ p.mounted /\ put.text = editor

LEMMA PageFields ==
  ASSUME NEW p \in Page
  PROVE  /\ p.docs \subseteq Doc /\ p.text \in [Doc -> Texts] /\ p.active \in Doc \cup {NoDoc}
         /\ p.editor \in Texts /\ p.open \in BOOLEAN /\ p.mounted \in BOOLEAN
         /\ p.review \in Reviews /\ p.chip \in Doc \cup {NoDoc} /\ p.puts \subseteq Puts
         /\ p.frames \in Frames /\ p.stream \in Doc \cup {NoDoc} /\ p.last \in Session
         /\ NoDoc \notin Doc
BY DocAssumption DEF Page

LEMMA ReviewFields ==
  ASSUME NEW r \in Reviews
  PROVE  /\ r.on \in BOOLEAN /\ r.old \in Texts /\ r.new \in Texts
         /\ r.left \in 0..Chunks /\ r.taken \in 0..Chunks /\ r.left + r.taken <= Chunks
         /\ r.on => r.new.of \in Doc
BY DEF Reviews

LEMMA SaveCurrentDoes ==
  ASSUME NEW p \in Page, NEW q, q = SaveCurrentToMap(p)
  PROVE  /\ q \in Page /\ SameView(p, q) /\ q.puts = p.puts
         /\ Written(p, q, p.editor)
         /\ p.mounted /\ p.active \in p.docs => q.text[p.active] = p.editor
         /\ q.shown = p.shown /\ q.last = p.last /\ q.stream = p.stream /\ q.frames = p.frames
<1>1. CASE p.mounted /\ p.active \in p.docs
  <2>1. q = [p EXCEPT !.text[p.active] = p.editor]
    BY <1>1 DEF SaveCurrentToMap
  <2>2. q \in Page
    BY <2>1 DEF Page
  <2>3. \A d \in Doc : q.text[d] = IF d = p.active THEN p.editor ELSE p.text[d]
    BY <2>1, PageFields DEF Page
  <2>4. SameView(p, q) /\ q.puts = p.puts
    BY <2>1 DEF Page, SameView
  <2>5. q.shown = p.shown /\ q.last = p.last /\ q.stream = p.stream /\ q.frames = p.frames
    BY <2>1 DEF Page
  <2> QED BY <1>1, <2>2, <2>3, <2>4, <2>5, PageFields DEF Written
<1>2. CASE ~(p.mounted /\ p.active \in p.docs)
  <2>1. q = p
    BY <1>2 DEF SaveCurrentToMap
  <2> QED BY <1>2, <2>1 DEF SameView, Written
<1> QED BY <1>1, <1>2

LEMMA SaveDoes ==
  ASSUME NEW p \in Page, NEW q, q = SaveDocument(p)
  PROVE  /\ q \in Page /\ SameView(p, q)
         /\ Written(p, q, p.editor) /\ Sent(p, q, p.editor)
         /\ p.mounted /\ p.active \in p.docs => q.text[p.active] = p.editor
         /\ p.mounted /\ p.active # NoDoc =>
              \E put \in q.puts : put.doc = p.active /\ put.text = p.editor
         /\ q.shown = p.shown /\ q.last = p.last /\ q.stream = p.stream /\ q.frames = p.frames
<1>1. CASE p.active = NoDoc \/ ~p.mounted
  <2>1. q = p
    BY <1>1 DEF SaveDocument
  <2>2. ~(p.mounted /\ p.active \in p.docs)
    BY <1>1, PageFields
  <2> QED BY <1>1, <2>1, <2>2 DEF SameView, Written, Sent
<1>2. CASE ~(p.active = NoDoc \/ ~p.mounted)
  <2> DEFINE s == SaveCurrentToMap(p)
             put == [doc |-> p.active, text |-> p.editor, done |-> FALSE]
  <2>1. /\ s \in Page /\ SameView(p, s) /\ s.puts = p.puts /\ Written(p, s, p.editor)
        /\ p.active \in p.docs => s.text[p.active] = p.editor
        /\ s.shown = p.shown /\ s.last = p.last /\ s.stream = p.stream /\ s.frames = p.frames
    BY <1>2, SaveCurrentDoes
  <2>2. q = [s EXCEPT !.puts = @ \cup {put}]
    BY <1>2, <2>1 DEF SaveDocument, SameView
  <2>3. put \in Puts /\ put.doc = p.active /\ put.text = p.editor
    BY <1>2, PageFields DEF Puts
  <2> HIDE DEF s, put
  <2>4. q \in Page /\ q.puts = s.puts \cup {put}
    <3>1. s.puts \cup {put} \subseteq Puts
      BY <2>1, <2>3 DEF Page
    <3> HIDE DEF Puts
    <3> QED BY <2>1, <2>2, <3>1 DEF Page
  <2>5. SameView(s, q) /\ q.text = s.text
    BY <2>1, <2>2 DEF Page, SameView
  <2>6. q.shown = p.shown /\ q.last = p.last /\ q.stream = p.stream /\ q.frames = p.frames
    BY <2>1, <2>2 DEF Page
  <2>7. SameView(p, q) /\ Written(p, q, p.editor)
    BY <2>1, <2>5 DEF SameView, Written
  <2>8. Sent(p, q, p.editor)
    BY <1>2, <2>1, <2>3, <2>4 DEF Sent
  <2>9. \E w \in q.puts : w.doc = p.active /\ w.text = p.editor
    BY <2>3, <2>4
  <2>10. p.active \in p.docs => q.text[p.active] = p.editor
    BY <2>1, <2>5
  <2> QED BY <2>4, <2>6, <2>7, <2>8, <2>9, <2>10
<1> QED BY <1>1, <1>2

\* What the editor holds after a review was left, if one was on.
Edited(p, t) ==
  t = p.editor \/ (p.review.on /\ p.mounted /\ t \in {p.review.old, Decided(p.review)})

SameFrame(p, q) ==
  /\ q.open = p.open /\ q.mounted = p.mounted /\ q.chip = p.chip
  /\ q.shown = p.shown /\ q.last = p.last /\ q.stream = p.stream /\ q.frames = p.frames

LEMMA DecidedTyped ==
  ASSUME NEW r \in Reviews, r.on
  PROVE  Decided(r) \in Texts /\ Decided(r) \in {r.old, r.new, Mixed(r.new.of)}
BY ReviewFields, TextsMade DEF Decided

LEMMA ExitDoes ==
  ASSUME NEW p \in Page, NEW discard \in BOOLEAN, NEW q, q = ExitDiffMode(p, discard)
  PROVE  /\ q \in Page /\ q.docs = p.docs /\ q.active = p.active /\ SameFrame(p, q)
         /\ ~p.review.on => q = p
         /\ ~q.review.on
         /\ Edited(p, q.editor) /\ Written(p, q, q.editor) /\ Sent(p, q, q.editor)
<1>1. CASE ~p.review.on
  <2>1. q = p
    BY <1>1 DEF ExitDiffMode
  <2> QED BY <1>1, <2>1 DEF SameFrame, Edited, Written, Sent
<1>2. CASE p.review.on
  <2> DEFINE t == IF discard THEN p.review.old ELSE Decided(p.review)
             e == IF ~p.mounted THEN p.editor ELSE t
             s == [p EXCEPT !.review = NoReview, !.locked = FALSE, !.editor = e]
  <2>1. t \in Texts /\ t \in {p.review.old, Decided(p.review)} /\ e \in Texts
    BY <1>2, PageFields, ReviewFields, DecidedTyped
  <2>2. q = SaveDocument(s)
    BY <1>2 DEF ExitDiffMode
  <2>3. e = IF ~p.mounted THEN p.editor ELSE t
    OBVIOUS
  <2> HIDE DEF e, t
  <2>4. s \in Page
    BY <2>1, TextsMade DEF Page
  <2>5. /\ s.docs = p.docs /\ s.active = p.active /\ s.text = p.text /\ s.puts = p.puts
        /\ s.editor = e /\ s.review = NoReview /\ SameFrame(p, s)
    BY DEF Page, SameFrame
  <2> HIDE DEF s
  <2>6. /\ q \in Page /\ SameView(s, q) /\ Written(s, q, s.editor) /\ Sent(s, q, s.editor)
        /\ q.shown = s.shown /\ q.last = s.last /\ q.stream = s.stream /\ q.frames = s.frames
    BY <2>2, <2>4, SaveDoes
  <2>7. q.docs = p.docs /\ q.active = p.active /\ q.editor = e /\ q.review = NoReview /\ SameFrame(p, q)
    BY <2>5, <2>6 DEF SameView, SameFrame
  <2>8. Written(p, q, q.editor) /\ Sent(p, q, q.editor)
    BY <2>5, <2>6, <2>7 DEF Written, Sent, SameFrame
  <2>9. Edited(p, q.editor)
    BY <1>2, <2>1, <2>3, <2>7 DEF Edited
  <2> QED BY <1>2, <2>6, <2>7, <2>8, <2>9, TextsMade
<1> QED BY <1>1, <1>2

LEMMA DropDoes ==
  ASSUME NEW p \in Page, NEW d \in Doc, NEW untitled \in BOOLEAN, NEW q,
         q = DropEmpty(p, d, untitled)
  PROVE  /\ q \in Page /\ q.active = p.active /\ q.editor = p.editor /\ q.text = p.text
         /\ q.puts = p.puts /\ q.review = p.review /\ SameFrame(p, q)
         /\ q.docs \subseteq p.docs /\ (d \in p.docs => d \in q.docs)
         /\ \A x \in p.docs \ q.docs : x = p.active /\ Blank(p.text[x])
<1>1. CASE q = p
  BY <1>1 DEF SameFrame
<1>2. CASE q # p
  <2>1. /\ q = [p EXCEPT !.docs = @ \ {p.active}, !.deletes = @ \cup {p.active}]
        /\ p.active \in p.docs \ {d} /\ Blank(p.text[p.active])
    BY <1>2 DEF DropEmpty
  <2>2. p.active \in Doc
    BY <2>1, PageFields
  <2>3. q \in Page
    <3> DEFINE left == p.docs \ {p.active}
               gone == p.deletes \cup {p.active}
    <3>1. left \in SUBSET Doc /\ gone \in SUBSET Doc
      BY <2>2 DEF Page
    <3>2. q = [p EXCEPT !.docs = left, !.deletes = gone]
      BY <2>1
    <3> HIDE DEF left, gone
    <3> QED BY <3>1, <3>2 DEF Page
  <2>4. /\ q.active = p.active /\ q.editor = p.editor /\ q.text = p.text
        /\ q.puts = p.puts /\ q.review = p.review /\ SameFrame(p, q)
    BY <2>1 DEF Page, SameFrame
  <2>5. q.docs = p.docs \ {p.active}
    BY <2>1 DEF Page
  <2> QED BY <2>1, <2>3, <2>4, <2>5
<1> QED BY <1>1, <1>2

\* Switching saves what the editor holds after the review that was on.
Switched(p, q, d, t) ==
  /\ q.active = d /\ q.docs \subseteq p.docs /\ d \in q.docs /\ SameFrame(p, q) /\ ~q.review.on
  /\ \A x \in p.docs \ q.docs : x = p.active /\ Blank(q.text[x])
  /\ Edited(p, t) /\ (~p.review.on => t = p.editor /\ q.puts = p.puts)
  /\ Written(p, q, t) /\ Sent(p, q, t)
  /\ p.mounted /\ p.active \in p.docs => q.text[p.active] = t
  /\ q.editor = IF p.mounted THEN q.text[d] ELSE p.editor

LEMMA SwitchDoes ==
  ASSUME NEW p \in Page, NEW d \in Doc, NEW untitled \in BOOLEAN, NEW q,
         q = SwitchToDoc(p, d, untitled)
  PROVE  /\ q \in Page
         /\ d \notin p.docs => q = p
         /\ d \in p.docs => \E t \in Texts : Switched(p, q, d, t)
<1>1. CASE d \notin p.docs
  BY <1>1 DEF SwitchToDoc
<1>2. CASE d \in p.docs
  <2> DEFINE e == ExitDiffMode(p, TRUE)
             s == SaveCurrentToMap(e)
             r == DropEmpty(s, d, untitled)
             t == e.editor
  <2>1. /\ e \in Page /\ e.docs = p.docs /\ e.active = p.active /\ SameFrame(p, e)
        /\ ~p.review.on => e = p
        /\ ~e.review.on
        /\ Edited(p, t) /\ Written(p, e, t) /\ Sent(p, e, t)
    BY ExitDoes
  <2>2. t \in Texts
    BY <2>1, PageFields
  <2> HIDE DEF e
  <2>3. /\ s \in Page /\ SameView(e, s) /\ s.puts = e.puts /\ Written(e, s, t)
        /\ e.mounted /\ e.active \in e.docs => s.text[e.active] = t
        /\ s.shown = e.shown /\ s.last = e.last /\ s.stream = e.stream /\ s.frames = e.frames
    BY <2>1, SaveCurrentDoes
  <2> HIDE DEF s
  <2>4. /\ r \in Page /\ r.active = s.active /\ r.editor = s.editor /\ r.text = s.text
        /\ r.puts = s.puts /\ r.review = s.review /\ SameFrame(s, r)
        /\ r.docs \subseteq s.docs /\ (d \in s.docs => d \in r.docs)
        /\ \A x \in s.docs \ r.docs : x = s.active /\ Blank(s.text[x])
    BY <2>3, DropDoes
  <2>5. q = [r EXCEPT !.active = d, !.editor = IF r.mounted THEN r.text[d] ELSE @]
    BY <1>2 DEF SwitchToDoc, e, s
  <2> HIDE DEF r
  <2>6. q \in Page
    <3> DEFINE shown == IF r.mounted THEN r.text[d] ELSE r.editor
    <3>1. shown \in Texts
      BY <2>4, PageFields
    <3>2. q = [r EXCEPT !.active = d, !.editor = shown]
      BY <2>5
    <3> HIDE DEF shown
    <3> QED BY <2>4, <3>1, <3>2 DEF Page
  <2>7. /\ q.active = d /\ q.docs = r.docs /\ q.text = r.text /\ q.puts = r.puts
        /\ q.review = r.review /\ SameFrame(r, q)
        /\ q.editor = IF r.mounted THEN r.text[d] ELSE r.editor
    BY <2>4, <2>5 DEF Page, SameFrame
  <2>8. s.docs = p.docs /\ s.active = p.active /\ s.editor = t /\ ~s.review.on /\ SameFrame(p, s)
    BY <2>1, <2>3 DEF SameView, SameFrame
  <2>9. SameFrame(p, q) /\ r.mounted = p.mounted /\ e.mounted = p.mounted
    BY <2>1, <2>4, <2>7, <2>8 DEF SameFrame
  <2>10. Written(p, q, t) /\ (p.mounted /\ p.active \in p.docs => q.text[p.active] = t)
    BY <2>1, <2>3, <2>4, <2>7, <2>9 DEF Written
  <2>11. Sent(p, q, t) /\ (~p.review.on => t = p.editor /\ q.puts = p.puts)
    BY <2>1, <2>3, <2>4, <2>7 DEF Sent
  <2>12. \A x \in p.docs \ q.docs : x = p.active /\ Blank(q.text[x])
    BY <2>4, <2>7, <2>8
  <2>13. ~p.mounted => t = p.editor
    BY <2>1 DEF Edited
  <2>14. q.editor = IF p.mounted THEN q.text[d] ELSE p.editor
    BY <2>4, <2>7, <2>8, <2>9, <2>13
  <2>15. q.docs \subseteq p.docs /\ d \in q.docs /\ ~q.review.on
    BY <1>2, <2>4, <2>7, <2>8
  <2>16. Switched(p, q, d, t)
    BY <2>1, <2>7, <2>9, <2>10, <2>11, <2>12, <2>14, <2>15 DEF Switched
  <2> QED BY <1>2, <2>2, <2>6, <2>16
<1> QED BY <1>1, <1>2

LEMMA OpenDoes ==
  ASSUME NEW p \in Page, NEW q, q = OpenPanel(p)
  PROVE  /\ q \in Page /\ q.open
         /\ p.open => q = p
         /\ q.docs = p.docs /\ q.text = p.text /\ q.puts = p.puts /\ q.review = p.review
         /\ q.last = p.last /\ q.stream = p.stream
         /\ q.active \in {p.active, NoDoc} /\ (p.active \in p.docs => q.active = p.active)
         /\ ~p.open => /\ q.mounted /\ q.chip = NoDoc /\ q.editor = EmptyPane
                       /\ q.active # NoDoc => q.docs # {}
<1>1. CASE p.open
  <2>1. q = p
    BY <1>1 DEF OpenPanel
  <2> QED BY <1>1, <2>1
<1>2. CASE ~p.open
  <2> DEFINE seen == p.shown \cup {p.last}
             act == IF p.docs = {} THEN NoDoc ELSE p.active
  <2>1. seen \in SUBSET Session /\ act \in Doc \cup {NoDoc}
    BY DEF Page
  <2>2. q = [p EXCEPT !.open = TRUE, !.mounted = TRUE, !.editor = EmptyPane, !.locked = FALSE,
                 !.frames = EmptyPane, !.chip = NoDoc, !.shown = seen, !.active = act]
    BY <1>2 DEF OpenPanel
  <2>3. act = IF p.docs = {} THEN NoDoc ELSE p.active
    OBVIOUS
  <2> HIDE DEF seen, act
  <2> DEFINE r == [p EXCEPT !.open = TRUE, !.mounted = TRUE, !.locked = FALSE]
             s == [r EXCEPT !.editor = EmptyPane, !.frames = EmptyPane]
  <2>4. q \in Page
    <3>1. r \in Page
      BY DEF Page
    <3>2. q = [s EXCEPT !.chip = NoDoc, !.shown = seen, !.active = act]
      BY <2>2 DEF Page
    <3> HIDE DEF r
    <3>3. s \in Page
      BY <3>1, TextsMade DEF Page
    <3> HIDE DEF s
    <3> QED BY <2>1, <3>2, <3>3 DEF Page
  <2>5. /\ q.open /\ q.docs = p.docs /\ q.text = p.text /\ q.puts = p.puts /\ q.review = p.review
        /\ q.last = p.last /\ q.stream = p.stream
        /\ q.mounted /\ q.chip = NoDoc /\ q.editor = EmptyPane /\ q.active = act
    BY <2>2 DEF Page
  <2> QED BY <1>2, <2>3, <2>4, <2>5
<1> QED BY <1>1, <1>2

LEMMA CloseDoes ==
  ASSUME NEW p \in Page, NEW down \in BOOLEAN, NEW q, q = ClosePanel(p, down)
  PROVE  /\ q \in Page /\ ~q.open /\ q.mounted = p.mounted /\ q.docs = p.docs
         /\ q.active = p.active /\ q.editor = p.editor /\ q.review = p.review /\ q.puts = p.puts
         /\ q.stream = p.stream /\ q.last = p.last
         /\ Written(p, q, p.editor)
         /\ q.chip = NoDoc \/ (p.open /\ q.chip = p.active) \/ (~p.open /\ q.chip = p.chip)
         /\ ~p.open => q.text = p.text
         /\ p.open /\ p.mounted /\ p.active \in p.docs => q.text[p.active] = p.editor
<1> DEFINE seen == p.shown \ {p.last}
<1>1. seen \in SUBSET Session
  BY DEF Page
<1>2. CASE ~p.open /\ q = p
  BY <1>2 DEF Written
<1>3. CASE ~p.open /\ q = [p EXCEPT !.chip = NoDoc, !.shown = seen]
  <2> HIDE DEF seen
  <2>1. q \in Page
    BY <1>1, <1>3 DEF Page
  <2>2. /\ q.open = p.open /\ q.mounted = p.mounted /\ q.docs = p.docs
        /\ q.active = p.active /\ q.editor = p.editor /\ q.review = p.review /\ q.puts = p.puts
        /\ q.stream = p.stream /\ q.last = p.last /\ q.text = p.text /\ q.chip = NoDoc
    BY <1>3 DEF Page
  <2> QED BY <1>3, <2>1, <2>2 DEF Written
<1>4. CASE p.open
  <2> DEFINE s == SaveCurrentToMap(p)
             chip == IF down THEN s.active ELSE NoDoc
             due == s.closes + 1
  <2>1. /\ s \in Page /\ SameView(p, s) /\ s.puts = p.puts
        /\ Written(p, s, p.editor)
        /\ p.mounted /\ p.active \in p.docs => s.text[p.active] = p.editor
        /\ s.shown = p.shown /\ s.last = p.last /\ s.stream = p.stream
    BY SaveCurrentDoes
  <2>2. q = [s EXCEPT !.open = FALSE, !.chip = chip, !.shown = seen, !.closes = due]
    BY <1>4, <2>1 DEF ClosePanel
  <2> HIDE DEF s, seen
  <2>6. due \in Nat
    BY <2>1 DEF Page
  <2> HIDE DEF due
  <2>3. chip \in Doc \cup {NoDoc} /\ chip \in {NoDoc, p.active}
    BY <2>1, PageFields DEF SameView
  <2> HIDE DEF chip
  <2>4. q \in Page
    BY <1>1, <2>1, <2>2, <2>3, <2>6 DEF Page
  <2>5. /\ ~q.open /\ q.mounted = s.mounted /\ q.docs = s.docs
        /\ q.active = s.active /\ q.editor = s.editor /\ q.review = s.review /\ q.puts = s.puts
        /\ q.stream = s.stream /\ q.last = s.last /\ q.text = s.text /\ q.chip = chip
    BY <2>1, <2>2 DEF Page
  <2> QED BY <1>4, <2>1, <2>3, <2>4, <2>5 DEF SameView, Written
<1> QED BY <1>2, <1>3, <1>4 DEF ClosePanel

LEMMA DetachDoes ==
  ASSUME NEW p \in Page, NEW d \in Doc, NEW q, q = DetachDoc(p, d)
  PROVE  /\ q \in Page /\ q.docs = p.docs \ {d} /\ q.active = p.active /\ q.editor = p.editor
         /\ q.review = p.review /\ SameFrame(p, q)
         /\ Written(p, q, p.editor) /\ Sent(p, q, p.editor)
         /\ p.mounted /\ d = p.active /\ d \in p.docs /\ ~Blank(p.text[d]) =>
              \E put \in q.puts : put.doc = d /\ put.text = p.editor
<1> DEFINE s == IF d \in p.docs /\ ~Blank(p.text[d]) THEN SaveDocument(p)
                ELSE [p EXCEPT !.deletes = @ \cup {d}]
           left == s.docs \ {d}
<1>1. q = [s EXCEPT !.docs = left]
  BY DEF DetachDoc
<1>2. /\ s \in Page /\ SameView(p, s) /\ SameFrame(p, s)
      /\ Written(p, s, p.editor) /\ Sent(p, s, p.editor)
      /\ p.mounted /\ d = p.active /\ d \in p.docs /\ ~Blank(p.text[d]) =>
           \E put \in s.puts : put.doc = d /\ put.text = p.editor
  <2>1. CASE d \in p.docs /\ ~Blank(p.text[d])
    <3>1. s = SaveDocument(p)
      BY <2>1
    <3>2. /\ s \in Page /\ SameView(p, s)
          /\ Written(p, s, p.editor) /\ Sent(p, s, p.editor)
          /\ p.mounted /\ p.active # NoDoc =>
               \E put \in s.puts : put.doc = p.active /\ put.text = p.editor
          /\ s.shown = p.shown /\ s.last = p.last /\ s.stream = p.stream /\ s.frames = p.frames
      BY <3>1, SaveDoes
    <3>3. SameFrame(p, s)
      BY <3>2 DEF SameFrame, SameView
    <3>4. d # NoDoc
      BY PageFields
    <3> HIDE DEF s
    <3> QED BY <3>2, <3>3, <3>4
  <2>2. CASE ~(d \in p.docs /\ ~Blank(p.text[d]))
    <3> DEFINE gone == p.deletes \cup {d}
    <3>1. gone \in SUBSET Doc
      BY DEF Page
    <3>2. s = [p EXCEPT !.deletes = gone]
      BY <2>2
    <3> HIDE DEF gone, s
    <3>3. s \in Page
      BY <3>1, <3>2 DEF Page
    <3>4. SameView(p, s) /\ SameFrame(p, s) /\ s.text = p.text /\ s.puts = p.puts
      BY <3>2 DEF Page, SameView, SameFrame
    <3> QED BY <2>2, <3>3, <3>4 DEF Written, Sent
  <2> QED BY <2>1, <2>2
<1>3. left \in SUBSET Doc /\ left = p.docs \ {d}
  BY <1>2, PageFields DEF SameView
<1> HIDE DEF s, left
<1>4. q \in Page
  BY <1>1, <1>2, <1>3 DEF Page
<1>5. /\ q.docs = left /\ q.active = s.active /\ q.editor = s.editor /\ q.review = s.review
      /\ q.text = s.text /\ q.puts = s.puts /\ SameFrame(s, q)
  BY <1>1, <1>2 DEF Page, SameFrame
<1>6. q.active = p.active /\ q.editor = p.editor /\ q.review = p.review /\ SameFrame(p, q)
  BY <1>2, <1>5 DEF SameView, SameFrame
<1>7. Written(p, q, p.editor) /\ Sent(p, q, p.editor)
  BY <1>2, <1>5 DEF Written, Sent
<1> QED BY <1>2, <1>3, <1>4, <1>5, <1>6, <1>7

-----------------------------------------------------------------------------
(* What the functions preserve, page by page.                               *)

\* An open panel is in the page and has no chip.  The active document is one
\* of the tabs, unless its closed panel's chip was closed.
Panel(p) ==
  /\ p.open => p.mounted /\ p.chip = NoDoc
  /\ p.active \in p.docs \cup {NoDoc} \/ (~p.open /\ p.chip = NoDoc)

\* The page's part of Own.
OwnIn(p, d) ==
  /\ d \in p.docs => p.text[d].of = d
  /\ d = p.active /\ p.mounted => p.editor.of = d
  /\ d = p.active /\ p.review.on => p.review.old.of = d /\ p.review.new.of = d
  /\ \A put \in p.puts : put.doc = d => put.text.of = d

OwnKept(p, q) == \A d \in Doc : OwnIn(p, d) => OwnIn(q, d)

\* The page's part of Kept.
HoldsIn(p, d, n) ==
  \/ /\ d \in p.docs
     /\ IF p.open /\ p.active = d THEN p.editor.n = n ELSE p.text[d].n = n
  \/ \E put \in p.puts : put.doc = d /\ put.text.n = n

WordsKept(p, q) ==
  \A d \in Doc, n \in Nat \ {0} :
    HoldsIn(p, d, n) => HoldsIn(q, d, n) \/ (p.review.on /\ d = p.active)

\* Leaving a review leaves a text of the reviewed document.
LEMMA EditedOwn ==
  ASSUME NEW p \in Page, NEW t, Edited(p, t), OwnIn(p, p.active), p.mounted, p.active \in Doc
  PROVE  t.of = p.active
<1>1. CASE t = p.editor
  BY <1>1 DEF OwnIn
<1>2. CASE p.review.on /\ t \in {p.review.old, Decided(p.review)}
  <2>1. p.review.old.of = p.active /\ p.review.new.of = p.active
    BY <1>2 DEF OwnIn
  <2>2. t \in {p.review.old, p.review.new, Mixed(p.review.new.of)}
    BY <1>2, PageFields, DecidedTyped
  <2> QED BY <2>1, <2>2, TextsMade
<1> QED BY <1>1, <1>2 DEF Edited

\* Any function that writes an own text of the active document only.
LEMMA WritesOwn ==
  ASSUME NEW p \in Page, NEW q \in Page, NEW t \in Texts, NEW d \in Doc, OwnIn(p, d),
         Written(p, q, t), Sent(p, q, t), d = p.active /\ p.mounted => t.of = d,
         q.docs \subseteq p.docs
  PROVE  /\ d \in q.docs => q.text[d].of = d
         /\ \A put \in q.puts : put.doc = d => put.text.of = d
<1>1. ASSUME d \in q.docs
      PROVE  q.text[d].of = d
  BY <1>1 DEF Written, OwnIn
<1>2. ASSUME NEW put \in q.puts, put.doc = d
      PROVE  put.text.of = d
  BY <1>2 DEF Sent, OwnIn
<1> QED BY <1>1, <1>2

LEMMA SaveOwn ==
  ASSUME NEW p \in Page, NEW q \in Page, SameView(p, q), Written(p, q, p.editor), Sent(p, q, p.editor)
  PROVE  OwnKept(p, q) /\ (Panel(p) => Panel(q))
<1>1. ASSUME NEW d \in Doc, OwnIn(p, d)
      PROVE  OwnIn(q, d)
  <2>1. d = p.active /\ p.mounted => p.editor.of = d
    BY <1>1 DEF OwnIn
  <2>2. /\ d \in q.docs => q.text[d].of = d
        /\ \A put \in q.puts : put.doc = d => put.text.of = d
    BY <1>1, <2>1, PageFields, WritesOwn DEF SameView
  <2> QED BY <1>1, <2>2 DEF OwnIn, SameView
<1>2. Panel(p) => Panel(q)
  BY DEF Panel, SameView
<1> QED BY <1>1, <1>2 DEF OwnKept

LEMMA ExitOwn ==
  ASSUME NEW p \in Page, NEW discard \in BOOLEAN, NEW q, q = ExitDiffMode(p, discard)
  PROVE  /\ q \in Page /\ OwnKept(p, q) /\ (Panel(p) => Panel(q)) /\ WordsKept(p, q)
<1>1. /\ q \in Page /\ q.docs = p.docs /\ q.active = p.active /\ SameFrame(p, q)
      /\ ~p.review.on => q = p
      /\ ~q.review.on
      /\ Edited(p, q.editor) /\ Written(p, q, q.editor) /\ Sent(p, q, q.editor)
  BY ExitDoes
<1>2. ASSUME NEW d \in Doc, OwnIn(p, d)
      PROVE  OwnIn(q, d)
  <2>1. d = p.active /\ p.mounted => q.editor.of = d
    BY <1>1, <1>2, EditedOwn
  <2>2. /\ d \in q.docs => q.text[d].of = d
        /\ \A put \in q.puts : put.doc = d => put.text.of = d
    <3>1. /\ q \in Page /\ q.editor \in Texts /\ q.docs \subseteq p.docs
          /\ Written(p, q, q.editor) /\ Sent(p, q, q.editor)
      BY <1>1, PageFields
    <3> QED BY <1>2, <2>1, <3>1, WritesOwn
  <2> QED BY <1>1, <2>1, <2>2 DEF OwnIn, SameFrame
<1>3. Panel(p) => Panel(q)
  BY <1>1 DEF Panel, SameFrame
<1>4. ASSUME NEW d \in Doc, NEW n \in Nat \ {0}, HoldsIn(p, d, n), ~(p.review.on /\ d = p.active)
      PROVE  HoldsIn(q, d, n)
  <2>1. CASE ~p.review.on
    BY <1>1, <1>4, <2>1
  <2>2. CASE d # p.active
    BY <1>1, <1>4, <2>2 DEF HoldsIn, Written, Sent
  <2> QED BY <1>4, <2>1, <2>2
<1> QED BY <1>1, <1>2, <1>3, <1>4 DEF OwnKept, WordsKept

LEMMA SwitchOwn ==
  ASSUME NEW p \in Page, NEW d \in Doc, NEW untitled \in BOOLEAN, NEW q,
         q = SwitchToDoc(p, d, untitled)
  PROVE  /\ q \in Page /\ OwnKept(p, q) /\ (Panel(p) => Panel(q)) /\ SameFrame(p, q)
         /\ p.open /\ p.mounted /\ d # p.active => WordsKept(p, q)
<1>1. q \in Page
  BY SwitchDoes
<1>2. CASE d \notin p.docs
  <2>1. q = p
    BY <1>2, SwitchDoes
  <2> QED BY <1>1, <2>1 DEF OwnKept, WordsKept, SameFrame
<1>3. CASE d \in p.docs
  <2>1. PICK t \in Texts : Switched(p, q, d, t)
    BY <1>3, SwitchDoes
  <2>2. /\ q.active = d /\ q.docs \subseteq p.docs /\ d \in q.docs /\ SameFrame(p, q) /\ ~q.review.on
        /\ \A x \in p.docs \ q.docs : x = p.active /\ Blank(q.text[x])
        /\ Edited(p, t) /\ (~p.review.on => t = p.editor /\ q.puts = p.puts)
        /\ Written(p, q, t) /\ Sent(p, q, t)
        /\ p.mounted /\ p.active \in p.docs => q.text[p.active] = t
        /\ q.editor = IF p.mounted THEN q.text[d] ELSE p.editor
    BY <2>1 DEF Switched
  <2>3. ASSUME NEW x \in Doc, OwnIn(p, x)
        PROVE  OwnIn(q, x)
    <3>1. x = p.active /\ p.mounted => t.of = x
      BY <2>2, <2>3, EditedOwn
    <3>2. /\ x \in q.docs => q.text[x].of = x
          /\ \A put \in q.puts : put.doc = x => put.text.of = x
      <4>1. q.docs \subseteq p.docs /\ Written(p, q, t) /\ Sent(p, q, t)
        BY <2>2
      <4> QED BY <1>1, <2>3, <3>1, <4>1, WritesOwn
    <3>3. x = q.active /\ q.mounted => q.editor.of = x
      BY <2>2, <3>2 DEF SameFrame
    <3> QED BY <2>2, <3>2, <3>3 DEF OwnIn
  <2>4. Panel(p) => Panel(q)
    BY <2>2 DEF Panel, SameFrame
  <2>5. ASSUME p.open, p.mounted, d # p.active, NEW x \in Doc, NEW n \in Nat \ {0},
               HoldsIn(p, x, n), ~(p.review.on /\ x = p.active)
        PROVE  HoldsIn(q, x, n)
    <3>1. CASE \E put \in p.puts : put.doc = x /\ put.text.n = n
      BY <2>2, <3>1 DEF HoldsIn, Sent
    <3>2. CASE x \in p.docs /\ x # p.active /\ p.text[x].n = n
      <4>1. x \in q.docs /\ q.text[x] = p.text[x]
        BY <2>2, <3>2 DEF Written
      <4> QED BY <2>2, <2>5, <3>2, <4>1 DEF HoldsIn
    <3>3. CASE x \in p.docs /\ x = p.active /\ p.editor.n = n
      <4>1. q.text[x].n = n
        BY <2>2, <2>5, <3>3
      <4>2. x \in q.docs
        BY <2>2, <3>3, <4>1 DEF Blank
      <4> QED BY <2>2, <2>5, <3>3, <4>1, <4>2 DEF HoldsIn
    <3> QED BY <2>5, <3>1, <3>2, <3>3 DEF HoldsIn
  <2> QED BY <1>1, <2>2, <2>3, <2>4, <2>5 DEF OwnKept, WordsKept
<1> QED BY <1>2, <1>3

LEMMA CloseOwn ==
  ASSUME NEW p \in Page, NEW down \in BOOLEAN, NEW q, q = ClosePanel(p, down)
  PROVE  /\ q \in Page /\ OwnKept(p, q) /\ (Panel(p) => Panel(q) /\ WordsKept(p, q))
<1>1. /\ q \in Page /\ ~q.open /\ q.mounted = p.mounted /\ q.docs = p.docs
      /\ q.active = p.active /\ q.editor = p.editor /\ q.review = p.review /\ q.puts = p.puts
      /\ q.chip = NoDoc \/ (p.open /\ q.chip = p.active) \/ (~p.open /\ q.chip = p.chip)
      /\ Written(p, q, p.editor)
      /\ ~p.open => q.text = p.text
      /\ p.open /\ p.mounted /\ p.active \in p.docs => q.text[p.active] = p.editor
  BY CloseDoes
<1>2. Sent(p, q, p.editor)
  BY <1>1 DEF Sent
<1>3. ASSUME NEW d \in Doc, OwnIn(p, d)
      PROVE  OwnIn(q, d)
  <2>1. d = p.active /\ p.mounted => p.editor.of = d
    BY <1>3 DEF OwnIn
  <2>2. /\ d \in q.docs => q.text[d].of = d
        /\ \A put \in q.puts : put.doc = d => put.text.of = d
    <3>1. p.editor \in Texts /\ q.docs \subseteq p.docs
      BY <1>1, PageFields
    <3> QED BY <1>1, <1>2, <1>3, <2>1, <3>1, WritesOwn
  <2> QED BY <1>1, <1>3, <2>2 DEF OwnIn
<1>4. Panel(p) => Panel(q)
  BY <1>1 DEF Panel
<1>5. ASSUME Panel(p), NEW d \in Doc, NEW n \in Nat \ {0}, HoldsIn(p, d, n)
      PROVE  HoldsIn(q, d, n)
  <2>1. CASE \E put \in p.puts : put.doc = d /\ put.text.n = n
    BY <1>1, <2>1 DEF HoldsIn
  <2>2. CASE d \in p.docs /\ p.open /\ p.active = d /\ p.editor.n = n
    BY <1>1, <1>5, <2>2 DEF HoldsIn, Panel
  <2>3. CASE d \in p.docs /\ ~(p.open /\ p.active = d) /\ p.text[d].n = n
    BY <1>1, <2>3 DEF HoldsIn, Written
  <2> QED BY <1>5, <2>1, <2>2, <2>3 DEF HoldsIn
<1> QED BY <1>1, <1>3, <1>4, <1>5 DEF OwnKept, WordsKept

LEMMA DetachOwn ==
  ASSUME NEW p \in Page, NEW d \in Doc, NEW q, q = DetachDoc(p, d)
  PROVE  q \in Page /\ OwnKept(p, q)
<1>1. /\ q \in Page /\ q.docs = p.docs \ {d} /\ q.active = p.active /\ q.editor = p.editor
      /\ q.review = p.review /\ SameFrame(p, q)
      /\ Written(p, q, p.editor) /\ Sent(p, q, p.editor)
  BY DetachDoes
<1>2. ASSUME NEW x \in Doc, OwnIn(p, x)
      PROVE  OwnIn(q, x)
  <2>1. x = p.active /\ p.mounted => p.editor.of = x
    BY <1>2 DEF OwnIn
  <2>2. /\ x \in q.docs => q.text[x].of = x
        /\ \A put \in q.puts : put.doc = x => put.text.of = x
    <3>1. p.editor \in Texts /\ q.docs \subseteq p.docs
      BY <1>1, PageFields
    <3> QED BY <1>1, <1>2, <2>1, <3>1, WritesOwn
  <2> QED BY <1>1, <1>2, <2>2 DEF OwnIn, SameFrame
<1> QED BY <1>1, <1>2 DEF OwnKept

\* A save of the open panel leaves the words where they were, and sends them.
LEMMA SaveWords ==
  ASSUME NEW p \in Page, NEW q \in Page, SameView(p, q), Written(p, q, p.editor),
         p.puts \subseteq q.puts, p.open
  PROVE  WordsKept(p, q)
<1>1. ASSUME NEW d \in Doc, NEW n \in Nat \ {0}, HoldsIn(p, d, n)
      PROVE  HoldsIn(q, d, n)
  <2>1. CASE \E put \in p.puts : put.doc = d /\ put.text.n = n
    BY <2>1 DEF HoldsIn
  <2>2. CASE d \in p.docs /\ p.active = d /\ p.editor.n = n
    BY <2>2 DEF HoldsIn, SameView
  <2>3. CASE d \in p.docs /\ p.active # d /\ p.text[d].n = n
    BY <2>3 DEF HoldsIn, SameView, Written
  <2> QED BY <1>1, <2>1, <2>2, <2>3 DEF HoldsIn
<1> QED BY <1>1 DEF WordsKept

-----------------------------------------------------------------------------
(* The invariant, and what is to be shown of each step.                     *)

\* A document the store does not know has no text there.
AbsentBlank == \A d \in Doc : server[d].state = "absent" => server[d].text.n = 0

DocInv == Typed /\ Panel(page) /\ AbsentBlank

OwnStep == \A d \in Doc : Own(d) => Own(d)'
WordsStep == \A d \in Doc : Kept(d) => Kept(d)' \/ (page.review.on /\ d = page.active)

Fine == DocInv' /\ (Stray \/ OwnStep) /\ (Lossy \/ WordsStep)

LEMMA OwnSplits ==
  /\ \A d \in Doc : Own(d) <=> OwnIn(page, d) /\ server[d].text.of = d
  /\ \A d \in Doc : Own(d)' <=> OwnIn(page', d) /\ server'[d].text.of = d
<1>1. \A d \in Doc : Own(d) <=> OwnIn(page, d) /\ server[d].text.of = d
  BY DEF Own, OwnIn
<1>2. \A d \in Doc : Own(d)' <=> OwnIn(page', d) /\ server'[d].text.of = d
  BY DEF Own, OwnIn
<1> QED BY <1>1, <1>2

LEMMA KeptSplits ==
  /\ \A d \in Doc : Kept(d) <=> \/ owed[d] = 0 \/ HoldsIn(page, d, owed[d])
                                \/ server[d].text.n = owed[d]
  /\ \A d \in Doc : Kept(d)' <=> \/ owed'[d] = 0 \/ HoldsIn(page', d, owed'[d])
                                 \/ server'[d].text.n = owed'[d]
<1>1. \A d \in Doc : Kept(d) <=> \/ owed[d] = 0 \/ HoldsIn(page, d, owed[d])
                                 \/ server[d].text.n = owed[d]
  BY DEF Kept, Holds, HoldsIn
<1>2. \A d \in Doc : Kept(d)' <=> \/ owed'[d] = 0 \/ HoldsIn(page', d, owed'[d])
                                  \/ server'[d].text.n = owed'[d]
  BY DEF Kept, Holds, HoldsIn
<1> QED BY <1>1, <1>2

\* What the page keeps, the state keeps, while store and history stay.
LEMMA OwnFromPage ==
  ASSUME OwnKept(page, page'), server' = server
  PROVE  OwnStep
BY OwnSplits DEF OwnKept, OwnStep

LEMMA WordsFromPage ==
  ASSUME Typed, WordsKept(page, page'), server' = server, owed' = owed
  PROVE  WordsStep
<1>1. ASSUME NEW d \in Doc, Kept(d), ~(page.review.on /\ d = page.active)
      PROVE  Kept(d)'
  <2>1. owed[d] \in Nat
    BY Bounds DEF Typed
  <2>2. CASE HoldsIn(page, d, owed[d]) /\ owed[d] # 0
    <3>1. HoldsIn(page', d, owed[d])
      BY <1>1, <2>1, <2>2 DEF WordsKept
    <3> QED BY <3>1, KeptSplits
  <2> QED BY <1>1, <2>2, KeptSplits
<1> QED BY <1>1 DEF WordsStep

LEMMA PanelFine ==
  ASSUME DocInv, steps' \in 0..MaxSteps, UNCHANGED rest, page' \in Page, Panel(page'),
         Stray \/ OwnKept(page, page'), Lossy \/ WordsKept(page, page') \/ WordsStep
  PROVE  Fine
<1>1. UNCHANGED <<home, session, server, event, loads, creates, fresh, owed>>
  BY DEF rest
<1>2. Typed'
  BY <1>1 DEF DocInv, Typed
<1>3. DocInv'
  BY <1>1, <1>2 DEF DocInv, AbsentBlank
<1>4. Stray \/ OwnStep
  BY <1>1, OwnFromPage
<1>5. Lossy \/ WordsStep
  BY <1>1, WordsFromPage DEF DocInv
<1> QED BY <1>3, <1>4, <1>5 DEF Fine

-----------------------------------------------------------------------------
(* The user in the panel, and the saves.                                    *)

LEMMA TabFine ==
  ASSUME DocInv, steps' \in 0..MaxSteps, NEW d \in Doc, Tab(d)
  PROVE  Fine
<1>1. PICK untitled \in BOOLEAN : page' = SwitchToDoc(page, d, untitled)
  BY DEF Tab
<1>2. page \in Page /\ Panel(page) /\ page.open /\ d # page.active /\ UNCHANGED rest
  BY DEF Tab, DocInv, Typed
<1>3. page.mounted
  BY <1>2 DEF Panel
<1>4. page' \in Page /\ Panel(page') /\ OwnKept(page, page') /\ WordsKept(page, page')
  BY <1>1, <1>2, <1>3, SwitchOwn
<1> QED BY <1>2, <1>4, PanelFine

LEMMA CloseTabFine ==
  ASSUME DocInv, steps' \in 0..MaxSteps, NEW d \in Doc, CloseTab(d)
  PROVE  Fine
<1> DEFINE s == SaveCurrentToMap(page)
           p == DetachDoc(s, d)
           next == InConversation(p, session)
           a == [p EXCEPT !.active = NoDoc]
<1>1. page \in Page /\ Panel(page) /\ page.open /\ page.mounted /\ d \in page.docs /\ UNCHANGED rest
  BY DEF CloseTab, DocInv, Typed, Panel
<1>2. \/ next = {} /\ page' = ClosePanel(a, FALSE)
      \/ next # {} /\ page.active # d /\ page' = p
      \/ /\ page.active = d
         /\ \E e \in next, untitled \in BOOLEAN : page' = SwitchToDoc(p, e, untitled)
  BY DEF CloseTab
<1>3. next \subseteq p.docs
  BY DEF InConversation
<1>4. d # page.active => Lossy
  BY DEF Lossy
<1> HIDE DEF next
<1>5. /\ s \in Page /\ SameView(page, s) /\ s.puts = page.puts
      /\ Written(page, s, page.editor)
      /\ page.mounted /\ page.active \in page.docs => s.text[page.active] = page.editor
  BY <1>1, SaveCurrentDoes
<1>6. OwnKept(page, s)
  BY <1>1, <1>5, SaveOwn DEF Sent
<1> HIDE DEF s
<1>7. /\ p \in Page /\ p.docs = s.docs \ {d} /\ p.active = s.active /\ p.editor = s.editor
      /\ p.review = s.review /\ SameFrame(s, p) /\ OwnKept(s, p)
      /\ Written(s, p, s.editor) /\ Sent(s, p, s.editor)
      /\ s.mounted /\ d = s.active /\ d \in s.docs /\ ~Blank(s.text[d]) =>
           \E put \in p.puts : put.doc = d /\ put.text = s.editor
  BY <1>5, DetachDoes, DetachOwn
<1> HIDE DEF p
<1>8. /\ p.docs = page.docs \ {d} /\ p.active = page.active /\ p.open /\ p.mounted
      /\ p.chip = page.chip /\ p.review = page.review /\ page.puts \subseteq p.puts
      /\ OwnKept(page, p)
  BY <1>1, <1>5, <1>6, <1>7 DEF SameView, SameFrame, Sent, OwnKept
\* The words of the closed tab are sent, those of the others stay in theirs.
<1>9. ASSUME d = page.active, NEW x \in Doc, NEW n \in Nat \ {0}, HoldsIn(page, x, n)
      PROVE  \/ \E put \in p.puts : put.doc = x /\ put.text.n = n
             \/ x \in p.docs /\ x # page.active /\ p.text[x].n = n
  <2>1. CASE \E put \in page.puts : put.doc = x /\ put.text.n = n
    BY <1>8, <2>1
  <2>2. CASE x = page.active /\ page.editor.n = n
    <3>1. s.text[d] = page.editor /\ s.editor = page.editor /\ d \in s.docs /\ d = s.active /\ s.mounted
      BY <1>1, <1>5, <1>9 DEF SameView
    <3>2. ~Blank(s.text[d])
      BY <2>2, <3>1 DEF Blank
    <3>3. PICK put \in p.puts : put.doc = d /\ put.text = s.editor
      BY <1>7, <3>1, <3>2
    <3> QED BY <1>9, <2>2, <3>1, <3>3
  <2>3. CASE x # page.active /\ x \in page.docs /\ page.text[x].n = n
    <3>1. s.text[x] = page.text[x] /\ p.text[x] = s.text[x]
      BY <1>5, <1>7, <2>3 DEF Written, SameView
    <3> QED BY <1>8, <1>9, <2>3, <3>1
  <2> QED BY <1>1, <1>9, <2>1, <2>2, <2>3 DEF HoldsIn
<1>10. CASE next = {} /\ page' = ClosePanel(a, FALSE)
  <2>1. a \in Page
    BY <1>7 DEF Page
  <2>2. /\ a.active = NoDoc /\ a.docs = p.docs /\ a.text = p.text /\ a.editor = p.editor
        /\ a.review = p.review /\ a.puts = p.puts /\ a.mounted = p.mounted /\ a.chip = p.chip
        /\ a.open = p.open
    BY <1>7 DEF Page
  <2> HIDE DEF a
  <2>3. page' \in Page /\ OwnKept(a, page') /\ (Panel(a) => Panel(page'))
    BY <1>10, <2>1, CloseOwn
  <2>4. Panel(a)
    BY <1>1, <1>8, <2>2 DEF Panel
  <2>5. OwnKept(p, a)
    BY <2>2, PageFields, <1>7 DEF OwnKept, OwnIn
  <2>6. OwnKept(page, page')
    BY <1>8, <2>3, <2>5 DEF OwnKept
  <2>7. /\ page'.docs = a.docs /\ page'.puts = a.puts /\ Written(a, page', a.editor) /\ ~page'.open
    BY <1>10, <2>1, CloseDoes
  <2>8. ASSUME d = page.active
        PROVE  WordsKept(page, page')
    <3>1. ASSUME NEW x \in Doc, NEW n \in Nat \ {0}, HoldsIn(page, x, n)
          PROVE  HoldsIn(page', x, n)
      <4>1. page'.text[x] = p.text[x]
        BY <2>2, <2>7, <1>7, PageFields DEF Written
      <4> QED BY <1>9, <2>2, <2>7, <2>8, <3>1, <4>1 DEF HoldsIn
    <3> QED BY <3>1 DEF WordsKept
  <2> QED BY <1>1, <1>4, <2>3, <2>4, <2>6, <2>8, PanelFine
<1>11. CASE page.active # d /\ page' = p
  <2>1. Panel(p)
    BY <1>1, <1>8, <1>11 DEF Panel
  <2> QED BY <1>1, <1>4, <1>7, <1>8, <1>11, <2>1, PanelFine
<1>12. ASSUME page.active = d, NEW e \in next, NEW untitled \in BOOLEAN,
              page' = SwitchToDoc(p, e, untitled)
       PROVE  Fine
  <2>1. e \in Doc /\ e \in p.docs /\ e # p.active
    BY <1>3, <1>7, <1>8, <1>12, PageFields
  <2>2. page' \in Page /\ OwnKept(p, page') /\ SameFrame(p, page') /\ WordsKept(p, page')
    BY <1>7, <1>8, <1>12, <2>1, SwitchOwn
  <2>3. OwnKept(page, page')
    BY <1>8, <2>2 DEF OwnKept
  <2>4. PICK t \in Texts : Switched(p, page', e, t)
    BY <1>7, <1>12, <2>1, SwitchDoes
  <2>5. Panel(page')
    BY <1>1, <1>8, <2>2, <2>4 DEF Switched, SameFrame, Panel
  <2>6. ASSUME NEW x \in Doc, NEW n \in Nat \ {0}, HoldsIn(page, x, n)
        PROVE  HoldsIn(page', x, n) \/ (page.review.on /\ x = page.active)
    <3>1. HoldsIn(p, x, n)
      BY <1>8, <1>9, <1>12, <2>6 DEF HoldsIn
    <3> QED BY <1>8, <2>2, <3>1 DEF WordsKept
  <2>7. WordsKept(page, page')
    BY <2>6 DEF WordsKept
  <2> QED BY <1>1, <2>2, <2>3, <2>5, <2>7, PanelFine
<1> QED BY <1>2, <1>10, <1>11, <1>12

LEMMA CloseFine ==
  ASSUME DocInv, steps' \in 0..MaxSteps, NEW down \in BOOLEAN, Close(down)
  PROVE  Fine
<1>1. page \in Page /\ Panel(page) /\ UNCHANGED rest /\ page' = ClosePanel(page, down)
  BY DEF Close, DocInv, Typed
<1>2. page' \in Page /\ Panel(page') /\ OwnKept(page, page') /\ WordsKept(page, page')
  BY <1>1, CloseOwn
<1> QED BY <1>1, <1>2, PanelFine

LEMMA SlidOutDoes ==
  ASSUME NEW p \in Page, ~p.open, NEW q, q = SlidOut(p)
  PROVE  q \in Page /\ Panel(q) /\ OwnKept(p, q) /\ WordsKept(p, q)
<1>1. q = [p EXCEPT !.mounted = FALSE, !.active = NoDoc, !.editor = EmptyPane,
                    !.locked = FALSE, !.frames = EmptyPane]
  BY DEF SlidOut
<1>2. q \in Page
  BY <1>1, TextsMade DEF Page
<1>3. /\ q.docs = p.docs /\ q.text = p.text /\ q.active = NoDoc /\ ~q.mounted
      /\ q.review = p.review /\ q.puts = p.puts /\ q.open = p.open /\ q.chip = p.chip
  BY <1>1 DEF Page
<1>4. Panel(q)
  BY <1>3 DEF Panel
<1>5. OwnKept(p, q)
  BY <1>3, DocAssumption DEF OwnKept, OwnIn
<1>6. WordsKept(p, q)
  BY <1>3 DEF WordsKept, HoldsIn
<1> QED BY <1>2, <1>4, <1>5, <1>6

LEMMA FinishCloseFine ==
  ASSUME DocInv, steps' \in 0..MaxSteps, FinishClose
  PROVE  Fine
<1>1. page \in Page /\ UNCHANGED rest /\ ~page.open /\ page' = SlidOut(page)
  BY DEF FinishClose, DocInv, Typed
<1> QED BY <1>1, SlidOutDoes, PanelFine

\* The timer's call clears activeDocId of a closed panel, whose tabs have it all.
LEMMA FinishCloseAgainFine ==
  ASSUME DocInv, steps' \in 0..MaxSteps, FinishCloseAgain
  PROVE  Fine
<1> DEFINE due == page.closes - 1
           p == [page EXCEPT !.closes = due]
<1>1. /\ page \in Page /\ Panel(page) /\ UNCHANGED rest /\ page.closes > 0
      /\ page' = IF p.open THEN p
                 ELSE IF p.closes = 0 THEN SlidOut(p) ELSE [p EXCEPT !.active = NoDoc]
  BY DEF FinishCloseAgain, DocInv, Typed
<1>2. due \in Nat
  BY <1>1 DEF Page
<1> HIDE DEF due
<1>3. p \in Page
  BY <1>1, <1>2 DEF Page
<1>4. /\ p.docs = page.docs /\ p.text = page.text /\ p.active = page.active
      /\ p.editor = page.editor /\ p.mounted = page.mounted /\ p.review = page.review
      /\ p.puts = page.puts /\ p.open = page.open /\ p.chip = page.chip
  BY <1>1 DEF Page
<1> HIDE DEF p
<1>5. CASE p.open
  <2>1. page' = p /\ Panel(page') /\ OwnKept(page, page') /\ WordsKept(page, page')
    BY <1>1, <1>4, <1>5 DEF Panel, OwnKept, OwnIn, WordsKept, HoldsIn
  <2> QED BY <1>1, <1>3, <2>1, PanelFine
<1>6. CASE ~p.open /\ page' = SlidOut(p)
  <2>1. page' \in Page /\ Panel(page') /\ OwnKept(p, page') /\ WordsKept(p, page')
    BY <1>3, <1>6, SlidOutDoes
  <2>2. OwnKept(page, page')
    BY <1>4, <2>1 DEF OwnKept, OwnIn
  <2>3. WordsKept(page, page')
    BY <1>4, <2>1 DEF WordsKept, HoldsIn
  <2> QED BY <1>1, <2>1, <2>2, <2>3, PanelFine
<1>7. CASE ~p.open /\ page' = [p EXCEPT !.active = NoDoc]
  <2>1. page' \in Page
    BY <1>3, <1>7 DEF Page
  <2>2. /\ page'.docs = p.docs /\ page'.text = p.text /\ page'.active = NoDoc
        /\ page'.puts = p.puts /\ page'.open = p.open
    BY <1>3, <1>7 DEF Page
  <2>3. Panel(page')
    BY <1>7, <2>2 DEF Panel
  <2>4. OwnKept(page, page')
    BY <1>4, <2>2, DocAssumption DEF OwnKept, OwnIn
  <2>5. WordsKept(page, page')
    BY <1>4, <1>7, <2>2 DEF WordsKept, HoldsIn
  <2> QED BY <1>1, <2>1, <2>3, <2>4, <2>5, PanelFine
<1> QED BY <1>1, <1>5, <1>6, <1>7

\* The chip was closed first: a page like this one without it.
LEMMA ChipGone ==
  ASSUME NEW p \in Page, NEW q, q = [p EXCEPT !.chip = NoDoc]
  PROVE  /\ q \in Page /\ q.chip = NoDoc /\ q.docs = p.docs /\ q.text = p.text
         /\ q.active = p.active /\ q.editor = p.editor /\ q.open = p.open
         /\ q.mounted = p.mounted /\ q.review = p.review /\ q.puts = p.puts
         /\ OwnKept(p, q)
<1>1. /\ q \in Page /\ q.chip = NoDoc /\ q.docs = p.docs /\ q.text = p.text
      /\ q.active = p.active /\ q.editor = p.editor /\ q.open = p.open
      /\ q.mounted = p.mounted /\ q.review = p.review /\ q.puts = p.puts
  BY DEF Page
<1> QED BY <1>1 DEF OwnKept, OwnIn

LEMMA RestoreChipFine ==
  ASSUME DocInv, steps' \in 0..MaxSteps, RestoreChip
  PROVE  Fine
<1> DEFINE q == [page EXCEPT !.chip = NoDoc]
           p == OpenPanel(q)
<1>1. page \in Page /\ Panel(page) /\ UNCHANGED rest /\ page.chip # NoDoc /\ page.chip \in Doc
  BY PageFields DEF RestoreChip, DocInv, Typed
<1>2. PICK untitled \in BOOLEAN : page' = SwitchToDoc(p, page.chip, untitled)
  BY DEF RestoreChip
<1>3. ~page.open
  BY <1>1 DEF Panel
<1>4. /\ q \in Page /\ q.chip = NoDoc /\ q.docs = page.docs /\ q.text = page.text
      /\ q.active = page.active /\ q.editor = page.editor /\ q.open = page.open
      /\ q.mounted = page.mounted /\ q.review = page.review /\ q.puts = page.puts
  BY <1>1, ChipGone
<1> HIDE DEF q
<1>5. /\ p \in Page /\ p.open /\ p.mounted /\ p.chip = NoDoc
      /\ p.docs = page.docs /\ p.text = page.text /\ p.puts = page.puts /\ p.review = page.review
      /\ p.active \in {page.active, NoDoc} /\ (page.active \in page.docs => p.active = page.active)
  BY <1>3, <1>4, OpenDoes
<1> HIDE DEF p
<1>6. page' \in Page /\ (Panel(p) => Panel(page')) /\ OwnKept(p, page') /\ SameFrame(p, page')
  BY <1>1, <1>2, <1>5, SwitchOwn
<1>7. Panel(p)
  BY <1>1, <1>5 DEF Panel
<1>8. page'.open
  BY <1>5, <1>6 DEF SameFrame
<1>9. CASE page.active # NoDoc
  <2>1. Reopened
    BY <1>3, <1>8, <1>9 DEF Reopened
  <2>2. Stray /\ Lossy
    BY <2>1 DEF Stray, Lossy
  <2> QED BY <1>1, <1>6, <1>7, <2>2, PanelFine
<1>10. CASE page.active = NoDoc
  <2>1. p.active = NoDoc /\ page.chip # p.active
    BY <1>1, <1>5, <1>10
  <2>2. OwnKept(page, p)
    BY <1>5, <1>10, <2>1, DocAssumption DEF OwnKept, OwnIn
  <2>3. OwnKept(page, page')
    BY <1>6, <2>2 DEF OwnKept
  <2>4. WordsKept(p, page')
    BY <1>1, <1>2, <1>5, <2>1, SwitchOwn
  <2>5. \A d \in Doc, n \in Nat \ {0} : HoldsIn(page, d, n) => HoldsIn(p, d, n)
    BY <1>3, <1>5, <2>1, DocAssumption DEF HoldsIn
  <2>6. WordsKept(page, page')
    BY <1>5, <1>10, <2>1, <2>4, <2>5 DEF WordsKept
  <2> QED BY <1>1, <1>6, <1>7, <2>3, <2>6, PanelFine
<1> QED BY <1>9, <1>10

LEMMA CloseChipFine ==
  ASSUME DocInv, steps' \in 0..MaxSteps, CloseChip
  PROVE  Fine
<1> DEFINE q == [page EXCEPT !.chip = NoDoc]
<1>1. /\ page \in Page /\ Panel(page) /\ UNCHANGED rest /\ page.chip \in Doc
      /\ page' = DetachDoc(q, page.chip) /\ page.chip # NoDoc
  BY PageFields DEF CloseChip, DocInv, Typed
<1>2. Lossy
  BY DEF Lossy
<1>3. ~page.open
  BY <1>1 DEF Panel
<1>4. q \in Page /\ q.chip = NoDoc /\ q.open = page.open /\ OwnKept(page, q)
  BY <1>1, ChipGone
<1> HIDE DEF q
<1>5. page' \in Page /\ OwnKept(q, page') /\ SameFrame(q, page')
  BY <1>1, <1>4, DetachDoes, DetachOwn
<1>6. Panel(page')
  BY <1>3, <1>4, <1>5 DEF Panel, SameFrame
<1>7. OwnKept(page, page')
  BY <1>4, <1>5 DEF OwnKept
<1> QED BY <1>1, <1>2, <1>5, <1>6, <1>7, PanelFine

\* Some of the chunks that were left are taken, or none.
Marked(v, i, j) == [v EXCEPT !.left = i, !.taken = j]

LEMMA ReviewMarked ==
  ASSUME NEW v \in Reviews, NEW i \in 0..Chunks, NEW j \in 0..Chunks, i + j <= Chunks,
         NEW r, r = Marked(v, i, j)
  PROVE  r \in Reviews /\ r.on = v.on /\ r.old = v.old /\ r.new = v.new
<1>1. /\ r.on = v.on /\ r.old = v.old /\ r.new = v.new /\ r.left = i /\ r.taken = j
      /\ r \in [on : BOOLEAN, old : Texts, new : Texts, left : 0..Chunks, taken : 0..Chunks]
  BY DEF Reviews, Marked
<1> QED BY <1>1 DEF Reviews

\* The decided text of a review is put into the editor, and saved.
LEMMA ResolveChunkFine ==
  ASSUME DocInv, steps' \in 0..MaxSteps, NEW accept \in BOOLEAN, ResolveChunk(accept)
  PROVE  Fine
<1> DEFINE r == [page.review EXCEPT !.left = @ - 1, !.taken = IF accept THEN @ + 1 ELSE @]
           due == page.exitDue \/ r.left = 0
           t == Decided(r)
           p == [page EXCEPT !.review = r, !.editor = t, !.exitDue = due]
<1>1. /\ page \in Page /\ Panel(page) /\ UNCHANGED rest /\ page.open /\ page.review.on
      /\ page.review.left > 0 /\ page' = SaveDocument(p)
  BY DEF ResolveChunk, DocInv, Typed
<1>2. /\ r \in Reviews /\ r.on /\ r.old = page.review.old /\ r.new = page.review.new
  <2> DEFINE i == page.review.left - 1
             j == IF accept THEN page.review.taken + 1 ELSE page.review.taken
  <2>1. page.review \in Reviews
    BY <1>1, PageFields
  <2>2. i \in 0..Chunks /\ j \in 0..Chunks /\ i + j <= Chunks
    BY <1>1, <2>1, ReviewFields DEF Chunks
  <2>3. r = Marked(page.review, i, j)
    BY DEF Marked
  <2> HIDE DEF i, j, r
  <2> QED BY <1>1, <2>1, <2>2, <2>3, ReviewMarked
<1> HIDE DEF r
<1>3. t \in Texts /\ t \in {r.old, r.new, Mixed(r.new.of)} /\ due \in BOOLEAN
  BY <1>1, <1>2, DecidedTyped DEF Page
<1> HIDE DEF t, due
<1>4. p \in Page
  BY <1>1, <1>2, <1>3 DEF Page
<1>5. /\ p.docs = page.docs /\ p.text = page.text /\ p.active = page.active /\ p.editor = t
      /\ p.review = r /\ p.puts = page.puts /\ p.mounted = page.mounted
      /\ p.open = page.open /\ p.chip = page.chip
  BY <1>1 DEF Page
<1> HIDE DEF p
<1>6. /\ page' \in Page /\ SameView(p, page') /\ Written(p, page', p.editor)
      /\ Sent(p, page', p.editor)
  BY <1>1, <1>4, SaveDoes
<1>7. OwnKept(p, page') /\ (Panel(p) => Panel(page'))
  BY <1>4, <1>6, SaveOwn
<1>8. Panel(p)
  BY <1>1, <1>5 DEF Panel
<1>9. ASSUME NEW d \in Doc, OwnIn(page, d)
      PROVE  OwnIn(p, d)
  <2>1. CASE d = page.active
    <3>1. r.old.of = d /\ r.new.of = d
      BY <1>1, <1>2, <1>9, <2>1 DEF OwnIn
    <3>2. t.of = d
      BY <1>3, <3>1, TextsMade
    <3> QED BY <1>5, <1>9, <3>1, <3>2 DEF OwnIn
  <2>2. CASE d # page.active
    BY <1>5, <1>9, <2>2 DEF OwnIn
  <2> QED BY <2>1, <2>2
<1>10. OwnKept(page, page')
  BY <1>7, <1>9 DEF OwnKept
<1>11. WordsKept(page, page')
  <2>1. ASSUME NEW d \in Doc, NEW n \in Nat \ {0}, HoldsIn(page, d, n), d # page.active
        PROVE  HoldsIn(page', d, n)
    BY <1>1, <1>5, <1>6, <2>1 DEF HoldsIn, SameView, Written, Sent
  <2> QED BY <1>1, <2>1 DEF WordsKept
<1> QED BY <1>1, <1>6, <1>7, <1>8, <1>10, <1>11, PanelFine

\* Any change of the review's marks before it is left.
LEMMA LeaveFine ==
  ASSUME DocInv, steps' \in 0..MaxSteps, UNCHANGED rest, NEW discard \in BOOLEAN,
         NEW p \in Page, page' = ExitDiffMode(p, discard),
         p.docs = page.docs, p.text = page.text, p.active = page.active,
         p.editor = page.editor, p.puts = page.puts, p.mounted = page.mounted,
         p.open = page.open, p.chip = page.chip, p.review.on = page.review.on,
         p.review.old = page.review.old, p.review.new = page.review.new
  PROVE  Fine
<1>1. page \in Page /\ Panel(page)
  BY DEF DocInv, Typed
<1>2. page' \in Page /\ OwnKept(p, page') /\ (Panel(p) => Panel(page')) /\ WordsKept(p, page')
  BY ExitOwn
<1>3. Panel(p)
  BY <1>1 DEF Panel
<1>4. OwnKept(page, p)
  BY DEF OwnKept, OwnIn
<1>5. OwnKept(page, page')
  BY <1>2, <1>4 DEF OwnKept
<1>6. \A d \in Doc, n \in Nat \ {0} : HoldsIn(page, d, n) => HoldsIn(p, d, n)
  BY DEF HoldsIn
<1>7. WordsKept(page, page')
  BY <1>2, <1>6 DEF WordsKept
<1> QED BY <1>2, <1>3, <1>5, <1>7, PanelFine

LEMMA ExitFiresFine ==
  ASSUME DocInv, steps' \in 0..MaxSteps, ExitFires
  PROVE  Fine
<1> DEFINE p == [page EXCEPT !.exitDue = FALSE]
<1>1. page \in Page /\ UNCHANGED rest /\ page' = ExitDiffMode(p, FALSE)
  BY DEF ExitFires, DocInv, Typed
<1>2. p \in Page
  BY <1>1 DEF Page
<1>3. /\ p.docs = page.docs /\ p.text = page.text /\ p.active = page.active
      /\ p.editor = page.editor /\ p.puts = page.puts /\ p.mounted = page.mounted
      /\ p.open = page.open /\ p.chip = page.chip /\ p.review = page.review
  BY <1>1 DEF Page
<1> HIDE DEF p
<1> QED BY <1>1, <1>2, <1>3, LeaveFine

LEMMA ResolveAllFine ==
  ASSUME DocInv, steps' \in 0..MaxSteps, NEW accept \in BOOLEAN, ResolveAll(accept)
  PROVE  Fine
<1> DEFINE r == [page.review EXCEPT !.taken = IF accept THEN @ + page.review.left ELSE @, !.left = 0]
           p == [page EXCEPT !.review = r]
<1>1. /\ page \in Page /\ UNCHANGED rest /\ page.review.on /\ page' = ExitDiffMode(p, FALSE)
  BY DEF ResolveAll, DocInv, Typed
<1>2. /\ r \in Reviews /\ r.on = page.review.on /\ r.old = page.review.old /\ r.new = page.review.new
  <2> DEFINE i == 0
             j == IF accept THEN page.review.taken + page.review.left ELSE page.review.taken
  <2>1. page.review \in Reviews
    BY <1>1, PageFields
  <2>2. i \in 0..Chunks /\ j \in 0..Chunks /\ i + j <= Chunks
    BY <2>1, ReviewFields DEF Chunks
  <2>3. r = Marked(page.review, i, j)
    BY <2>1 DEF Reviews, Marked
  <2> HIDE DEF i, j, r
  <2> QED BY <2>1, <2>2, <2>3, ReviewMarked
<1> HIDE DEF r
<1>3. p \in Page
  BY <1>1, <1>2 DEF Page
<1>4. /\ p.docs = page.docs /\ p.text = page.text /\ p.active = page.active
      /\ p.editor = page.editor /\ p.puts = page.puts /\ p.mounted = page.mounted
      /\ p.open = page.open /\ p.chip = page.chip /\ p.review = r
  BY <1>1 DEF Page
<1> HIDE DEF p
<1> QED BY <1>1, <1>2, <1>3, <1>4, LeaveFine

LEMMA EscapeFine ==
  ASSUME DocInv, steps' \in 0..MaxSteps, Escape
  PROVE  Fine
BY LeaveFine DEF Escape, DocInv, Typed

LEMMA AutosaveFine ==
  ASSUME DocInv, steps' \in 0..MaxSteps, AutosaveFires
  PROVE  Fine
<1> DEFINE p == [page EXCEPT !.timer = FALSE]
<1>1. page \in Page /\ Panel(page) /\ UNCHANGED rest /\ page' = SaveDocument(p)
  BY DEF AutosaveFires, DocInv, Typed
<1>2. p \in Page
  BY <1>1 DEF Page
<1>3. /\ p.docs = page.docs /\ p.text = page.text /\ p.active = page.active
      /\ p.editor = page.editor /\ p.puts = page.puts /\ p.mounted = page.mounted
      /\ p.open = page.open /\ p.chip = page.chip /\ p.review = page.review
  BY <1>1 DEF Page
<1> HIDE DEF p
<1>4. /\ page' \in Page /\ SameView(p, page') /\ Written(p, page', p.editor)
      /\ Sent(p, page', p.editor)
  BY <1>1, <1>2, SaveDoes
<1>5. OwnKept(p, page') /\ (Panel(p) => Panel(page'))
  BY <1>2, <1>4, SaveOwn
<1>6. Panel(p) /\ OwnKept(page, p)
  BY <1>1, <1>3 DEF Panel, OwnKept, OwnIn
<1>7. OwnKept(page, page')
  BY <1>5, <1>6 DEF OwnKept
<1>8. CASE page.open
  <2>1. p.puts \subseteq page'.puts
    BY <1>4 DEF Sent
  <2>2. WordsKept(p, page')
    BY <1>2, <1>3, <1>4, <1>8, <2>1, SaveWords
  <2>3. WordsKept(page, page')
    BY <1>3, <2>2 DEF WordsKept, HoldsIn
  <2> QED BY <1>1, <1>4, <1>5, <1>6, <1>7, <2>3, PanelFine
<1>9. CASE ~page.open
  <2>1. Lossy
    BY <1>9 DEF Lossy
  <2> QED BY <1>1, <1>4, <1>5, <1>6, <1>7, <2>1, PanelFine
<1> QED BY <1>8, <1>9

LEMMA PutRepliesFine ==
  ASSUME DocInv, steps' \in 0..MaxSteps, NEW put \in page.puts, PutReplies(put)
  PROVE  Fine
<1> DEFINE left == page.puts \ {put}
           text == IF put.doc \in page.docs THEN put.text ELSE page.text[put.doc]
<1>1. page \in Page /\ Panel(page) /\ UNCHANGED rest
  BY DEF PutReplies, DocInv, Typed
<1>2. put \in Puts
  BY <1>1, PageFields
<1>3. put.doc \in Doc /\ put.text \in Texts /\ left \in SUBSET Puts /\ text \in Texts
  BY <1>1, <1>2, PageFields DEF Puts
<1>4. page' = [page EXCEPT !.puts = left, !.text[put.doc] = text]
  BY DEF PutReplies
<1> HIDE DEF left, text
<1>5. page' \in Page
  BY <1>1, <1>3, <1>4 DEF Page
<1>6. /\ page'.docs = page.docs /\ page'.active = page.active /\ page'.editor = page.editor
      /\ page'.puts = left /\ page'.mounted = page.mounted
      /\ page'.open = page.open /\ page'.chip = page.chip /\ page'.review = page.review
      /\ \A d \in Doc : page'.text[d] = IF d = put.doc THEN text ELSE page.text[d]
  BY <1>1, <1>4 DEF Page
<1>7. Panel(page')
  BY <1>1, <1>6 DEF Panel
<1>8. OwnKept(page, page')
  BY <1>6 DEF OwnKept, OwnIn, left, text
<1>9. CASE OutOfDate(put)
  <2>1. Lossy
    BY <1>9 DEF Lossy
  <2> QED BY <1>1, <1>5, <1>7, <1>8, <2>1, PanelFine
\* The save was of the last text, which the store has by now.
<1>10. CASE ~OutOfDate(put)
  <2>1. server[put.doc].text.n = owed[put.doc]
    BY <1>10 DEF OutOfDate
  <2>2. ASSUME NEW d \in Doc, Kept(d)
        PROVE  Kept(d)'
    <3>1. server' = server /\ owed' = owed
      BY <1>1 DEF rest
    <3>2. CASE d = put.doc
      BY <2>1, <3>1, <3>2, KeptSplits
    <3>3. CASE d # put.doc
      <4>1. HoldsIn(page, d, owed[d]) => HoldsIn(page', d, owed[d])
        BY <1>6, <3>3 DEF HoldsIn, left
      <4> QED BY <2>2, <3>1, <4>1, KeptSplits
    <3> QED BY <3>2, <3>3
  <2>3. WordsStep
    BY <2>2 DEF WordsStep
  <2> QED BY <1>1, <1>5, <1>7, <1>8, <2>3, PanelFine
<1> QED BY <1>9, <1>10

LEMMA PutNotFoundFine ==
  ASSUME DocInv, steps' \in 0..MaxSteps, NEW put \in page.puts, PutNotFound(put)
  PROVE  Fine
<1> DEFINE left == page.puts \ {put}
           docs == page.docs \ {put.doc}
           temp == page.temp \ {put.doc}
           act == IF page.active = put.doc THEN NoDoc ELSE page.active
<1>1. page \in Page /\ Panel(page) /\ UNCHANGED rest
  BY DEF PutNotFound, DocInv, Typed
<1>2. /\ left \in SUBSET Puts /\ docs \in SUBSET Doc /\ temp \in SUBSET Doc
      /\ act \in Doc \cup {NoDoc}
  BY <1>1 DEF Page
<1>3. page' = [page EXCEPT !.puts = left, !.docs = docs, !.temp = temp, !.active = act]
  BY DEF PutNotFound
<1> HIDE DEF left, docs, temp, act
<1>4. page' \in Page
  BY <1>1, <1>2, <1>3 DEF Page
<1>5. /\ page'.docs = docs /\ page'.active = act /\ page'.editor = page.editor
      /\ page'.puts = left /\ page'.mounted = page.mounted /\ page'.text = page.text
      /\ page'.open = page.open /\ page'.chip = page.chip /\ page'.review = page.review
  BY <1>1, <1>3 DEF Page
<1>6. Panel(page')
  BY <1>1, <1>5 DEF Panel, docs, act
<1>7. OwnKept(page, page')
  BY <1>5, DocAssumption DEF OwnKept, OwnIn, left, docs, act
<1>8. Lossy
  BY DEF Lossy
<1> QED BY <1>1, <1>4, <1>6, <1>7, <1>8, PanelFine

LEMMA PutFailsFine ==
  ASSUME DocInv, steps' \in 0..MaxSteps, NEW put \in page.puts, PutFails(put)
  PROVE  Fine
<1> DEFINE left == page.puts \ {put}
<1>1. page \in Page /\ Panel(page) /\ UNCHANGED rest /\ page' = [page EXCEPT !.puts = left]
  BY DEF PutFails, DocInv, Typed
<1>2. left \in SUBSET Puts
  BY <1>1 DEF Page
<1> HIDE DEF left
<1>3. page' \in Page
  BY <1>1, <1>2 DEF Page
<1>4. /\ page'.docs = page.docs /\ page'.active = page.active /\ page'.editor = page.editor
      /\ page'.puts = left /\ page'.mounted = page.mounted /\ page'.text = page.text
      /\ page'.open = page.open /\ page'.chip = page.chip /\ page'.review = page.review
  BY <1>1 DEF Page
<1>5. Panel(page')
  BY <1>1, <1>4 DEF Panel
<1>6. OwnKept(page, page')
  BY <1>4 DEF OwnKept, OwnIn, left
<1>7. Lossy
  BY DEF Lossy
<1> QED BY <1>1, <1>3, <1>5, <1>6, <1>7, PanelFine

LEMMA FrameFine ==
  ASSUME DocInv, steps' \in 0..MaxSteps, Frame
  PROVE  Fine
<1>1. page \in Page /\ Panel(page) /\ UNCHANGED rest /\ page.frames # EmptyPane
  BY DEF Frame, DocInv, Typed
<1>2. page.frames \in Texts /\ Mixed(page.frames.of) \in Texts
  BY <1>1, PageFields, TextsMade DEF Frames
<1>3. /\ page' \in Page /\ page'.docs = page.docs /\ page'.active = page.active
      /\ page'.mounted = page.mounted /\ page'.open = page.open /\ page'.chip = page.chip
  <2>1. CASE page' = [page EXCEPT !.editor = Mixed(page.frames.of)]
    BY <1>1, <1>2, <2>1 DEF Page
  <2>2. CASE page' = [page EXCEPT !.editor = page.frames, !.frames = EmptyPane]
    <3>1. EmptyPane \in Frames
      BY TextsMade
    <3> QED BY <1>1, <1>2, <2>2, <3>1 DEF Page
  <2> QED BY <2>1, <2>2 DEF Frame
<1>4. Panel(page')
  BY <1>1, <1>3 DEF Panel
<1>5. Stray /\ Lossy
  BY DEF Stray, Lossy
<1> QED BY <1>1, <1>3, <1>4, <1>5, PanelFine

-----------------------------------------------------------------------------
(* Steps that write the history, the store or the requests.                 *)

\* What is typed into the active document's editor is of that document, and
\* is its last text.
LEMMA TypeFine ==
  ASSUME DocInv, steps' \in 0..MaxSteps, Type
  PROVE  Fine
<1> DEFINE d == page.active
           of == IF page.editor.of = NoDoc THEN d ELSE page.editor.of
           t == [of |-> of, n |-> fresh']
<1>1. /\ page \in Page /\ Panel(page) /\ page.open /\ d # NoDoc /\ fresh < MaxTexts
      /\ fresh' = fresh + 1 /\ owed' = [owed EXCEPT ![d] = fresh']
      /\ UNCHANGED <<home, session, server, event, loads, creates>>
  BY DEF Type, DocInv, Typed
<1>2. page' = [page EXCEPT !.editor = t, !.timer = TRUE]
  BY DEF Type
<1>3. d \in Doc /\ d \in page.docs
  BY <1>1, PageFields DEF Panel
<1>4. fresh' \in 0..MaxTexts /\ fresh' \in 0..Mixture /\ fresh' \in Nat \ {0}
  BY <1>1, Bounds DEF DocInv, Typed
<1>5. of \in Doc
  BY <1>1, <1>3, PageFields, TextFields
<1>6. t \in Texts /\ t.of = of /\ t.n = fresh'
  BY <1>4, <1>5, TextMade
<1>7. page.editor.of = d => of = d
  BY <1>3
<1> HIDE DEF t, of
<1>8. page' \in Page
  BY <1>1, <1>2, <1>6 DEF Page
<1>9. /\ page'.docs = page.docs /\ page'.active = page.active /\ page'.editor = t
      /\ page'.puts = page.puts /\ page'.mounted = page.mounted /\ page'.text = page.text
      /\ page'.open = page.open /\ page'.chip = page.chip /\ page'.review = page.review
  BY <1>1, <1>2 DEF Page
<1>10. DocInv'
  <2>1. owed' \in [Doc -> 0..MaxTexts]
    BY <1>1, <1>3, <1>4 DEF DocInv, Typed
  <2>2. Typed'
    BY <1>1, <1>4, <1>8, <2>1 DEF DocInv, Typed
  <2> QED BY <1>1, <1>9, <2>2 DEF DocInv, AbsentBlank, Panel
<1>11. OwnKept(page, page')
  BY <1>6, <1>7, <1>9 DEF OwnKept, OwnIn
<1>12. WordsStep
  <2>1. \A x \in Doc : owed'[x] = IF x = d THEN fresh' ELSE owed[x]
    BY <1>1 DEF DocInv, Typed
  <2>2. HoldsIn(page', d, fresh')
    BY <1>1, <1>3, <1>6, <1>9 DEF HoldsIn
  <2>3. \A x \in Doc \ {d} : HoldsIn(page, x, owed[x]) => HoldsIn(page', x, owed[x])
    BY <1>9 DEF HoldsIn
  <2>4. ASSUME NEW x \in Doc, Kept(x)
        PROVE  Kept(x)'
    BY <1>1, <2>1, <2>2, <2>3, <2>4, KeptSplits
  <2> QED BY <2>4 DEF WordsStep
<1> QED BY <1>1, <1>10, <1>11, <1>12, OwnFromPage DEF Fine

LEMMA ClearFine ==
  ASSUME DocInv, steps' \in 0..MaxSteps, Clear
  PROVE  Fine
<1> DEFINE d == page.active
           t == Empty(d)
<1>1. /\ page \in Page /\ Panel(page) /\ page.open /\ d # NoDoc
      /\ owed' = [owed EXCEPT ![d] = 0]
      /\ UNCHANGED <<home, session, server, event, loads, creates, fresh>>
  BY DEF Clear, DocInv, Typed
<1>2. page' = [page EXCEPT !.editor = t, !.timer = TRUE]
  BY DEF Clear
<1>3. d \in Doc
  BY <1>1, PageFields
<1>4. t \in Texts /\ t.of = d
  BY <1>3, TextsMade
<1> HIDE DEF t
<1>5. page' \in Page
  BY <1>1, <1>2, <1>4 DEF Page
<1>6. /\ page'.docs = page.docs /\ page'.active = page.active /\ page'.editor = t
      /\ page'.puts = page.puts /\ page'.mounted = page.mounted /\ page'.text = page.text
      /\ page'.open = page.open /\ page'.chip = page.chip /\ page'.review = page.review
  BY <1>1, <1>2 DEF Page
<1>7. DocInv'
  <2>1. owed' \in [Doc -> 0..MaxTexts]
    BY <1>1, <1>3, Bounds DEF DocInv, Typed
  <2>2. Typed'
    BY <1>1, <1>5, <2>1 DEF DocInv, Typed
  <2> QED BY <1>1, <1>6, <2>2 DEF DocInv, AbsentBlank, Panel
<1>8. OwnKept(page, page')
  BY <1>4, <1>6 DEF OwnKept, OwnIn
<1>9. WordsStep
  <2>1. \A x \in Doc : owed'[x] = IF x = d THEN 0 ELSE owed[x]
    BY <1>1 DEF DocInv, Typed
  <2>2. \A x \in Doc \ {d} : HoldsIn(page, x, owed[x]) => HoldsIn(page', x, owed[x])
    BY <1>6 DEF HoldsIn
  <2>3. ASSUME NEW x \in Doc, Kept(x)
        PROVE  Kept(x)'
    BY <1>1, <2>1, <2>2, <2>3, KeptSplits
  <2> QED BY <2>3 DEF WordsStep
<1> QED BY <1>1, <1>7, <1>8, <1>9, OwnFromPage DEF Fine

LEMMA TypeNewFine ==
  ASSUME DocInv, steps' \in 0..MaxSteps, TypeNew
  PROVE  Fine
<1> DEFINE t == [of |-> NoDoc, n |-> fresh']
           due == page.timer \/ Pending("button")
           c == [kind |-> "typed", sess |-> page.last, text |-> t, wasEmpty |-> TRUE]
<1>1. /\ page \in Page /\ Panel(page) /\ page.active = NoDoc /\ fresh < MaxTexts
      /\ fresh' = fresh + 1
      /\ UNCHANGED <<home, session, server, event, loads, owed>>
  BY DEF TypeNew, DocInv, Typed
<1>2. page' = [page EXCEPT !.editor = t, !.timer = due]
  BY DEF TypeNew
<1>3. fresh' \in 0..MaxTexts /\ fresh' \in 0..Mixture
  BY <1>1, Bounds DEF DocInv, Typed
<1>4. t \in Texts /\ t.of = NoDoc /\ due \in BOOLEAN
  <2>1. PICK d \in Doc : TRUE
    BY DocAssumption
  <2> QED BY <1>1, <1>3, <2>1, TextMade DEF Page, Pending
<1>5. creates' \subseteq Creates
  <2>1. c \in Creates
    BY <1>1, <1>4, PageFields DEF Creates
  <2>2. creates' = creates \/ creates' = creates \cup {c}
    BY DEF TypeNew
  <2> QED BY <2>1, <2>2 DEF DocInv, Typed
<1> HIDE DEF t, due, c
<1>6. page' \in Page
  BY <1>1, <1>2, <1>4 DEF Page
<1>7. /\ page'.docs = page.docs /\ page'.active = page.active /\ page'.editor = t
      /\ page'.puts = page.puts /\ page'.mounted = page.mounted /\ page'.text = page.text
      /\ page'.open = page.open /\ page'.chip = page.chip /\ page'.review = page.review
  BY <1>1, <1>2 DEF Page
<1>8. DocInv'
  <2>1. Typed'
    BY <1>1, <1>3, <1>5, <1>6 DEF DocInv, Typed
  <2> QED BY <1>1, <1>7, <2>1 DEF DocInv, AbsentBlank, Panel
<1>9. OwnKept(page, page')
  BY <1>1, <1>7, DocAssumption DEF OwnKept, OwnIn
<1>10. WordsKept(page, page')
  BY <1>1, <1>7, DocAssumption DEF WordsKept, HoldsIn
<1> QED BY <1>1, <1>8, <1>9, <1>10, OwnFromPage, WordsFromPage DEF Fine, DocInv

LEMMA PutArrivesFine ==
  ASSUME DocInv, steps' \in 0..MaxSteps, NEW put \in page.puts, PutArrives(put)
  PROVE  Fine
<1> DEFINE done == [put EXCEPT !.done = TRUE]
           puts == (page.puts \ {put}) \cup {done}
<1>1. /\ page \in Page /\ Panel(page) /\ put \in Puts
      /\ UNCHANGED <<home, session, event, loads, creates, fresh, owed>>
      /\ server' = [server EXCEPT ![put.doc].text = put.text]
      /\ server[put.doc].state # "absent"
  BY PageFields DEF PutArrives, DocInv, Typed
<1>2. /\ put.doc \in Doc /\ put.text \in Texts /\ done \in Puts
      /\ done.doc = put.doc /\ done.text = put.text
  BY <1>1 DEF Puts
<1> HIDE DEF done
<1>3. puts \in SUBSET Puts
  BY <1>1, <1>2, PageFields
<1>4. page' = [page EXCEPT !.puts = puts]
  BY DEF PutArrives, done
<1>5. \A w \in puts : w \in page.puts \/ (w.doc = put.doc /\ w.text = put.text)
  BY <1>2
<1>14. page.puts \ {put} \subseteq puts
  OBVIOUS
<1> HIDE DEF puts
<1>6. page' \in Page
  BY <1>1, <1>3, <1>4 DEF Page
<1>7. /\ page'.docs = page.docs /\ page'.active = page.active /\ page'.editor = page.editor
      /\ page'.puts = puts /\ page'.mounted = page.mounted /\ page'.text = page.text
      /\ page'.open = page.open /\ page'.chip = page.chip /\ page'.review = page.review
  BY <1>1, <1>4 DEF Page
<1>8. server' \in Store
  BY <1>1, <1>2 DEF DocInv, Typed, Store
<1>9. \A d \in Doc : /\ server'[d].state = server[d].state
                     /\ server'[d].text = IF d = put.doc THEN put.text ELSE server[d].text
  BY <1>1, <1>2 DEF DocInv, Typed, Store
<1>10. DocInv'
  <2>1. Typed'
    BY <1>1, <1>6, <1>8 DEF DocInv, Typed
  <2>2. AbsentBlank'
    BY <1>1, <1>9 DEF DocInv, AbsentBlank
  <2> QED BY <1>1, <1>7, <2>1, <2>2 DEF DocInv, Panel
<1>11. OwnStep
  <2>1. ASSUME NEW d \in Doc, Own(d)
        PROVE  Own(d)'
    <3>1. OwnIn(page, d) /\ server[d].text.of = d
      BY <2>1, OwnSplits
    <3>2. put.doc = d => put.text.of = d
      BY <3>1 DEF OwnIn
    <3>3. OwnIn(page', d)
      BY <1>5, <1>7, <3>1, <3>2 DEF OwnIn
    <3>4. server'[d].text.of = d
      BY <1>9, <3>1, <3>2
    <3> QED BY <3>3, <3>4, OwnSplits
  <2> QED BY <2>1 DEF OwnStep
<1>12. CASE OutOfDate(put)
  <2>1. Lossy
    BY <1>12 DEF Lossy
  <2> QED BY <1>10, <1>11, <2>1 DEF Fine
<1>13. CASE ~OutOfDate(put)
  <2>1. put.text.n = owed[put.doc]
    BY <1>13 DEF OutOfDate
  <2>2. ASSUME NEW d \in Doc, Kept(d)
        PROVE  Kept(d)'
    <3>1. CASE d = put.doc
      <4>1. server'[d].text.n = owed'[d]
        BY <1>1, <1>9, <2>1, <3>1
      <4> QED BY <4>1, KeptSplits
    <3>2. CASE d # put.doc
      <4>1. HoldsIn(page, d, owed[d]) => HoldsIn(page', d, owed[d])
        BY <1>7, <1>14, <3>2 DEF HoldsIn
      <4>2. server'[d].text = server[d].text /\ owed' = owed
        BY <1>1, <1>9, <3>2
      <4> QED BY <2>2, <4>1, <4>2, KeptSplits
    <3> QED BY <3>1, <3>2
  <2>3. WordsStep
    BY <2>2 DEF WordsStep
  <2> QED BY <1>10, <1>11, <2>3 DEF Fine
<1> QED BY <1>12, <1>13

LEMMA DeleteArrivesFine ==
  ASSUME DocInv, steps' \in 0..MaxSteps, NEW d \in Doc, DeleteArrives(d)
  PROVE  Fine
<1> DEFINE left == page.deletes \ {d}
<1>1. /\ page \in Page /\ Panel(page) /\ page' = [page EXCEPT !.deletes = left]
      /\ UNCHANGED <<home, session, event, loads, creates, fresh, owed>>
      /\ server' = [server EXCEPT ![d].state = IF @ = "live" THEN "deleted" ELSE @]
  BY DEF DeleteArrives, DocInv, Typed
<1>2. left \in SUBSET Doc
  BY <1>1 DEF Page
<1> HIDE DEF left
<1>3. page' \in Page
  BY <1>1, <1>2 DEF Page
<1>4. /\ page'.docs = page.docs /\ page'.active = page.active /\ page'.editor = page.editor
      /\ page'.puts = page.puts /\ page'.mounted = page.mounted /\ page'.text = page.text
      /\ page'.open = page.open /\ page'.chip = page.chip /\ page'.review = page.review
  BY <1>1 DEF Page
<1>5. server' \in Store
  BY <1>1 DEF DocInv, Typed, Store
<1>6. \A x \in Doc : /\ server'[x].state = "absent" => server[x].state = "absent"
                     /\ server'[x].text = server[x].text
  BY <1>1 DEF DocInv, Typed, Store
<1>7. DocInv'
  <2>1. Typed'
    BY <1>1, <1>3, <1>5 DEF DocInv, Typed
  <2>2. AbsentBlank'
    BY <1>6 DEF DocInv, AbsentBlank
  <2> QED BY <1>1, <1>4, <2>1, <2>2 DEF DocInv, Panel
<1>8. OwnStep
  <2>1. \A x \in Doc : OwnIn(page, x) => OwnIn(page', x)
    BY <1>4 DEF OwnIn
  <2> QED BY <1>6, <2>1, OwnSplits DEF OwnStep
<1>9. WordsStep
  <2>1. \A x \in Doc : HoldsIn(page, x, owed[x]) => HoldsIn(page', x, owed[x])
    BY <1>4 DEF HoldsIn
  <2> QED BY <1>1, <1>6, <2>1, KeptSplits DEF WordsStep
<1> QED BY <1>7, <1>8, <1>9 DEF Fine

\* A step that leaves page, store and history alone.
LEMMA AsideFine ==
  ASSUME DocInv, steps' \in 0..MaxSteps, UNCHANGED <<home, page, server, owed>>,
         session' \in Session, event' \in Events, loads' \subseteq Loads,
         creates' \subseteq Creates, fresh' \in 0..MaxTexts
  PROVE  Fine
<1>1. DocInv'
  BY DEF DocInv, Typed, AbsentBlank
<1>2. OwnKept(page, page') /\ WordsKept(page, page')
  BY DEF OwnKept, WordsKept
<1> QED BY <1>1, <1>2, OwnFromPage, WordsFromPage DEF Fine, DocInv

LEMMA NewDocumentFine ==
  ASSUME DocInv, steps' \in 0..MaxSteps, NewDocument
  PROVE  Fine
<1> DEFINE s == IF page.active \in page.docs THEN home[page.active] ELSE page.last
           c == [kind |-> "button", text |-> EmptyPane, wasEmpty |-> page.active = NoDoc, sess |-> s]
<1>1. /\ creates' = creates \cup {c}
      /\ UNCHANGED <<home, session, page, server, event, loads, fresh, owed>>
  BY DEF NewDocument
<1>4. s \in Session
  BY PageFields DEF DocInv, Typed
<1> HIDE DEF s
<1>2. c \in Creates
  BY <1>4, TextsMade DEF Creates
<1> HIDE DEF c
<1>3. creates' \subseteq Creates
  BY <1>1, <1>2 DEF DocInv, Typed
<1> QED BY <1>1, <1>3, AsideFine DEF DocInv, Typed

LEMMA CreateFailsFine ==
  ASSUME DocInv, steps' \in 0..MaxSteps, NEW c \in creates, CreateFails(c)
  PROVE  Fine
<1>1. /\ creates' \subseteq creates
      /\ UNCHANGED <<home, session, page, server, event, loads, fresh, owed>>
  BY DEF CreateFails
<1>2. creates' \subseteq Creates
  BY <1>1 DEF DocInv, Typed
<1> QED BY <1>1, <1>2, AsideFine DEF DocInv, Typed

LEMMA NoEventTyped == NoEvent \in Events
BY TextsMade, Bounds DEF NoEvent, Events

LEMMA SkipFine ==
  ASSUME DocInv, steps' \in 0..MaxSteps, SkipDocUpdate
  PROVE  Fine
<1>1. event' \in Events
  BY NoEventTyped DEF SkipDocUpdate
<1> QED BY <1>1, AsideFine DEF SkipDocUpdate, DocInv, Typed

LEMMA OpenConversationFine ==
  ASSUME DocInv, steps' \in 0..MaxSteps, NEW s \in Session, OpenConversation(s)
  PROVE  Fine
<1>1. /\ page \in Page /\ Panel(page) /\ session' = s
      /\ UNCHANGED <<home, server, event, creates, fresh, owed>>
  BY DEF OpenConversation, DocInv, Typed
<1>2. CASE loads' \subseteq Loads /\ page' = page
  BY <1>1, <1>2, AsideFine DEF DocInv, Typed
<1>3. CASE loads' = loads /\ page' = ClosePanel(page, FALSE)
  <2>1. page' \in Page /\ Panel(page') /\ OwnKept(page, page') /\ WordsKept(page, page')
    BY <1>1, <1>3, CloseOwn
  <2>2. DocInv'
    BY <1>1, <1>3, <2>1 DEF DocInv, Typed, AbsentBlank
  <2> QED BY <1>1, <2>1, <2>2, OwnFromPage, WordsFromPage DEF Fine, DocInv
<1>4. \/ loads' \subseteq Loads /\ page' = page
      \/ loads' = loads /\ page' = page
      \/ loads' = loads /\ page' = ClosePanel(page, FALSE)
  <2>1. [sess |-> s, restore |-> TRUE, sent |-> FALSE, open |-> FALSE] \in Loads
    BY DEF Loads
  <2> QED BY <2>1 DEF OpenConversation, DocInv, Typed
<1>5. loads \subseteq Loads
  BY DEF DocInv, Typed
<1> QED BY <1>2, <1>3, <1>4, <1>5

LEMMA LoadFine ==
  ASSUME DocInv, steps' \in 0..MaxSteps, NEW s \in Session, NEW restore \in BOOLEAN,
         Load(s, restore), Lossy
  PROVE  Fine
<1> DEFINE docs == InConversation(page, s)
           l == [sess |-> s, restore |-> restore, sent |-> TRUE, open |-> s \in page.shown]
<1>1. /\ page \in Page /\ Panel(page)
      /\ UNCHANGED <<home, session, server, event, creates, fresh, owed>>
      /\ page' = [page EXCEPT !.docs = docs, !.active = NoDoc, !.last = s]
  BY DEF Load, DocInv, Typed
<1>2. docs \subseteq page.docs /\ docs \in SUBSET Doc
  BY <1>1, PageFields DEF InConversation
<1>3. l \in Loads
  BY DEF Loads
<1>4. loads' \subseteq loads \cup {l}
  BY DEF Load
<1> HIDE DEF docs, l
<1>5. page' \in Page
  BY <1>1, <1>2 DEF Page
<1>6. /\ page'.docs = docs /\ page'.active = NoDoc /\ page'.editor = page.editor
      /\ page'.puts = page.puts /\ page'.mounted = page.mounted /\ page'.text = page.text
      /\ page'.open = page.open /\ page'.chip = page.chip /\ page'.review = page.review
  BY <1>1 DEF Page
<1>7. loads' \subseteq Loads
  BY <1>3, <1>4 DEF DocInv, Typed
<1>8. DocInv'
  <2>1. Typed'
    BY <1>1, <1>5, <1>7 DEF DocInv, Typed
  <2> QED BY <1>1, <1>6, <2>1 DEF DocInv, AbsentBlank, Panel
<1>9. OwnKept(page, page')
  BY <1>2, <1>6, DocAssumption DEF OwnKept, OwnIn
<1> QED BY <1>1, <1>8, <1>9, OwnFromPage DEF Fine

LEMMA StreamDocDeltaFine ==
  ASSUME DocInv, steps' \in 0..MaxSteps, StreamDocDelta
  PROVE  Fine
<1> DEFINE d == page.stream
           text == IF d \in page.docs THEN Mixed(d) ELSE page.text[d]
           shown == IF page.active = d /\ page.mounted THEN Mixed(d) ELSE page.editor
<1>1. /\ page \in Page /\ Panel(page) /\ d # NoDoc /\ owed' = [owed EXCEPT ![d] = 0]
      /\ UNCHANGED <<home, session, server, event, loads, creates, fresh>>
      /\ page' = [page EXCEPT !.text[d] = text, !.editor = shown]
  BY DEF StreamDocDelta, DocInv, Typed
<1>2. d \in Doc
  BY <1>1, PageFields
<1>3. /\ text \in Texts /\ shown \in Texts
      /\ d \in page.docs => text.of = d
      /\ shown = page.editor \/ (page.active = d /\ shown.of = d)
  BY <1>1, <1>2, PageFields, TextsMade
<1> HIDE DEF text, shown
<1>4. page' \in Page
  BY <1>1, <1>2, <1>3 DEF Page
<1>5. /\ page'.docs = page.docs /\ page'.active = page.active /\ page'.editor = shown
      /\ page'.puts = page.puts /\ page'.mounted = page.mounted
      /\ page'.open = page.open /\ page'.chip = page.chip /\ page'.review = page.review
      /\ \A x \in Doc : page'.text[x] = IF x = d THEN text ELSE page.text[x]
  BY <1>1, <1>2 DEF Page
<1>6. DocInv'
  <2>1. owed' \in [Doc -> 0..MaxTexts]
    BY <1>1, <1>2, Bounds DEF DocInv, Typed
  <2>2. Typed'
    BY <1>1, <1>4, <2>1 DEF DocInv, Typed
  <2> QED BY <1>1, <1>5, <2>2 DEF DocInv, AbsentBlank, Panel
<1>7. OwnKept(page, page')
  BY <1>3, <1>5 DEF OwnKept, OwnIn
<1>8. WordsStep
  <2>1. \A x \in Doc : owed'[x] = IF x = d THEN 0 ELSE owed[x]
    BY <1>1 DEF DocInv, Typed
  <2>2. \A x \in Doc \ {d} : HoldsIn(page, x, owed[x]) => HoldsIn(page', x, owed[x])
    BY <1>3, <1>5 DEF HoldsIn
  <2>3. ASSUME NEW x \in Doc, Kept(x)
        PROVE  Kept(x)'
    BY <1>1, <2>1, <2>2, <2>3, KeptSplits
  <2> QED BY <2>3 DEF WordsStep
<1> QED BY <1>1, <1>6, <1>7, <1>8, OwnFromPage DEF Fine

\* What the agent writes is in the store, not yet in the panel.
LEMMA AgentWritesFine ==
  ASSUME DocInv, steps' \in 0..MaxSteps, NEW d \in Doc, AgentWrites(d)
  PROVE  Fine
<1> DEFINE t == [of |-> d, n |-> fresh']
<1>1. /\ fresh < MaxTexts /\ fresh' = fresh + 1
      /\ event' = [text |-> t, left |-> MaxSends]
      /\ UNCHANGED <<home, session, page, loads, creates>>
      /\ owed' = [owed EXCEPT ![d] = IF server[d].text.n = @ THEN 0 ELSE @]
  BY DEF AgentWrites
<1>2. fresh' \in 0..MaxTexts /\ fresh' \in 0..Mixture
  BY <1>1, Bounds DEF DocInv, Typed
<1>3. t \in Texts /\ t.of = d
  BY <1>2, TextMade
<1>4. server' = [server EXCEPT ![d] = [text |-> t, state |-> "live"]]
  BY <1>1 DEF AgentWrites
<1> HIDE DEF t
<1>5. event' \in Events
  BY <1>1, <1>3, Bounds DEF Events
<1>6. server' \in Store
  BY <1>3, <1>4 DEF DocInv, Typed, Store
<1>7. \A x \in Doc : server'[x] = IF x = d THEN [text |-> t, state |-> "live"] ELSE server[x]
  BY <1>4 DEF DocInv, Typed, Store
<1>8. owed' \in [Doc -> 0..MaxTexts]
  BY <1>1, Bounds DEF DocInv, Typed
<1>9. \A x \in Doc : owed'[x] = IF x = d /\ server[d].text.n = owed[d] THEN 0 ELSE owed[x]
  BY <1>1 DEF DocInv, Typed
<1>10. DocInv'
  <2>1. Typed'
    BY <1>1, <1>2, <1>5, <1>6, <1>8 DEF DocInv, Typed
  <2>2. AbsentBlank'
    BY <1>7 DEF DocInv, AbsentBlank
  <2> QED BY <1>1, <2>1, <2>2 DEF DocInv
<1>11. OwnStep
  BY <1>1, <1>3, <1>7, OwnSplits DEF OwnStep
<1>12. WordsStep
  <2>1. ASSUME NEW x \in Doc, Kept(x)
        PROVE  Kept(x)'
    BY <1>1, <1>7, <1>9, <2>1, KeptSplits
  <2> QED BY <2>1 DEF WordsStep
<1> QED BY <1>10, <1>11, <1>12 DEF Fine

-----------------------------------------------------------------------------
(* Documents that are created.                                              *)

LEMMA AddedDoes ==
  ASSUME NEW p \in Page, NEW d \in Doc, NEW t \in Texts, NEW q, q = Added(p, d, t)
  PROVE  /\ q \in Page /\ q.docs = p.docs \cup {d}
         /\ \A x \in Doc : q.text[x] = IF x = d THEN t ELSE p.text[x]
         /\ q.active = p.active /\ q.editor = p.editor /\ q.review = p.review
         /\ q.puts = p.puts /\ SameFrame(p, q) /\ q.temp = p.temp
<1> DEFINE docs == p.docs \cup {d}
           text == [p.text EXCEPT ![d] = t]
<1>1. q = [p EXCEPT !.docs = docs, !.text = text]
  BY DEF Added
<1>2. docs \in SUBSET Doc /\ text \in [Doc -> Texts]
  BY PageFields
<1>3. docs = p.docs \cup {d} /\ \A x \in Doc : text[x] = IF x = d THEN t ELSE p.text[x]
  BY PageFields
<1> HIDE DEF docs, text
<1>4. q \in Page
  BY <1>1, <1>2 DEF Page
<1>5. /\ q.docs = docs /\ q.active = p.active /\ q.editor = p.editor /\ q.review = p.review
      /\ q.puts = p.puts /\ SameFrame(p, q) /\ q.temp = p.temp /\ q.text = text
  BY <1>1 DEF Page, SameFrame
<1> QED BY <1>3, <1>4, <1>5

LEMMA OfDoes ==
  ASSUME NEW d \in Doc, NEW t \in Texts
  PROVE  /\ Of(d, t) \in Texts /\ Of(d, t).n = t.n
         /\ t.of = NoDoc => Of(d, t).of = d /\ t.n \in 0..MaxTexts
BY DocAssumption, Bounds DEF Of, Texts, Text

LEMMA NewDocumentCreatedFine ==
  ASSUME DocInv, steps' \in 0..MaxSteps, NEW c \in creates, NewDocumentCreated(c)
  PROVE  Fine
<1>1. /\ page \in Page /\ Panel(page) /\ creates' \subseteq creates
      /\ UNCHANGED <<home, session, event, loads, fresh>>
  BY DEF NewDocumentCreated, DocInv, Typed
<1>2. PICK d \in Unused(c.sess), untitled \in BOOLEAN :
       LET p == OpenPanel(Added(page, d, Empty(d)))
           q == SwitchToDoc(p, d, untitled)
           typed == c.wasEmpty /\ ~Blank(p.editor)
       IN /\ server' = [server EXCEPT ![d] = [text |-> Empty(d), state |-> "live"]]
          /\ page' = IF typed THEN [q EXCEPT !.editor = Of(d, p.editor), !.timer = TRUE,
                                             !.text[d] = Of(d, p.editor)]
                              ELSE q
          /\ owed' = IF typed /\ p.editor.of = NoDoc THEN [owed EXCEPT ![d] = p.editor.n] ELSE owed
  BY DEF NewDocumentCreated
<1> DEFINE e == Empty(d)
           a == Added(page, d, e)
           p == OpenPanel(a)
           q == SwitchToDoc(p, d, untitled)
           typed == c.wasEmpty /\ ~Blank(p.editor)
           t == Of(d, p.editor)
<1>3. d \in Doc /\ d \notin page.docs /\ server[d].state = "absent"
  BY DEF Unused
<1>4. e \in Texts /\ e.of = d
  BY <1>3, TextsMade
<1>5. /\ server' = [server EXCEPT ![d] = [text |-> e, state |-> "live"]]
      /\ typed => page' = [q EXCEPT !.editor = t, !.timer = TRUE, !.text[d] = t]
      /\ ~typed => page' = q
      /\ owed' = IF typed /\ p.editor.of = NoDoc THEN [owed EXCEPT ![d] = p.editor.n] ELSE owed
  BY <1>2
<1> HIDE DEF typed, e
<1>6. /\ a \in Page /\ a.docs = page.docs \cup {d}
      /\ \A x \in Doc : a.text[x] = IF x = d THEN e ELSE page.text[x]
      /\ a.active = page.active /\ a.editor = page.editor /\ a.review = page.review
      /\ a.puts = page.puts /\ SameFrame(page, a)
  BY <1>1, <1>3, <1>4, AddedDoes
<1> HIDE DEF a
<1>7. /\ p \in Page /\ p.open
      /\ a.open => p = a
      /\ p.docs = a.docs /\ p.text = a.text /\ p.puts = a.puts /\ p.review = a.review
      /\ p.active \in {a.active, NoDoc}
      /\ ~a.open => p.mounted /\ p.chip = NoDoc
  BY <1>6, OpenDoes
<1>8. p.open /\ p.mounted /\ p.chip = NoDoc
  BY <1>1, <1>6, <1>7 DEF Panel, SameFrame
<1> HIDE DEF p
<1>9. q \in Page /\ SameFrame(p, q)
  BY <1>3, <1>7, SwitchOwn
<1>10. PICK u \in Texts : Switched(p, q, d, u)
  BY <1>3, <1>6, <1>7, SwitchDoes
<1>11. q.active = d /\ d \in q.docs /\ q.open /\ q.mounted /\ q.chip = NoDoc /\ p.puts \subseteq q.puts
  BY <1>8, <1>10 DEF Switched, SameFrame, Sent
<1>12. /\ t \in Texts /\ t.n = p.editor.n
       /\ p.editor.of = NoDoc => p.editor.n \in 0..MaxTexts
  BY <1>3, <1>7, PageFields, OfDoes
<1>13. d # page.active => WordsKept(p, q)
  BY <1>3, <1>6, <1>7, <1>8, DocAssumption, SwitchOwn
<1> HIDE DEF q, t
<1>14. /\ page' \in Page /\ page'.docs = q.docs /\ page'.active = q.active /\ page'.open = q.open
       /\ page'.mounted = q.mounted /\ page'.chip = q.chip /\ page'.puts = q.puts
       /\ page'.editor = IF typed THEN t ELSE q.editor
       /\ \A x \in Doc : page'.text[x] = IF typed /\ x = d THEN t ELSE q.text[x]
  <2>1. CASE ~typed
    BY <1>5, <1>9, <2>1
  <2>2. CASE typed
    <3>1. page' = [q EXCEPT !.editor = t, !.timer = TRUE, !.text[d] = t]
      BY <1>5, <2>2
    <3>2. page' \in Page
      BY <1>3, <1>9, <1>12, <3>1 DEF Page
    <3>3. /\ page'.docs = q.docs /\ page'.active = q.active /\ page'.open = q.open
          /\ page'.mounted = q.mounted /\ page'.chip = q.chip /\ page'.puts = q.puts
          /\ page'.editor = t
      BY <1>9, <3>1 DEF Page
    <3>4. \A x \in Doc : page'.text[x] = IF x = d THEN t ELSE q.text[x]
      BY <1>9, <3>1 DEF Page
    <3> QED BY <2>2, <3>2, <3>3, <3>4
  <2> QED BY <2>1, <2>2
<1>15. Panel(page')
  BY <1>11, <1>14 DEF Panel
<1>16. server' \in Store /\ \A x \in Doc : server'[x] = IF x = d THEN [text |-> e, state |-> "live"]
                                                        ELSE server[x]
  BY <1>3, <1>4, <1>5 DEF DocInv, Typed, Store
<1>17. /\ owed' \in [Doc -> 0..MaxTexts]
       /\ \A x \in Doc : owed'[x] = IF x = d /\ typed /\ p.editor.of = NoDoc THEN p.editor.n
                                    ELSE owed[x]
  BY <1>3, <1>5, <1>12 DEF DocInv, Typed
<1>18. DocInv'
  <2>1. Typed'
    BY <1>1, <1>14, <1>16, <1>17 DEF DocInv, Typed
  <2>2. AbsentBlank'
    BY <1>16 DEF DocInv, AbsentBlank
  <2> QED BY <1>15, <2>1, <2>2 DEF DocInv
<1>19. Stray
  BY DEF Stray
<1>20. CASE ~page.open /\ page.active # NoDoc
  <2>1. Lossy
    BY <1>11, <1>14, <1>20 DEF Lossy, Reopened
  <2> QED BY <1>18, <1>19, <2>1 DEF Fine
\* The panel was open, or showed nothing: what the editor held is saved first.
<1>21. CASE page.open \/ page.active = NoDoc
  <2>1. d # page.active /\ (page.open => p.active = page.active /\ p.editor = page.editor)
    BY <1>1, <1>3, <1>6, <1>7, <1>21, DocAssumption DEF Panel, SameFrame
  <2>2. ~page.open => p.active = NoDoc /\ page.active = NoDoc
    BY <1>6, <1>7, <1>21
  <2>3. ASSUME NEW x \in Doc \ {d}, HoldsIn(page, x, owed[x]), owed[x] \in Nat \ {0}
        PROVE  HoldsIn(page', x, owed[x]) \/ (page.review.on /\ x = page.active)
    <3>1. HoldsIn(p, x, owed[x])
      BY <1>6, <1>7, <2>1, <2>2, <2>3, DocAssumption DEF HoldsIn
    <3>2. HoldsIn(q, x, owed[x]) \/ (p.review.on /\ x = p.active)
      BY <1>13, <2>1, <2>3, <3>1 DEF WordsKept
    <3>3. p.review.on /\ x = p.active => page.review.on /\ x = page.active
      BY <1>6, <1>7, <2>1, <2>2, DocAssumption
    <3>4. HoldsIn(q, x, owed[x]) => HoldsIn(page', x, owed[x])
      BY <1>11, <1>14 DEF HoldsIn
    <3> QED BY <3>2, <3>3, <3>4
  <2>4. ASSUME Kept(d)
        PROVE  Kept(d)'
    <3>1. CASE typed /\ p.editor.of = NoDoc
      <4>1. HoldsIn(page', d, owed'[d])
        BY <1>3, <1>11, <1>12, <1>14, <1>17, <3>1 DEF HoldsIn
      <4> QED BY <1>3, <4>1, KeptSplits
    <3>2. CASE ~(typed /\ p.editor.of = NoDoc)
      <4>1. owed'[d] = owed[d]
        BY <1>3, <1>17, <3>2
      <4>2. server[d].text.n = owed[d] => owed[d] = 0
        BY <1>3 DEF DocInv, AbsentBlank
      <4>3. HoldsIn(page, d, owed[d]) => HoldsIn(page', d, owed[d])
        BY <1>3, <1>6, <1>7, <1>11, <1>14 DEF HoldsIn
      <4> QED BY <1>3, <2>4, <4>1, <4>2, <4>3, KeptSplits
    <3> QED BY <3>1, <3>2
  <2>5. ASSUME NEW x \in Doc, Kept(x), ~(page.review.on /\ x = page.active)
        PROVE  Kept(x)'
    <3>1. CASE x = d
      BY <2>4, <2>5, <3>1
    <3>2. CASE x # d
      <4>1. owed'[x] = owed[x] /\ server'[x] = server[x] /\ owed[x] \in Nat
        BY <1>16, <1>17, <3>2, Bounds DEF DocInv, Typed
      <4> QED BY <2>3, <2>5, <3>2, <4>1, KeptSplits
    <3> QED BY <3>1, <3>2
  <2>6. WordsStep
    BY <2>5 DEF WordsStep
  <2> QED BY <1>18, <1>19, <2>6 DEF Fine
<1> QED BY <1>20, <1>21

\* What the answer brings is typed; the new document is the active one.
LEMMA AutoCreatedFine ==
  ASSUME DocInv, steps' \in 0..MaxSteps, NEW c \in creates, AutoCreated(c)
  PROVE  Fine
<1>1. /\ page \in Page /\ Panel(page) /\ creates' \subseteq creates /\ c \in Creates
      /\ UNCHANGED <<home, session, event, loads, fresh>>
  BY DEF AutoCreated, DocInv, Typed
<1>2. PICK d \in Unused(c.sess) :
       /\ server' = [server EXCEPT ![d] = [text |-> Of(d, c.text), state |-> "live"]]
       /\ page' = [Added(page, d, Of(d, c.text)) EXCEPT
                     !.active = d, !.editor = IF page.mounted THEN Of(d, @) ELSE @, !.timer = TRUE]
       /\ owed' = [owed EXCEPT ![d] = IF page.editor.of = NoDoc THEN page.editor.n ELSE c.text.n]
  BY DEF AutoCreated
<1> DEFINE t == Of(d, c.text)
           a == Added(page, d, t)
           shown == IF page.mounted THEN Of(d, page.editor) ELSE page.editor
           n == IF page.editor.of = NoDoc THEN page.editor.n ELSE c.text.n
<1>3. d \in Doc
  BY DEF Unused
<1>4. /\ t \in Texts /\ shown \in Texts /\ n \in 0..MaxTexts
  BY <1>1, <1>3, PageFields, OfDoes DEF Creates
<1> HIDE DEF t
<1>5. a \in Page /\ a.docs = page.docs \cup {d} /\ SameFrame(page, a) /\ a.editor = page.editor
  BY <1>1, <1>3, <1>4, AddedDoes
<1>6. page' = [a EXCEPT !.active = d, !.editor = shown, !.timer = TRUE]
  BY <1>2, <1>5 DEF t
<1>7. owed' = [owed EXCEPT ![d] = n] /\ server' = [server EXCEPT ![d] = [text |-> t, state |-> "live"]]
  BY <1>2 DEF t
<1> HIDE DEF a, shown, n
<1>8. page' \in Page
  BY <1>3, <1>4, <1>5, <1>6 DEF Page
<1>9. /\ page'.docs = a.docs /\ page'.active = d /\ page'.open = a.open
      /\ page'.mounted = a.mounted /\ page'.chip = a.chip
  BY <1>5, <1>6 DEF Page
<1>10. Panel(page')
  BY <1>1, <1>5, <1>9 DEF Panel, SameFrame
<1>11. server' \in Store /\ owed' \in [Doc -> 0..MaxTexts]
  BY <1>3, <1>4, <1>7 DEF DocInv, Typed, Store
<1>12. DocInv'
  <2>1. Typed'
    BY <1>1, <1>8, <1>11 DEF DocInv, Typed
  <2>2. AbsentBlank'
    BY <1>3, <1>7 DEF DocInv, AbsentBlank, Typed, Store
  <2> QED BY <1>10, <2>1, <2>2 DEF DocInv
<1>13. Stray /\ Lossy
  BY DEF Stray, Lossy
<1> QED BY <1>12, <1>13 DEF Fine

-----------------------------------------------------------------------------
(* Tabs that come back, and the agent.                                      *)

LEMMA LoadedDoes ==
  ASSUME Typed, NEW s \in Session, NEW p, p = Loaded(page, s)
  PROVE  /\ p \in Page /\ p.docs = page.docs \cup Live(s) /\ Live(s) \subseteq Doc
         /\ p.active = page.active /\ SameFrame(page, p)
<1> DEFINE docs == page.docs \cup Live(s)
           text == [d \in Doc |-> IF d \in Live(s) \ page.docs THEN server[d].text ELSE page.text[d]]
<1>1. page \in Page /\ server \in Store
  BY DEF Typed
<1>2. Live(s) \subseteq Doc
  BY DEF Live
<1>3. docs \in SUBSET Doc
  BY <1>1, <1>2, PageFields
<1>4. text \in [Doc -> Texts]
  BY <1>1, PageFields DEF Store
<1>5. p = [page EXCEPT !.docs = docs, !.text = text]
  BY DEF Loaded
<1>6. docs = page.docs \cup Live(s)
  OBVIOUS
<1> HIDE DEF docs, text
<1>7. p \in Page
  BY <1>1, <1>3, <1>4, <1>5 DEF Page
<1>8. p.docs = docs /\ p.active = page.active /\ SameFrame(page, p)
  BY <1>1, <1>5 DEF Page, SameFrame
<1> QED BY <1>2, <1>6, <1>7, <1>8

LEMMA EmptyEditorDoes ==
  ASSUME NEW p \in Page, Panel(p), NEW q, q = EmptyEditor(p)
  PROVE  q \in Page /\ Panel(q)
<1> DEFINE o == OpenPanel(p)
<1>1. o \in Page /\ (p.open => o = p) /\ (~p.open => o.mounted /\ o.chip = NoDoc)
  BY OpenDoes
<1>2. q = [o EXCEPT !.active = NoDoc, !.editor = EmptyPane]
  BY DEF EmptyEditor
<1> HIDE DEF o
<1>3. q \in Page
  BY <1>1, <1>2, TextsMade DEF Page
<1>4. q.active = NoDoc /\ q.mounted = o.mounted /\ q.chip = o.chip
  BY <1>1, <1>2 DEF Page
<1>5. Panel(q)
  BY <1>1, <1>4 DEF Panel
<1> QED BY <1>3, <1>5

LEMMA LoadReplyFine ==
  ASSUME DocInv, steps' \in 0..MaxSteps, NEW l \in loads, LoadReply(l)
  PROVE  Fine
<1> DEFINE s == l.sess
           p == Loaded(page, s)
<1>1. /\ Typed /\ page \in Page /\ Panel(page) /\ s \in Session /\ loads' \subseteq loads
      /\ UNCHANGED <<home, session, server, event, creates, fresh, owed>>
  BY DEF LoadReply, DocInv, Typed, Loads
<1>2. /\ p \in Page /\ p.docs = page.docs \cup Live(s) /\ Live(s) \subseteq Doc
      /\ p.active = page.active /\ SameFrame(page, p)
  BY <1>1, LoadedDoes
<1>3. \/ page' = page
      \/ page' = EmptyEditor(page)
      \/ \E d \in Live(s), untitled \in BOOLEAN : page' = SwitchToDoc(OpenPanel(p), d, untitled)
      \/ \E d \in Live(s) :
           LET q == [p EXCEPT !.active = d, !.chip = d, !.shown = @ \ {s}]
           IN page' = IF page.open THEN ClosePanel(SwitchToDoc(q, d, FALSE), TRUE) ELSE q
  BY DEF LoadReply
<1> HIDE DEF p
<1>4. ASSUME page' = page
      PROVE  page' \in Page /\ Panel(page')
  BY <1>1, <1>4
<1>5. ASSUME page' = EmptyEditor(page)
      PROVE  page' \in Page /\ Panel(page')
  BY <1>1, <1>5, EmptyEditorDoes
<1>6. ASSUME NEW d \in Live(s), NEW untitled \in BOOLEAN,
             page' = SwitchToDoc(OpenPanel(p), d, untitled)
      PROVE  page' \in Page /\ Panel(page')
  <2> DEFINE q == OpenPanel(p)
  <2>1. /\ q \in Page /\ q.open /\ q.docs = p.docs /\ (p.open => q = p)
        /\ ~p.open => q.mounted /\ q.chip = NoDoc
    BY <1>2, OpenDoes
  <2>2. q.mounted /\ q.chip = NoDoc
    BY <1>1, <1>2, <2>1 DEF Panel, SameFrame
  <2> HIDE DEF q
  <2>3. d \in Doc /\ d \in q.docs /\ page' = SwitchToDoc(q, d, untitled)
    BY <1>2, <1>6, <2>1 DEF q
  <2>4. page' \in Page /\ \E t \in Texts : Switched(q, page', d, t)
    BY <2>1, <2>3, SwitchDoes
  <2>5. Panel(page')
    BY <2>2, <2>4 DEF Panel, Switched, SameFrame
  <2> QED BY <2>4, <2>5
<1>7. ASSUME NEW d \in Live(s), NEW q,
             q = [p EXCEPT !.active = d, !.chip = d, !.shown = @ \ {s}],
             page' = IF page.open THEN ClosePanel(SwitchToDoc(q, d, FALSE), TRUE) ELSE q
      PROVE  page' \in Page /\ Panel(page')
  <2> DEFINE seen == p.shown \ {s}
             w == SwitchToDoc(q, d, FALSE)
  <2>1. seen \in SUBSET Session /\ d \in Doc /\ d \in p.docs
    BY <1>2 DEF Page
  <2>2. q = [p EXCEPT !.active = d, !.chip = d, !.shown = seen]
    BY <1>7
  <2> HIDE DEF seen
  <2>3. q \in Page
    BY <1>2, <2>1, <2>2 DEF Page
  <2>4. q.active = d /\ q.docs = p.docs /\ q.open = p.open /\ q.mounted = p.mounted
    BY <1>2, <2>2 DEF Page
  <2>5. CASE ~page.open
    <3>1. page' = q /\ ~q.open
      BY <1>2, <1>7, <2>4, <2>5 DEF SameFrame
    <3> QED BY <2>1, <2>3, <2>4, <3>1 DEF Panel
  <2>6. CASE page.open
    <3>1. page' = ClosePanel(w, TRUE)
      BY <1>7, <2>6
    <3>2. w \in Page /\ \E t \in Texts : Switched(q, w, d, t)
      BY <2>1, <2>3, <2>4, SwitchDoes
    <3>3. w.open /\ w.active = d /\ d \in w.docs
      BY <1>2, <2>4, <2>6, <3>2 DEF Switched, SameFrame
    <3> HIDE DEF w
    <3>4. page' \in Page /\ ~page'.open /\ page'.docs = w.docs /\ page'.active = w.active
      BY <3>1, <3>2, CloseDoes
    <3> QED BY <3>3, <3>4 DEF Panel
  <2> QED BY <2>5, <2>6
<1>8. page' \in Page /\ Panel(page')
  BY <1>3, <1>4, <1>5, <1>6, <1>7
<1>9. DocInv'
  <2>1. Typed'
    BY <1>1, <1>8 DEF Typed
  <2> QED BY <1>1, <1>8, <2>1 DEF DocInv, AbsentBlank
<1>10. Stray /\ Lossy
  BY DEF Stray, Lossy
<1> QED BY <1>9, <1>10 DEF Fine

LEMMA LoadFailsFine ==
  ASSUME DocInv, steps' \in 0..MaxSteps, NEW l \in loads, LoadFails(l)
  PROVE  Fine
<1>1. /\ page \in Page /\ Panel(page) /\ loads' \subseteq loads /\ page' = EmptyEditor(page)
      /\ UNCHANGED <<home, session, server, event, creates, fresh, owed>>
  BY DEF LoadFails, DocInv, Typed
<1>2. page' \in Page /\ Panel(page')
  BY <1>1, EmptyEditorDoes
<1>3. DocInv'
  <2>1. Typed'
    BY <1>1, <1>2 DEF DocInv, Typed
  <2> QED BY <1>1, <1>2, <2>1 DEF DocInv, AbsentBlank
<1>4. Stray /\ Lossy
  BY DEF Stray, Lossy
<1> QED BY <1>3, <1>4 DEF Fine

LEMMA StreamDocOpenFine ==
  ASSUME DocInv, steps' \in 0..MaxSteps, NEW d \in Doc, StreamDocOpen(d)
  PROVE  Fine
<1> DEFINE p == ExitDiffMode(page, TRUE)
           new == d \notin p.docs
           q == IF new THEN [Added(p, d, Empty(d)) EXCEPT !.temp = @ \cup {d}] ELSE p
           r == [q EXCEPT !.active = d, !.stream = d]
           o == OpenPanel(r)
           shown == IF new THEN Empty(d) ELSE EmptyPane
<1>1. /\ page \in Page /\ Panel(page) /\ owed' = [owed EXCEPT ![d] = 0]
      /\ UNCHANGED <<home, session, server, event, loads, creates, fresh>>
      /\ page' = p \/ page' = [o EXCEPT !.editor = shown]
  BY DEF StreamDocOpen, DocInv, Typed
<1>2. p \in Page /\ Panel(p)
  BY <1>1, ExitOwn
<1> HIDE DEF p
<1>3. shown \in Texts
  BY TextsMade
<1> HIDE DEF shown
<1>4. q \in Page /\ d \in q.docs /\ SameFrame(p, q)
  <2>1. CASE ~new
    BY <1>2, <2>1 DEF SameFrame
  <2>2. CASE new
    <3> DEFINE a == Added(p, d, Empty(d))
               temp == a.temp \cup {d}
    <3>1. a \in Page /\ a.docs = p.docs \cup {d} /\ SameFrame(p, a)
      BY <1>2, TextsMade, AddedDoes
    <3>2. q = [a EXCEPT !.temp = temp]
      BY <2>2
    <3> HIDE DEF a
    <3>3. temp \in SUBSET Doc
      BY <3>1 DEF Page
    <3> HIDE DEF temp, q
    <3>4. q \in Page
      BY <3>1, <3>2, <3>3 DEF Page
    <3>5. q.docs = a.docs /\ SameFrame(a, q)
      BY <3>1, <3>2 DEF Page, SameFrame
    <3> QED BY <3>1, <3>4, <3>5 DEF SameFrame
  <2> QED BY <2>1, <2>2
<1> HIDE DEF q
<1>5. r \in Page /\ r.active = d /\ r.docs = q.docs /\ SameFrame(p, [r EXCEPT !.stream = p.stream])
  BY <1>4 DEF Page, SameFrame
<1>6. r.open = p.open /\ r.mounted = p.mounted /\ r.chip = p.chip
  BY <1>4 DEF Page, SameFrame
<1> HIDE DEF r
<1>7. /\ o \in Page /\ o.docs = r.docs /\ o.active = d /\ (r.open => o = r)
      /\ ~r.open => o.mounted /\ o.chip = NoDoc
  BY <1>4, <1>5, OpenDoes
<1> HIDE DEF o
<1>8. Panel(o) /\ d \in o.docs
  BY <1>2, <1>4, <1>5, <1>6, <1>7 DEF Panel
<1>9. ASSUME page' = [o EXCEPT !.editor = shown]
      PROVE  page' \in Page /\ Panel(page')
  <2>1. page' \in Page
    BY <1>3, <1>7, <1>9 DEF Page
  <2>2. /\ page'.docs = o.docs /\ page'.active = o.active /\ page'.open = o.open
        /\ page'.mounted = o.mounted /\ page'.chip = o.chip
    BY <1>7, <1>9 DEF Page
  <2> QED BY <1>8, <2>1, <2>2 DEF Panel
<1>10. page' \in Page /\ Panel(page')
  BY <1>1, <1>2, <1>9
<1>11. DocInv'
  <2>1. owed' \in [Doc -> 0..MaxTexts]
    BY <1>1, Bounds DEF DocInv, Typed
  <2>2. Typed'
    BY <1>1, <1>10, <2>1 DEF DocInv, Typed
  <2> QED BY <1>1, <1>10, <2>2 DEF DocInv, AbsentBlank
<1>12. Stray /\ Lossy
  BY DEF Stray, Lossy
<1> QED BY <1>11, <1>12 DEF Fine

\* The agent's text in the panel: at once, animated or to be reviewed.
LEMMA DocUpdatedDoes ==
  ASSUME NEW p \in Page, Panel(p), NEW d \in Doc, NEW t \in Texts, t.of = d,
         NEW how \in {"review", "animation", "plain"}, NEW q, q = DocUpdated(p, d, t, how)
  PROVE  q \in Page /\ Panel(q)
<1> DEFINE old == IF d = p.active /\ p.mounted THEN p.editor ELSE EmptyPane
           a == Added(p, d, t)
           b == OpenPanel(a)
           temp == b.temp \ {d}
           opened == [b EXCEPT !.active = d, !.temp = temp]
           shown == IF p.open THEN t ELSE opened.editor
           moved == IF p.open THEN t ELSE opened.frames
           lines == Mixed(d)
           review == [on |-> TRUE, old |-> old, new |-> t, left |-> Chunks, taken |-> 0]
<1>1. \/ q = [opened EXCEPT !.editor = shown]
      \/ q = [opened EXCEPT !.locked = TRUE, !.editor = lines, !.review = review]
      \/ q = [opened EXCEPT !.frames = moved]
  BY DEF DocUpdated
<1>2. a \in Page /\ a.docs = p.docs \cup {d} /\ SameFrame(p, a) /\ a.active = p.active
  BY AddedDoes
<1> HIDE DEF a
<1>3. /\ b \in Page /\ b.open /\ b.docs = a.docs /\ (a.open => b = a)
      /\ ~a.open => b.mounted /\ b.chip = NoDoc
  BY <1>2, OpenDoes
<1> HIDE DEF b
<1>4. b.mounted /\ b.chip = NoDoc
  BY <1>2, <1>3 DEF Panel, SameFrame
<1>5. temp \in SUBSET Doc
  BY <1>3 DEF Page
<1> HIDE DEF temp
<1>6. opened \in Page
  BY <1>3, <1>5 DEF Page
<1>7. opened.docs = b.docs /\ opened.active = d /\ opened.open /\ opened.mounted /\ opened.chip = NoDoc
  BY <1>3, <1>4 DEF Page
<1> HIDE DEF opened
<1>8. shown \in Texts /\ moved \in Frames /\ old \in Texts /\ lines \in Texts
  BY <1>6, PageFields, TextsMade DEF Frames
<1> HIDE DEF shown, moved, old, lines
<1>9. review \in Reviews
  BY <1>8 DEF Reviews, Chunks
<1> HIDE DEF review
<1>10. /\ q \in Page /\ q.docs = opened.docs /\ q.active = opened.active /\ q.open = opened.open
       /\ q.mounted = opened.mounted /\ q.chip = opened.chip
  <2>1. CASE q = [opened EXCEPT !.editor = shown]
    BY <1>6, <1>8, <2>1 DEF Page
  <2>2. CASE q = [opened EXCEPT !.locked = TRUE, !.editor = lines, !.review = review]
    BY <1>6, <1>8, <1>9, <2>2 DEF Page
  <2>3. CASE q = [opened EXCEPT !.frames = moved]
    BY <1>6, <1>8, <2>3 DEF Page
  <2> QED BY <1>1, <2>1, <2>2, <2>3
<1>11. Panel(q)
  BY <1>2, <1>3, <1>7, <1>10 DEF Panel
<1> QED BY <1>10, <1>11

LEMMA HandleDocUpdateFine ==
  ASSUME DocInv, steps' \in 0..MaxSteps, HandleDocUpdate
  PROVE  Fine
<1> DEFINE s == [page EXCEPT !.stream = NoDoc]
           p == ExitDiffMode(s, TRUE)
<1>1. /\ page \in Page /\ Panel(page) /\ event \in Events /\ event # NoEvent
      /\ UNCHANGED <<home, session, server, loads, creates, fresh>>
      /\ event' = IF event.left = 1 THEN NoEvent ELSE [event EXCEPT !.left = @ - 1]
  BY DEF HandleDocUpdate, DocInv, Typed
<1>2. PICK d \in Targets(p, event.text.of), how \in {"review", "animation", "plain"} :
        /\ page' = DocUpdated(p, d, [event.text EXCEPT !.of = d], how)
        /\ owed' = [owed EXCEPT ![d] = 0]
  BY DEF HandleDocUpdate
<1> DEFINE t == [event.text EXCEPT !.of = d]
<1>3. s \in Page
  BY <1>1 DEF Page
<1>4. Panel(s)
  BY <1>1 DEF Panel, Page
<1> HIDE DEF s
<1>5. p \in Page /\ Panel(p)
  BY <1>3, <1>4, ExitOwn
<1> HIDE DEF p
<1>6. event.text \in Texts /\ event.text.of \in Doc /\ event.left \in 1..MaxSends
  BY <1>1, Bounds DEF Events
<1>7. d \in Doc
  BY <1>5, <1>6, PageFields DEF Targets, InConversation
<1>8. t \in Texts /\ t.of = d
  BY <1>6, <1>7, DocAssumption DEF Texts, Text
<1>9. page' = DocUpdated(p, d, t, how)
  BY <1>2
<1> HIDE DEF t
<1>10. page' \in Page /\ Panel(page')
  BY <1>5, <1>7, <1>8, <1>9, DocUpdatedDoes
<1>11. event' \in Events
  <2>1. CASE event.left = 1
    BY <1>1, <2>1, NoEventTyped
  <2>2. CASE event.left # 1
    <3>1. event' = [event EXCEPT !.left = @ - 1]
      BY <1>1, <2>2
    <3> QED BY <1>1, <1>6, <2>2, <3>1, Bounds DEF Events
  <2> QED BY <2>1, <2>2
<1>12. DocInv'
  <2>1. owed' \in [Doc -> 0..MaxTexts]
    BY <1>2, <1>7, Bounds DEF DocInv, Typed
  <2>2. Typed'
    BY <1>1, <1>10, <1>11, <2>1 DEF DocInv, Typed
  <2> QED BY <1>1, <1>10, <2>2 DEF DocInv, AbsentBlank
<1>13. Stray /\ Lossy
  BY DEF Stray, Lossy
<1> QED BY <1>12, <1>13 DEF Fine

-----------------------------------------------------------------------------
(* Together.                                                                *)

LEMMA DocInit == Init => DocInv
<1> SUFFICES ASSUME Init PROVE DocInv
  OBVIOUS
<1>1. PICK existing \in SUBSET Doc, shown \in Doc \cup {NoDoc} :
       LET text == [d \in Doc |-> IF d \in existing THEN Mixed(d) ELSE Empty(d)]
           opened == shown # NoDoc
           tabs == IF opened THEN {d \in existing : home[d] = session} ELSE {}
       IN /\ opened => shown \in tabs
          /\ server = [d \in Doc |-> [text |-> text[d],
                                      state |-> IF d \in existing THEN "live" ELSE "absent"]]
          /\ page = [docs |-> tabs, text |-> [d \in Doc |-> IF d \in tabs THEN text[d] ELSE Empty(d)],
                     active |-> shown, editor |-> IF opened THEN text[shown] ELSE EmptyPane,
                     locked |-> FALSE, open |-> opened, mounted |-> opened,
                     review |-> NoReview, exitDue |-> FALSE, frames |-> EmptyPane, stream |-> NoDoc,
                     temp |-> {}, chip |-> NoDoc, timer |-> FALSE, closes |-> 0, last |-> session,
                     shown |-> IF opened THEN {session} ELSE {}, puts |-> {}, deletes |-> {}]
  BY DEF Init
<1> DEFINE text == [d \in Doc |-> IF d \in existing THEN Mixed(d) ELSE Empty(d)]
           opened == shown # NoDoc
           tabs == IF opened THEN {d \in existing : home[d] = session} ELSE {}
           kept == [d \in Doc |-> IF d \in tabs THEN text[d] ELSE Empty(d)]
           pane == IF opened THEN text[shown] ELSE EmptyPane
           seen == IF opened THEN {session} ELSE {}
<1>2. /\ home \in [Doc -> Session] /\ session \in Session
      /\ event = NoEvent /\ loads = {} /\ creates = {} /\ fresh = 0 /\ steps = 0
      /\ owed = [d \in Doc |-> 0]
  BY DEF Init
<1>3. text \in [Doc -> Texts] /\ \A d \in Doc \ existing : text[d].n = 0
  BY TextsMade DEF Empty
<1>4. /\ tabs \in SUBSET Doc /\ (opened => shown \in tabs) /\ opened \in BOOLEAN
      /\ seen \in SUBSET Session
  BY <1>1, <1>2
<1>5. kept \in [Doc -> Texts] /\ pane \in Texts
  BY <1>3, <1>4, TextsMade
<1>6. server = [d \in Doc |-> [text |-> text[d],
                               state |-> IF d \in existing THEN "live" ELSE "absent"]]
  BY <1>1
<1>7. page = [docs |-> tabs, text |-> kept, active |-> shown, editor |-> pane,
              locked |-> FALSE, open |-> opened, mounted |-> opened,
              review |-> NoReview, exitDue |-> FALSE, frames |-> EmptyPane, stream |-> NoDoc,
              temp |-> {}, chip |-> NoDoc, timer |-> FALSE, closes |-> 0, last |-> session,
              shown |-> seen, puts |-> {}, deletes |-> {}]
  BY <1>1
<1>8. opened <=> shown # NoDoc
  OBVIOUS
<1> HIDE DEF text, opened, tabs, kept, pane, seen
<1>9. page \in Page
  <2>1. NoReview \in Reviews /\ EmptyPane \in Frames
    BY TextsMade
  <2> QED BY <1>2, <1>4, <1>5, <1>7, <2>1 DEF Page
<1>10. Panel(page)
  BY <1>4, <1>7, <1>8 DEF Panel
<1>11. server \in Store /\ AbsentBlank
  BY <1>3, <1>6 DEF Store, AbsentBlank
<1>12. 0 \in 0..MaxTexts /\ 0 \in 0..MaxSteps
  BY BoundsAssumption
<1>13. Typed
  BY <1>2, <1>9, <1>11, <1>12, NoEventTyped DEF Typed
<1> QED BY <1>10, <1>11, <1>13 DEF DocInv

LEMMA UserFine ==
  ASSUME DocInv, UserStep
  PROVE  Fine
<1>1. steps' \in 0..MaxSteps
  BY BoundsAssumption DEF UserStep, DocInv, Typed
<1>2. CASE Type \/ Clear \/ TypeNew \/ NewDocument
  BY <1>1, <1>2, TypeFine, ClearFine, TypeNewFine, NewDocumentFine
<1>3. CASE DocumentButton
  <2>1. Lossy
    BY <1>3 DEF Lossy
  <2>2. Load(session, FALSE) /\ session \in Session
    BY <1>3 DEF DocumentButton, DocInv, Typed
  <2> QED BY <1>1, <2>1, <2>2, LoadFine
<1>4. CASE RestoreChip \/ CloseChip \/ Escape
  BY <1>1, <1>4, RestoreChipFine, CloseChipFine, EscapeFine
<1>5. ASSUME NEW d \in Doc, Tab(d) \/ CloseTab(d)
      PROVE  Fine
  BY <1>1, <1>5, TabFine, CloseTabFine
<1>6. ASSUME NEW b \in BOOLEAN, Close(b) \/ ResolveChunk(b) \/ ResolveAll(b)
      PROVE  Fine
  BY <1>1, <1>6, CloseFine, ResolveChunkFine, ResolveAllFine
<1>7. ASSUME NEW s \in Session, OpenConversation(s)
      PROVE  Fine
  BY <1>1, <1>7, OpenConversationFine
<1> QED BY <1>2, <1>3, <1>4, <1>5, <1>6, <1>7 DEF UserStep

LEMMA AgentFine ==
  ASSUME DocInv, AgentStep
  PROVE  Fine
<1>1. steps' \in 0..MaxSteps
  BY BoundsAssumption DEF AgentStep, DocInv, Typed
<1>2. PICK d \in Doc : StreamDocOpen(d) \/ AgentWrites(d)
  BY DEF AgentStep
<1> QED BY <1>1, <1>2, StreamDocOpenFine, AgentWritesFine

LEMMA PageFine ==
  ASSUME DocInv, PageStep
  PROVE  Fine
<1>1. steps' \in 0..MaxSteps
  BY DEF PageStep, DocInv, Typed
<1>2. ASSUME NEW d \in Doc, DeleteArrives(d)
      PROVE  Fine
  BY <1>1, <1>2, DeleteArrivesFine
<1>3. ASSUME NEW put \in page.puts,
             PutArrives(put) \/ PutReplies(put) \/ PutNotFound(put) \/ PutFails(put)
      PROVE  Fine
  BY <1>1, <1>3, PutArrivesFine, PutRepliesFine, PutNotFoundFine, PutFailsFine
<1>4. ASSUME NEW c \in creates, NewDocumentCreated(c) \/ AutoCreated(c) \/ CreateFails(c)
      PROVE  Fine
  BY <1>1, <1>4, NewDocumentCreatedFine, AutoCreatedFine, CreateFailsFine
<1>5. ASSUME NEW l \in loads, LoadTimer(l)
      PROVE  Fine
  <2>1. Lossy
    BY <1>5 DEF Lossy
  <2>2. Load(l.sess, TRUE) /\ l.sess \in Session
    BY <1>5 DEF LoadTimer, DocInv, Typed, Loads
  <2> QED BY <1>1, <2>1, <2>2, LoadFine
<1>6. ASSUME NEW l \in loads, LoadReply(l) \/ LoadFails(l)
      PROVE  Fine
  BY <1>1, <1>6, LoadReplyFine, LoadFailsFine
<1>7. CASE ExitFires \/ AutosaveFires \/ FinishClose \/ FinishCloseAgain \/ StreamDocDelta
  BY <1>1, <1>7, ExitFiresFine, AutosaveFine, FinishCloseFine, FinishCloseAgainFine, StreamDocDeltaFine
<1>8. CASE HandleDocUpdate \/ SkipDocUpdate \/ Frame
  BY <1>1, <1>8, HandleDocUpdateFine, SkipFine, FrameFine
<1> QED BY <1>2, <1>3, <1>4, <1>5, <1>6, <1>7, <1>8 DEF PageStep

LEMMA NextFine == DocInv /\ Next => Fine
BY UserFine, AgentFine, PageFine DEF Next

LEMMA DocStep == DocInv /\ [Next]_vars => DocInv'
<1>1. DocInv /\ Next => DocInv'
  BY NextFine DEF Fine
<1>2. DocInv /\ UNCHANGED vars => DocInv'
  BY DEF vars, DocInv, Typed, AbsentBlank
<1> QED BY <1>1, <1>2

\* The invariant of the document panel: types, what an open panel shows, and
\* that an unknown document has no text in the store.
THEOREM DocumentsKept == Spec => []DocInv
<1>1. Init => DocInv
  BY DocInit
<1>2. DocInv /\ [Next]_vars => DocInv'
  BY DocStep
<1> QED BY <1>1, <1>2, PTL DEF Spec

\* The panel's state is well typed: reviews have no more decided chunks than
\* chunks, every save is of a document, and the user's last text is one that
\* was typed (document.js, handleDocUpdate, saveDocument, exitDiffMode).
THEOREM DocumentsTyped == Spec => []TypeOK
<1>1. DocInv => TypeOK
  BY TypedTypes DEF DocInv
<1> QED BY <1>1, DocumentsKept, PTL

\* Nothing but the calls of Stray brings a document what was written for
\* another one: no switch, closed tab, review, timer, save or reply does,
\* whatever happened to the other documents before (document.js 4465-4607).
THEOREM TextsStayOwn == Spec => OwnTextKept
<1>1. DocInv /\ [Next]_vars => [\A d \in Doc : Own(d) /\ ~Own(d)' => Stray]_vars
  <2>1. DocInv /\ Next => \A d \in Doc : Own(d) /\ ~Own(d)' => Stray
    BY NextFine DEF Fine, OwnStep
  <2> QED BY <2>1
<1> QED BY <1>1, DocumentsKept, PTL DEF Spec, OwnTextKept

\* What the user typed last into a document stays in its tab, the editor, a
\* save or the store, through every step but those of Lossy and the end of a
\* review that outlived its pane.
THEOREM WordsNotLost == Spec => NothingLost
<1>1. DocInv /\ [Next]_vars =>
        [\A d \in Doc : Kept(d) /\ ~Kept(d)' => Lossy \/ (page.review.on /\ d = page.active)]_vars
  <2>1. DocInv /\ Next =>
          \A d \in Doc : Kept(d) /\ ~Kept(d)' => Lossy \/ (page.review.on /\ d = page.active)
    BY NextFine DEF Fine, WordsStep
  <2> QED BY <2>1
<1> QED BY <1>1, DocumentsKept, PTL DEF Spec, NothingLost

================================================================================
