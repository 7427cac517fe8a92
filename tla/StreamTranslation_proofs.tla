----------------------- MODULE StreamTranslation_proofs -----------------------
(***************************************************************************)
(* Proofs about StreamTranslation, for answers of any length, with any      *)
(* number of items whose events are mixed in any way.                       *)
(*                                                                         *)
(* The invariant says what the provider has sent: each event is of an item, *)
(* its item's pieces are its deltas in their order (or one that came with   *)
(* the done), and nothing comes after an item's done, nor after             *)
(* response.completed.  It says what the reader has made of the events it   *)
(* has read: the calls it knows are those of which there was an event, each *)
(* with an index of its own, and the client has of each call the pieces up  *)
(* to the last event read, and the same of the text.                        *)
(*                                                                         *)
(* SameAnswer compares that with what the buffered reader takes from the    *)
(* whole transcript.  Its definitions sort positions (Ascending), so the    *)
(* last parts are about sorting: a number's place in a set is the number of *)
(* those below it.  Induction is over sets: a set of numbers that is not    *)
(* empty has a least one.                                                   *)
(***************************************************************************)
EXTENDS StreamTranslation, TLAPS, FiniteSetTheorems, WellFoundedInduction

Has(pieces, k) == \E j \in DOMAIN pieces : pieces[j] = k

IsAscending(t) == t \in Seq(Nat) /\ \A m, n \in DOMAIN t : m < n => t[m] < t[n]

LastOfItem(evs, k) == \A j \in DOMAIN evs : evs[j].item = evs[k].item => j <= k

\* What is known of the k-th event.
EventOK(its, evs, k) ==
    /\ evs[k].type = "completed" =>
           /\ \A j \in DOMAIN evs : j <= k
           /\ ~evs[k].call /\ evs[k].item = 0
           /\ \A i \in DOMAIN its : ~its[i].open
    /\ evs[k].type # "completed" =>
           evs[k].item \in DOMAIN its /\ evs[k].call = its[evs[k].item].call
    /\ evs[k].type = "added" => evs[k].pieces = <<>>
    /\ evs[k].type = "delta" =>
           evs[k].pieces = <<k>> /\ Has(its[evs[k].item].pieces, k)
    /\ evs[k].type = "done" =>
           /\ ~its[evs[k].item].open /\ LastOfItem(evs, k)
           /\ evs[k].pieces = its[evs[k].item].pieces

\* The pieces of an item are its deltas, or one that came with output_item.done.
PieceOK(evs, i, pieces, k) ==
    /\ k \in DOMAIN evs /\ evs[k].item = i
    /\ evs[k].type # "delta" => evs[k].type = "done" /\ Len(pieces) = 1

PiecesOK(evs, i, pieces) ==
    /\ IsAscending(pieces)
    /\ \A j \in DOMAIN pieces : PieceOK(evs, i, pieces, pieces[j])

DoneIn(evs, i) == \E k \in DOMAIN evs : evs[k].type = "done" /\ evs[k].item = i

ItemOK(its, evs, i) ==
    PiecesOK(evs, i, its[i].pieces) /\ (~its[i].open => DoneIn(evs, i))

Items == [call: BOOLEAN, pieces: Seq(Nat), open: BOOLEAN]
Events == [type: {"added", "delta", "done", "completed"}, item: Nat, call: BOOLEAN,
           pieces: Seq(Nat)]

Transcript(its, evs) ==
    /\ its \in Seq(Items) /\ evs \in Seq(Events)
    /\ \A k \in DOMAIN evs : EventOK(its, evs, k)
    /\ \A i \in DOMAIN its : ItemOK(its, evs, i)

\* args are those of the pieces that have a number up to r.
Upto(args, pieces, r) ==
    /\ args \in Seq(Nat) /\ Len(args) <= Len(pieces)
    /\ \A j \in DOMAIN args : args[j] = pieces[j] /\ pieces[j] <= r
    /\ \A j \in DOMAIN pieces : j > Len(args) => pieces[j] > r

\* The calls of which there was an event, each with an index of its own.
CallsKnown ==
    /\ DOMAIN tools = {sent[k].item : k \in {m \in 1..read : sent[m].call}}
    /\ next \in Nat
    /\ \A i \in DOMAIN tools :
           /\ tools[i].started /\ tools[i].index \in 0..(next - 1)
           /\ shape.indexed => tools[i].index = i - 1
           /\ tools[i].streamed <=>
                  \E k \in 1..read : sent[k].type = "delta" /\ sent[k].item = i
    /\ \A i, j \in DOMAIN tools : tools[i].index = tools[j].index => i = j

\* What the client has is what was sent so far, if no character was cut.
CallsTold ==
    /\ DOMAIN client.calls = {tools[i].index : i \in DOMAIN tools}
    /\ ~damaged => \A i \in DOMAIN tools :
           /\ client.calls[tools[i].index] =
                  [item |-> i, args |-> client.calls[tools[i].index].args]
           /\ Upto(client.calls[tools[i].index].args, items[i].pieces, read)

TextTold ==
    ~damaged => /\ IsAscending(client.text)
                /\ ToSet(client.text) =
                       {k \in 1..read : sent[k].type = "delta" /\ ~sent[k].call}

Ended ==
    /\ client = [text |-> client.text, calls |-> client.calls, stray |-> FALSE,
                 finish |-> client.finish]
    /\ saw = (DOMAIN tools # {})
    /\ client.finish # "none" =>
           /\ upstream = "closed" /\ read = Len(sent)
           /\ client.finish = IF saw THEN "tool_calls" ELSE "stop"
    /\ buffer = "cut" => damaged

IInv ==
    /\ Transcript(items, sent) /\ read \in 0..Len(sent)
    /\ CallsKnown /\ CallsTold /\ TextTold /\ Ended

\* The elements of a sequence.
LEMMA ElementsOf ==
    ASSUME NEW E, NEW s \in Seq(E)
    PROVE  \A i \in DOMAIN s : i \in Nat /\ s[i] \in E
OBVIOUS

\* A set of numbers has a least one.
LEMMA LeastNumber ==
    ASSUME NEW T \in SUBSET Nat, T # {}
    PROVE  \E x \in T : \A y \in T : x <= y
<1>1. PICK R : R = OpToRel(<, Nat)
    OBVIOUS
<1>2. IsWellFoundedOn(R, Nat)
    BY <1>1, NatLessThanWellFounded
<1>3. PICK x \in T : \A y \in T : ~ (<<y, x>> \in R)
    BY <1>2, WFMin
<1>4. \A y \in T : ~(y < x)
    BY <1>1, <1>3 DEF OpToRel
<1> QED
    BY <1>4

\* Induction up to a number, over a set: the number that is the first to be
\* missing would be behind one that is there.
LEMMA GoesOn ==
    ASSUME NEW T, NEW last \in Nat, 0 \in T,
           \A n \in 0..last : n < last /\ n \in T => n + 1 \in T
    PROVE  \A n \in 0..last : n \in T
<1> SUFFICES ASSUME (0..last) \ T # {} PROVE FALSE
    OBVIOUS
<1> DEFINE S == (0..last) \ T
<1>1. PICK x \in S : \A y \in S : x <= y
  <2>1. S \in SUBSET Nat /\ S # {}
    OBVIOUS
  <2> HIDE DEF S
  <2> QED
    BY <2>1, LeastNumber
<1>2. x - 1 \in 0..last /\ x - 1 < last /\ x - 1 \in T
    BY <1>1
<1> QED
    BY <1>1, <1>2

-----------------------------------------------------------------------------
(* The provider's side *)

\* A sequence with one more element.
LEMMA OneMore ==
    ASSUME NEW E, NEW s \in Seq(E), NEW e \in E, NEW t, t = s \o <<e>>
    PROVE  /\ t \in Seq(E) /\ Len(t) = Len(s) + 1 /\ Len(s) \in Nat
           /\ DOMAIN s = 1..Len(s) /\ DOMAIN t = 1..(Len(s) + 1)
           /\ t[Len(s) + 1] = e /\ \A k \in 1..Len(s) : t[k] = s[k]
OBVIOUS

\* t is s and perhaps an e.
Grown(s, t, e) ==
    /\ DOMAIN s \subseteq DOMAIN t
    /\ \A k \in DOMAIN s : t[k] = s[k]
    /\ \A k \in (DOMAIN t) \ (DOMAIN s) : t[k] = e /\ \A j \in DOMAIN t : j <= k

\* No event more.
LEMMA NotGrown ==
    ASSUME NEW s, NEW e
    PROVE  Grown(s, s, e)
BY DEF Grown

\* What is known of an item's pieces does not depend on later events.
LEMMA PiecesStay ==
    ASSUME NEW evs, NEW evs2, NEW e, Grown(evs, evs2, e), NEW i, NEW pieces,
           PiecesOK(evs, i, pieces)
    PROVE  PiecesOK(evs2, i, pieces)
BY DEF Grown, PiecesOK, PieceOK

\* A done event is not lost.
LEMMA DoneStays ==
    ASSUME NEW evs, NEW evs2, NEW e, Grown(evs, evs2, e), NEW i, DoneIn(evs, i)
    PROVE  DoneIn(evs2, i)
BY DEF Grown, DoneIn

\* An event of another item leaves the last one of this the last.
LEMMA LastStays ==
    ASSUME NEW evs, NEW evs2, NEW e, Grown(evs, evs2, e), NEW k \in DOMAIN evs,
           evs[k].item # e.item, LastOfItem(evs, k)
    PROVE  LastOfItem(evs2, k)
BY DEF Grown, LastOfItem

NotCompleted(evs) == \A k \in DOMAIN evs : evs[k].type # "completed"

\* What the items become: one of them is another, or is new.
Changed(its, its2, i, item) ==
    /\ its2 \in Seq(Items) /\ DOMAIN its2 = DOMAIN its \cup {i} /\ its2[i] = item
    /\ \A j \in DOMAIN its : j # i => its2[j] = its[j]

\* Events of other items.
LEMMA OtherEvents ==
    ASSUME NEW its, NEW its2, NEW evs, NEW evs2, NEW e, NEW i, NEW item,
           Grown(evs, evs2, e), Changed(its, its2, i, item), e.item = i,
           NEW k \in DOMAIN evs, NotCompleted(evs), EventOK(its, evs, k), evs[k].item # i
    PROVE  EventOK(its2, evs2, k)
<1>1. evs2[k] = evs[k] /\ evs[k].type # "completed"
  BY DEF Grown, NotCompleted
<1>2. evs[k].item \in DOMAIN its2 /\ its2[evs[k].item] = its[evs[k].item]
  BY <1>1 DEF EventOK, Changed
<1>3. evs[k].type = "done" => LastOfItem(evs2, k)
  BY LastStays DEF EventOK
<1> QED
  BY <1>1, <1>2, <1>3 DEF EventOK

\* Events of an item that is open: none of them tells that it is done.
LEMMA EventsOfOpen ==
    ASSUME NEW its, NEW its2, NEW evs, NEW evs2, NEW e, NEW i \in DOMAIN its, NEW item,
           Grown(evs, evs2, e), Changed(its, its2, i, item),
           its[i].open, item.call = its[i].call,
           \A m \in DOMAIN evs : Has(its[i].pieces, m) => Has(item.pieces, m),
           NEW k \in DOMAIN evs, NotCompleted(evs), EventOK(its, evs, k), evs[k].item = i
    PROVE  EventOK(its2, evs2, k)
<1>1. evs2[k] = evs[k] /\ evs[k].type # "completed" /\ evs[k].type # "done"
  BY DEF Grown, NotCompleted, EventOK
<1>2. its2[i] = item /\ i \in DOMAIN its2
  BY DEF Changed
<1>3. evs[k].type = "delta" => evs[k].pieces = <<k>> /\ Has(item.pieces, k)
  BY DEF EventOK
<1> QED
  BY <1>1, <1>2, <1>3 DEF EventOK

\* The event and the item that are new decide.
LEMMA Continues ==
    ASSUME NEW its, NEW evs, Transcript(its, evs), NotCompleted(evs),
           NEW its2, NEW evs2, NEW e, NEW i, NEW item,
           evs2 \in Seq(Events), Grown(evs, evs2, e), Changed(its, its2, i, item),
           e.item = i,
           i \in DOMAIN its => /\ its[i].open /\ item.call = its[i].call
                               /\ \A m \in DOMAIN evs : Has(its[i].pieces, m) => Has(item.pieces, m),
           \A k \in (DOMAIN evs2) \ (DOMAIN evs) : EventOK(its2, evs2, k),
           ItemOK(its2, evs2, i)
    PROVE  Transcript(its2, evs2)
<1>1. ASSUME NEW k \in DOMAIN evs2 PROVE EventOK(its2, evs2, k)
  <2>1. CASE k \in DOMAIN evs
    <3>1. EventOK(its, evs, k)
      BY <2>1 DEF Transcript
    <3>2. evs[k].item \in DOMAIN its
      BY <2>1, <3>1 DEF EventOK, NotCompleted
    <3>3. CASE evs[k].item # i
      BY <2>1, <3>1, <3>3, OtherEvents
    <3>4. CASE evs[k].item = i
      BY <2>1, <3>1, <3>2, <3>4, EventsOfOpen
    <3> QED
      BY <3>3, <3>4
  <2> QED
    BY <2>1
<1>2. ASSUME NEW j \in DOMAIN its2 PROVE ItemOK(its2, evs2, j)
  <2>1. CASE j # i
    <3>1. j \in DOMAIN its /\ its2[j] = its[j] /\ ItemOK(its, evs, j)
      BY <2>1 DEF Changed, Transcript
    <3> QED
      BY <3>1, PiecesStay, DoneStays DEF ItemOK
  <2> QED
    BY <2>1
<1> QED
  BY <1>1, <1>2 DEF Transcript, Changed

\* A new item.
LEMMA ItemAdded ==
    ASSUME NEW its \in Seq(Items), NEW item \in Items
    PROVE  /\ Changed(its, its \o <<item>>, Len(its) + 1, item)
           /\ Len(its) + 1 \notin DOMAIN its /\ Len(its) \in Nat
<1>1. PICK its2 : its2 = its \o <<item>>
  OBVIOUS
<1>2. /\ its2 \in Seq(Items) /\ Len(its2) = Len(its) + 1 /\ Len(its) \in Nat
      /\ DOMAIN its = 1..Len(its) /\ DOMAIN its2 = 1..(Len(its) + 1)
      /\ its2[Len(its) + 1] = item /\ \A k \in 1..Len(its) : its2[k] = its[k]
  BY <1>1, OneMore
<1> QED
  BY <1>1, <1>2 DEF Changed

\* An item in the place of another.
LEMMA ItemChanged ==
    ASSUME NEW its \in Seq(Items), NEW i \in DOMAIN its, NEW item \in Items
    PROVE  Changed(its, [its EXCEPT ![i] = item], i, item)
<1>1. PICK its2 : its2 = [its EXCEPT ![i] = item]
  OBVIOUS
<1>2. its2 \in Seq(Items) /\ DOMAIN its2 = DOMAIN its
  BY <1>1
<1>3. its2[i] = item /\ \A j \in DOMAIN its : j # i => its2[j] = its[j]
  BY <1>1
<1>4. DOMAIN its \cup {i} = DOMAIN its
  OBVIOUS
<1> QED
  BY <1>1, <1>2, <1>3, <1>4 DEF Changed

\* The fields of an item.
LEMMA PiecesPut ==
    ASSUME NEW call \in BOOLEAN, NEW new \in Seq(Nat), NEW open \in BOOLEAN, NEW item,
           item = [call |-> call, pieces |-> new, open |-> open]
    PROVE  item \in Items /\ item.call = call /\ item.pieces = new /\ item.open = open
BY DEF Items

\* The fields of an event.
LEMMA EventPut ==
    ASSUME NEW type \in {"added", "delta", "done", "completed"}, NEW i \in Nat,
           NEW call \in BOOLEAN, NEW pieces \in Seq(Nat), NEW e,
           e = Event(type, i, call, pieces)
    PROVE  /\ e \in Events /\ e.type = type /\ e.item = i
           /\ e.call = call /\ e.pieces = pieces
BY DEF Event, Events

\* No pieces.
LEMMA EmptyPieces == IsAscending(<<>>) /\ \A evs, i : PiecesOK(evs, i, <<>>)
BY DEF IsAscending, PiecesOK

\* An item that is open had its deltas and nothing else.
LEMMA OpenPieces ==
    ASSUME NEW its, NEW evs, Transcript(its, evs), NotCompleted(evs),
           NEW i \in DOMAIN its, its[i].open
    PROVE  \A k \in DOMAIN evs : evs[k].item = i => evs[k].type # "done"
BY DEF Transcript, NotCompleted, EventOK

\* A delta is one more piece.
LEMMA PieceAdded ==
    ASSUME NEW evs, NEW evs2, NEW e, Grown(evs, evs2, e), NEW i, e.item = i,
           e.type = "delta", NEW old, PiecesOK(evs, i, old),
           \A k \in DOMAIN evs : evs[k].item = i => evs[k].type # "done",
           NEW n \in Nat, n \in (DOMAIN evs2) \ (DOMAIN evs)
    PROVE  /\ PiecesOK(evs2, i, old \o <<n>>) /\ Has(old \o <<n>>, n)
           /\ \A m : Has(old, m) => Has(old \o <<n>>, m)
<1>a. PICK new : new = old \o <<n>>
  OBVIOUS
<1>1. /\ new \in Seq(Nat) /\ Len(new) = Len(old) + 1 /\ Len(old) \in Nat
      /\ DOMAIN old = 1..Len(old) /\ DOMAIN new = 1..(Len(old) + 1)
      /\ new[Len(old) + 1] = n /\ \A k \in 1..Len(old) : new[k] = old[k]
  <2>1. old \in Seq(Nat)
    BY DEF PiecesOK, IsAscending
  <2> QED
    BY <1>a, <2>1, OneMore
<1>2. /\ \A k \in DOMAIN old : k \in DOMAIN new /\ new[k] = old[k]
      /\ \A k \in DOMAIN new : k \in DOMAIN old \/ new[k] = n
      /\ \E k \in DOMAIN new : new[k] = n
  <2>1. \A k \in DOMAIN old : k \in DOMAIN new /\ new[k] = old[k]
    BY <1>1
  <2>2. \A k \in DOMAIN new : k \in DOMAIN old \/ k = Len(old) + 1
    BY <1>1
  <2>3. Len(old) + 1 \in DOMAIN new
    BY <1>1
  <2> QED
    BY <1>1, <2>1, <2>2, <2>3
<1>3. \A k \in DOMAIN old : /\ old[k] \in DOMAIN evs /\ evs[old[k]].item = i
                            /\ evs[old[k]].type = "delta"
  BY DEF PiecesOK, PieceOK
<1>4. \A k \in DOMAIN evs : k \in DOMAIN evs2 /\ evs2[k] = evs[k] /\ k <= n /\ k # n
  BY DEF Grown
<1>5. evs2[n] = e
  BY DEF Grown
<1>6. \A k \in DOMAIN new : PieceOK(evs2, i, new, new[k])
  BY <1>2, <1>3, <1>4, <1>5 DEF PieceOK
<1>7. IsAscending(new)
  <2>1. ASSUME NEW m \in DOMAIN new, NEW k \in DOMAIN new, m < k PROVE new[m] < new[k]
    <3>1. m \in DOMAIN old
      BY <1>1, <2>1
    <3>2. CASE k \in DOMAIN old
      BY <1>2, <2>1, <3>1, <3>2 DEF PiecesOK, IsAscending
    <3>3. CASE k \notin DOMAIN old
      <4>1. new[k] = n /\ new[m] = old[m] /\ old[m] <= n /\ old[m] # n
        BY <1>2, <1>3, <1>4, <3>1, <3>3
      <4>2. old[m] \in Nat
        BY <3>1 DEF PiecesOK, IsAscending
      <4> QED
        BY <4>1, <4>2
    <3> QED
      BY <3>2, <3>3
  <2> QED
    BY <1>1, <2>1 DEF IsAscending
<1>8. PiecesOK(evs2, i, new) /\ Has(new, n) /\ \A m : Has(old, m) => Has(new, m)
  BY <1>1, <1>2, <1>6, <1>7 DEF PiecesOK, Has
<1> QED
  BY <1>a, <1>8

\* What a step on an open item makes of the transcript.
LEMMA DeltaKeeps ==
    ASSUME NEW its, NEW evs, Transcript(its, evs), NotCompleted(evs),
           NEW i \in DOMAIN its, its[i].open, NEW n \in Nat, NEW new, NEW evs2,
           PiecesOK(evs2, i, new), Has(new, n),
           \A m : Has(its[i].pieces, m) => Has(new, m),
           NEW e, e.type = "delta", e.item = i, e.call = its[i].call, e.pieces = <<n>>,
           evs2 \in Seq(Events), Grown(evs, evs2, e), n \in (DOMAIN evs2) \ (DOMAIN evs),
           \A k \in DOMAIN evs2 : k \in DOMAIN evs \/ k = n,
           NEW item, item.call = its[i].call, item.pieces = new, item.open,
           NEW its2, Changed(its, its2, i, item)
    PROVE  Transcript(its2, evs2)
<1>1. its2[i] = item /\ i \in DOMAIN its2
  BY DEF Changed
<1>2. \A k \in (DOMAIN evs2) \ (DOMAIN evs) : EventOK(its2, evs2, k)
  <2>1. evs2[n] = e
    BY DEF Grown
  <2>2. EventOK(its2, evs2, n)
    BY <1>1, <2>1 DEF EventOK
  <2> QED
    BY <2>2
<1>3. ItemOK(its2, evs2, i)
  BY <1>1 DEF ItemOK
<1> QED
  BY <1>2, <1>3, Continues

\* output_item.done repeats the pieces, or brings the only one.
LEMMA DoneKeeps ==
    ASSUME NEW its, NEW evs, Transcript(its, evs), NotCompleted(evs),
           NEW i \in DOMAIN its, its[i].open, NEW n \in Nat, NEW new,
           new = its[i].pieces \/ (its[i].pieces = <<>> /\ new = <<n>>),
           NEW e, e.type = "done", e.item = i, e.call = its[i].call, e.pieces = new,
           NEW evs2 \in Seq(Events), Grown(evs, evs2, e), n \in (DOMAIN evs2) \ (DOMAIN evs),
           \A k \in DOMAIN evs2 : k \in DOMAIN evs \/ k = n,
           NEW item, item.call = its[i].call, item.pieces = new, ~item.open,
           NEW its2, Changed(its, its2, i, item)
    PROVE  Transcript(its2, evs2)
<1>1. PICK old : old = its[i].pieces
  OBVIOUS
<1>2. evs2[n] = e /\ LastOfItem(evs2, n) /\ DoneIn(evs2, i)
  BY DEF Grown, LastOfItem, DoneIn
<1>3. PiecesOK(evs2, i, new) /\ \A m : Has(old, m) => Has(new, m)
  <2>1. CASE new = old
    <3>1. PiecesOK(evs, i, old)
      BY <1>1 DEF Transcript, ItemOK
    <3> QED
      BY <2>1, <3>1, PiecesStay
  <2>2. CASE old = <<>> /\ new = <<n>>
    <3>1. IsAscending(new) /\ Len(new) = 1 /\ \A j \in DOMAIN new : new[j] = n
      BY <2>2 DEF IsAscending
    <3>2. PieceOK(evs2, i, new, n)
      BY <1>2, <3>1 DEF PieceOK
    <3> QED
      BY <2>2, <3>1, <3>2 DEF PiecesOK, Has
  <2> QED
    BY <2>1, <2>2, <1>1
<1>4. its2[i] = item /\ i \in DOMAIN its2
  BY DEF Changed
<1>5. \A k \in (DOMAIN evs2) \ (DOMAIN evs) : EventOK(its2, evs2, k)
  <2>1. EventOK(its2, evs2, n)
    BY <1>2, <1>4 DEF EventOK
  <2> QED
    BY <2>1
<1>6. ItemOK(its2, evs2, i)
  BY <1>2, <1>3, <1>4 DEF ItemOK
<1> QED
  BY <1>1, <1>3, <1>5, <1>6, Continues

\* response.completed changes no item.
LEMMA CompletedKeeps ==
    ASSUME NEW its, NEW evs, Transcript(its, evs), NotCompleted(evs),
           \A i \in DOMAIN its : ~its[i].open,
           NEW e, e.type = "completed", e.item = 0, ~e.call,
           NEW evs2 \in Seq(Events), Grown(evs, evs2, e)
    PROVE  Transcript(its, evs2)
<1>1. its \in Seq(Items) /\ 0 \notin DOMAIN its
  BY DEF Transcript
<1>2. ASSUME NEW k \in DOMAIN evs2 PROVE EventOK(its, evs2, k)
  <2>1. CASE k \in DOMAIN evs
    <3>1. EventOK(its, evs, k) /\ evs2[k] = evs[k] /\ evs[k].type # "completed"
      BY <2>1 DEF Transcript, Grown, NotCompleted
    <3>2. evs[k].item # e.item
      BY <1>1, <3>1 DEF EventOK
    <3>3. evs[k].type = "done" => LastOfItem(evs2, k)
      BY <2>1, <3>1, <3>2, LastStays DEF EventOK
    <3> QED
      BY <3>1, <3>3 DEF EventOK
  <2>2. CASE k \notin DOMAIN evs
    BY <2>2 DEF Grown, EventOK, LastOfItem
  <2> QED
    BY <2>1, <2>2
<1>3. ASSUME NEW i \in DOMAIN its PROVE ItemOK(its, evs2, i)
  BY PiecesStay, DoneStays DEF Transcript, ItemOK
<1> QED
  BY <1>1, <1>2, <1>3 DEF Transcript

\* While there may be more events, response.completed was not one of them.
LEMMA StillRunning ==
    ASSUME NEW its, NEW evs, Transcript(its, evs),
           \/ \E i \in DOMAIN its : its[i].open
           \/ evs = <<>>
           \/ Last(evs).type # "completed"
    PROVE  NotCompleted(evs)
<1> SUFFICES ASSUME NEW k \in DOMAIN evs, evs[k].type = "completed" PROVE FALSE
  BY DEF NotCompleted
<1>1. /\ \A j \in DOMAIN evs : j <= k
      /\ \A i \in DOMAIN its : ~its[i].open
  BY DEF Transcript, EventOK
<1>2. evs \in Seq(Events)
  BY DEF Transcript
<1>3. Len(evs) \in DOMAIN evs /\ k = Len(evs) /\ evs # <<>>
  BY <1>1, <1>2
<1> QED
  BY <1>1, <1>3 DEF Last

\* What was sent is kept, and so are the pieces; new ones have higher numbers.
Extended(old, new, n) ==
    /\ Len(old) <= Len(new)
    /\ \A j \in DOMAIN old : new[j] = old[j]
    /\ \A j \in DOMAIN new : j \notin DOMAIN old => new[j] > n

Longer(its, evs, its2, evs2) ==
    /\ Transcript(its2, evs2)
    /\ Len(evs) <= Len(evs2)
    /\ \A k \in DOMAIN evs : evs2[k] = evs[k]
    /\ \A i \in DOMAIN its : /\ i \in DOMAIN its2
                             /\ its2[i].call = its[i].call
                             /\ Extended(its[i].pieces, its2[i].pieces, Len(evs))

\* The same pieces.
LEMMA SameIsExtended ==
    ASSUME NEW old \in Seq(Nat), NEW n PROVE Extended(old, old, n)
BY DEF Extended

\* A piece with the number of the next event.
LEMMA OneMoreIsExtended ==
    ASSUME NEW old \in Seq(Nat), NEW n \in Nat, NEW m \in Nat, m = n + 1, NEW new,
           new = old \o <<m>>
    PROVE  Extended(old, new, n)
<1>1. /\ Len(new) = Len(old) + 1 /\ Len(old) \in Nat
      /\ DOMAIN old = 1..Len(old) /\ DOMAIN new = 1..(Len(old) + 1)
      /\ new[Len(old) + 1] = m /\ \A k \in 1..Len(old) : new[k] = old[k]
  BY OneMore
<1> QED
  BY <1>1 DEF Extended

\* One item is new, or changed.
LEMMA LongerByOne ==
    ASSUME NEW its, NEW evs, Transcript(its, evs),
           NEW its2, NEW evs2, NEW e, Transcript(its2, evs2), Grown(evs, evs2, e),
           NEW i, NEW item, Changed(its, its2, i, item),
           i \in DOMAIN its => /\ item.call = its[i].call
                               /\ Extended(its[i].pieces, item.pieces, Len(evs))
    PROVE  Longer(its, evs, its2, evs2)
<1>1. its \in Seq(Items) /\ evs \in Seq(Events) /\ evs2 \in Seq(Events)
  BY DEF Transcript
<1>2. Len(evs) <= Len(evs2)
  <2>1. DOMAIN evs \subseteq DOMAIN evs2
    BY DEF Grown
  <2>2. /\ DOMAIN evs = 1..Len(evs) /\ DOMAIN evs2 = 1..Len(evs2)
        /\ Len(evs) \in Nat /\ Len(evs2) \in Nat
    BY <1>1
  <2> QED
    BY <2>1, <2>2
<1>3. ASSUME NEW j \in DOMAIN its
      PROVE  /\ j \in DOMAIN its2 /\ its2[j].call = its[j].call
             /\ Extended(its[j].pieces, its2[j].pieces, Len(evs))
  <2>1. its[j] \in Items
    BY <1>1, ElementsOf
  <2>2. its[j].pieces \in Seq(Nat)
    BY <2>1 DEF Items
  <2>3. CASE j # i
    <3>1. j \in DOMAIN its2 /\ its2[j] = its[j]
      BY <2>3 DEF Changed
    <3> QED
      BY <2>2, <3>1, SameIsExtended
  <2>4. CASE j = i
    BY <2>4 DEF Changed
  <2> QED
    BY <2>3, <2>4
<1> QED
  BY <1>2, <1>3 DEF Longer, Grown

\* The events with one more.
LEMMA SentOne ==
    ASSUME NEW evs \in Seq(Events), NEW e \in Events
    PROVE  /\ Grown(evs, evs \o <<e>>, e) /\ evs \o <<e>> \in Seq(Events)
           /\ Len(evs) \in Nat /\ Len(evs) + 1 \in (DOMAIN (evs \o <<e>>)) \ (DOMAIN evs)
           /\ \A k \in DOMAIN (evs \o <<e>>) : k \in DOMAIN evs \/ k = Len(evs) + 1
<1>1. PICK evs2 : evs2 = evs \o <<e>>
  OBVIOUS
<1>2. /\ evs2 \in Seq(Events) /\ Len(evs2) = Len(evs) + 1 /\ Len(evs) \in Nat
      /\ DOMAIN evs = 1..Len(evs) /\ DOMAIN evs2 = 1..(Len(evs) + 1)
      /\ evs2[Len(evs) + 1] = e /\ \A k \in 1..Len(evs) : evs2[k] = evs[k]
  BY <1>1
<1>3. /\ Grown(evs, evs2, e) /\ Len(evs) + 1 \in (DOMAIN evs2) \ (DOMAIN evs)
      /\ \A k \in DOMAIN evs2 : k \in DOMAIN evs \/ k = Len(evs) + 1
  BY <1>2 DEF Grown
<1> QED
  BY <1>1, <1>2, <1>3

\* Append and concatenation of one.
LEMMA AppendIsMore ==
    ASSUME NEW E, NEW s \in Seq(E), NEW e \in E
    PROVE  Append(s, e) = s \o <<e>>
OBVIOUS

\* response.output_item.added
LEMMA AddLonger ==
    ASSUME Transcript(items, sent), NEW call \in BOOLEAN, Add(call)
    PROVE  Longer(items, sent, items', sent')
<1>1. items \in Seq(Items) /\ sent \in Seq(Events)
  BY DEF Transcript
<1>2. NotCompleted(sent)
  BY StillRunning DEF Add, Completed
<1>3. PICK item : item = [call |-> call, pieces |-> <<>>, open |-> TRUE]
  OBVIOUS
<1>4. PICK i : i = Len(items) + 1
  OBVIOUS
<1>5. PICK none : none = <<>>
  OBVIOUS
<1>6. PICK e : e = Event("added", i, call, none)
  OBVIOUS
<1>7. item \in Items /\ item.call = call /\ item.pieces = <<>> /\ item.open
  BY <1>3 DEF Items
<1>a. items' = Append(items, item)
  BY <1>3 DEF Add
<1>b. items' = items \o <<item>>
  BY <1>1, <1>7, <1>a, AppendIsMore
<1>c. sent' = sent \o <<>> \/ sent' = sent \o <<e>>
  BY <1>4, <1>5, <1>6 DEF Add, Send
<1>d. sent' = sent \/ sent' = sent \o <<e>>
  <2>1. sent \o <<>> = sent
    BY <1>1
  <2> QED
    BY <1>c, <2>1
<1>8. Changed(items, items', i, item) /\ i \notin DOMAIN items /\ i \in Nat
  <2>1. items' = items \o <<item>>
    BY <1>b
  <2>2. Changed(items, items', i, item) /\ i \notin DOMAIN items /\ Len(items) \in Nat
    BY <1>1, <1>4, <1>7, <2>1, ItemAdded
  <2> QED
    BY <1>4, <2>2
<1>9. /\ e \in Events /\ e.type = "added" /\ e.item = i
      /\ e.call = call /\ e.pieces = none
  <2>1. none \in Seq(Nat)
    BY <1>5
  <2> QED
    BY <1>6, <1>8, <2>1, EventPut
<1>10. Grown(sent, sent', e) /\ sent' \in Seq(Events)
  <2>1. CASE sent' = sent
    BY <1>1, <2>1, NotGrown
  <2>2. CASE sent' = sent \o <<e>>
    <3>1. e \in Events
      BY <1>9
    <3> QED
      BY <1>1, <2>2, <3>1, SentOne
  <2> QED
    BY <1>d, <2>1, <2>2
<1>11. Transcript(items', sent')
  <2>1. items'[i] = item /\ i \in DOMAIN items'
    BY <1>8 DEF Changed
  <2>2. \A k \in (DOMAIN sent') \ (DOMAIN sent) : EventOK(items', sent', k)
    BY <1>5, <1>7, <1>9, <1>10, <2>1 DEF Grown, EventOK
  <2>3. ItemOK(items', sent', i)
    BY <1>7, <2>1, EmptyPieces DEF ItemOK
  <2> QED
    BY <1>2, <1>8, <1>9, <1>10, <2>2, <2>3, Continues
<1> QED
  BY <1>8, <1>10, <1>11, LongerByOne

\* An item with other pieces, of its fields.
LEMMA RecordPut ==
    ASSUME NEW it, NEW new, NEW c, NEW p, NEW o,
           it = [call |-> c, pieces |-> p, open |-> o]
    PROVE  [it EXCEPT !.pieces = new] = [call |-> c, pieces |-> new, open |-> o]
OBVIOUS

\* An item with other pieces.
LEMMA RecordOf ==
    ASSUME NEW it \in Items, NEW new
    PROVE  [it EXCEPT !.pieces = new] = [call |-> it.call, pieces |-> new, open |-> it.open]
<1>1. it = [call |-> it.call, pieces |-> it.pieces, open |-> it.open]
  BY DEF Items
<1>2. PICK c, p, o : c = it.call /\ p = it.pieces /\ o = it.open
  OBVIOUS
<1>3. it = [call |-> c, pieces |-> p, open |-> o]
  BY <1>1, <1>2
<1>4. [it EXCEPT !.pieces = new] = [call |-> c, pieces |-> new, open |-> o]
  BY <1>3, RecordPut
<1> QED
  BY <1>2, <1>4

\* A delta of an item that is not done.
LEMMA DeltaLonger ==
    ASSUME Transcript(items, sent), NEW i, Delta(i)
    PROVE  Longer(items, sent, items', sent')
<1>1. items \in Seq(Items) /\ sent \in Seq(Events)
  BY DEF Transcript
<1>2. i \in DOMAIN items /\ items[i].open = TRUE
  BY DEF Delta
<1>3. NotCompleted(sent)
  BY <1>2, StillRunning
<1>4. PICK n : n = Len(sent) + 1
  OBVIOUS
<1>5. PICK old : old = items[i].pieces
  OBVIOUS
<1>6. PICK call : call = items[i].call
  OBVIOUS
<1>7. /\ i \in Nat /\ items[i] \in Items /\ old \in Seq(Nat) /\ call \in BOOLEAN
      /\ n \in Nat /\ Len(sent) \in Nat
  <2>1. i \in Nat /\ items[i] \in Items
    BY <1>1, <1>2, ElementsOf
  <2>2. n \in Nat /\ Len(sent) \in Nat
    BY <1>1, <1>4
  <2> QED
    BY <2>1, <2>2, <1>5, <1>6 DEF Items
<1>8. PICK one : one = <<n>>
  OBVIOUS
<1>9. PICK new : new = old \o one
  OBVIOUS
<1>10. PICK e : e = Event("delta", i, call, one)
  OBVIOUS
<1>11. PICK item : item = [call |-> call, pieces |-> new, open |-> TRUE]
  OBVIOUS
<1>12. one \in Seq(Nat) /\ new \in Seq(Nat)
  BY <1>7, <1>8, <1>9
<1>13. item \in Items /\ item.call = call /\ item.pieces = new /\ item.open = TRUE
  BY <1>7, <1>11, <1>12 DEF Items
<1>14. /\ e \in Events /\ e.type = "delta" /\ e.item = i
       /\ e.call = call /\ e.pieces = one
  BY <1>7, <1>10, <1>12, EventPut
<1>15. items' = [items EXCEPT ![i] = item]
  <2>1. items' = [items EXCEPT ![i].pieces = Append(@, Piece)]
    BY DEF Delta
  <2>2. Append(items[i].pieces, Piece) = new
    BY <1>4, <1>5, <1>7, <1>8, <1>9, AppendIsMore DEF Piece
  <2>3. [items[i] EXCEPT !.pieces = new] = item
    BY <1>2, <1>6, <1>7, <1>11, RecordOf
  <2> QED
    BY <2>1, <2>2, <2>3
<1>16. sent' = sent \o <<e>>
  BY <1>4, <1>6, <1>8, <1>10 DEF Delta, Send, Piece
<1>17. Changed(items, items', i, item)
  <2>1. item \in Items
    BY <1>13
  <2> QED
    BY <1>1, <1>2, <1>15, <2>1, ItemChanged
<1>18. /\ Grown(sent, sent', e) /\ sent' \in Seq(Events)
       /\ n \in (DOMAIN sent') \ (DOMAIN sent)
       /\ \A k \in DOMAIN sent' : k \in DOMAIN sent \/ k = n
  <2>1. e \in Events
    BY <1>14
  <2> QED
    BY <1>1, <1>4, <1>16, <2>1, SentOne
<1>19. /\ PiecesOK(sent', i, new) /\ Has(new, n)
       /\ \A m : Has(old, m) => Has(new, m)
  <2>1. PiecesOK(sent, i, old)
    BY <1>2, <1>5 DEF Transcript, ItemOK
  <2>2. \A k \in DOMAIN sent : sent[k].item = i => sent[k].type # "done"
    BY <1>2, <1>3, OpenPieces
  <2>3. new = old \o <<n>>
    BY <1>8, <1>9
  <2>4. e.item = i /\ e.type = "delta" /\ Grown(sent, sent', e)
    BY <1>14, <1>18
  <2>5. n \in Nat /\ n \in (DOMAIN sent') \ (DOMAIN sent)
    BY <1>7, <1>18
  <2>6. /\ PiecesOK(sent', i, old \o <<n>>) /\ Has(old \o <<n>>, n)
        /\ \A m : Has(old, m) => Has(old \o <<n>>, m)
    BY <2>1, <2>2, <2>4, <2>5, PieceAdded
  <2> QED
    BY <2>3, <2>6
<1>20. Transcript(items', sent')
  BY <1>2, <1>3, <1>5, <1>6, <1>7, <1>8, <1>13, <1>14, <1>17, <1>18, <1>19, DeltaKeeps
<1>21. Extended(old, new, Len(sent))
  BY <1>4, <1>7, <1>8, <1>9, OneMoreIsExtended
<1> QED
  BY <1>5, <1>6, <1>13, <1>17, <1>18, <1>20, <1>21, LongerByOne

\* response.output_item.done, with the pieces it had or with the only one.
LEMMA DoneLonger ==
    ASSUME Transcript(items, sent), NEW i, Done(i)
    PROVE  Longer(items, sent, items', sent')
<1>1. items \in Seq(Items) /\ sent \in Seq(Events)
  BY DEF Transcript
<1>2. i \in DOMAIN items /\ items[i].open
  BY DEF Done
<1>3. NotCompleted(sent)
  BY <1>2, StillRunning
<1>4. PICK n : n = Len(sent) + 1
  OBVIOUS
<1>5. PICK old : old = items[i].pieces
  OBVIOUS
<1>6. PICK call : call = items[i].call
  OBVIOUS
<1>7. /\ i \in Nat /\ items[i] \in Items /\ old \in Seq(Nat) /\ call \in BOOLEAN
      /\ n \in Nat /\ Len(sent) \in Nat
  <2>1. i \in Nat /\ items[i] \in Items
    BY <1>1, <1>2, ElementsOf
  <2>2. n \in Nat /\ Len(sent) \in Nat
    BY <1>1, <1>4
  <2> QED
    BY <2>1, <2>2, <1>5, <1>6 DEF Items
<1>8. PICK one : one = <<n>>
  OBVIOUS
<1>9. PICK new : /\ new = old \/ (old = <<>> /\ new = one)
                 /\ items' = [items EXCEPT ![i] = [call |-> @.call, pieces |-> new, open |-> FALSE]]
                 /\ Send(<<Event("done", i, items[i].call, new)>>)
  BY <1>4, <1>5, <1>8 DEF Done, Piece
<1>10. PICK e : e = Event("done", i, call, new)
  OBVIOUS
<1>11. PICK item : item = [call |-> call, pieces |-> new, open |-> FALSE]
  OBVIOUS
<1>12. new \in Seq(Nat)
  <2>1. one \in Seq(Nat)
    BY <1>7, <1>8
  <2>2. new = old \/ new = one
    BY <1>9
  <2> QED
    BY <1>7, <2>1, <2>2
<1>13. item \in Items /\ item.call = call /\ item.pieces = new /\ item.open = FALSE
  BY <1>7, <1>11, <1>12 DEF Items
<1>14. /\ e \in Events /\ e.type = "done" /\ e.item = i
       /\ e.call = call /\ e.pieces = new
  BY <1>7, <1>10, <1>12, EventPut
<1>15. items' = [items EXCEPT ![i] = item]
  BY <1>6, <1>9, <1>11
<1>16. sent' = sent \o <<e>>
  BY <1>6, <1>9, <1>10 DEF Send
<1>17. Changed(items, items', i, item)
  <2>1. item \in Items
    BY <1>13
  <2> QED
    BY <1>1, <1>2, <1>15, <2>1, ItemChanged
<1>18. /\ Grown(sent, sent', e) /\ sent' \in Seq(Events)
       /\ n \in (DOMAIN sent') \ (DOMAIN sent)
       /\ \A k \in DOMAIN sent' : k \in DOMAIN sent \/ k = n
  <2>1. e \in Events
    BY <1>14
  <2> QED
    BY <1>1, <1>4, <1>16, <2>1, SentOne
<1>19. new = items[i].pieces \/ (items[i].pieces = <<>> /\ new = <<n>>)
  BY <1>5, <1>8, <1>9
<1>20. Transcript(items', sent')
  BY <1>2, <1>3, <1>6, <1>7, <1>13, <1>14, <1>17, <1>18, <1>19, DoneKeeps
<1>21. Extended(old, new, Len(sent))
  <2>1. CASE new = old
    BY <1>7, <2>1, SameIsExtended
  <2>2. CASE new = one /\ old = <<>>
    <3>1. new = old \o <<n>>
      BY <1>8, <2>2
    <3> QED
      BY <1>4, <1>7, <3>1, OneMoreIsExtended
  <2> QED
    BY <1>9, <2>1, <2>2
<1> QED
  BY <1>5, <1>6, <1>13, <1>17, <1>18, <1>20, <1>21, LongerByOne

\* response.completed, when all items are done.
LEMMA CompleteLonger ==
    ASSUME Transcript(items, sent), Complete
    PROVE  Longer(items, sent, items', sent')
<1>1. items \in Seq(Items) /\ sent \in Seq(Events)
  BY DEF Transcript
<1>2. NotCompleted(sent) /\ items' = items /\ \A i \in DOMAIN items : ~items[i].open
  BY StillRunning DEF Complete, Completed
<1>3. PICK none : none = <<>>
  OBVIOUS
<1>4. PICK e : e = Event("completed", 0, FALSE, none)
  OBVIOUS
<1>5. /\ e \in Events /\ e.type = "completed" /\ e.item = 0
      /\ e.call = FALSE /\ e.pieces = none
  <2>1. none \in Seq(Nat)
    BY <1>3
  <2> QED
    BY <1>4, <2>1 DEF Event, Events
<1>6. sent' = sent \o <<e>>
  BY <1>3, <1>4 DEF Complete, Send
<1>7. Grown(sent, sent', e) /\ sent' \in Seq(Events) /\ Len(sent) \in Nat
  <2>1. e \in Events
    BY <1>5
  <2> QED
    BY <1>1, <1>6, <2>1, SentOne
<1>8. Transcript(items', sent')
  BY <1>2, <1>5, <1>7, CompletedKeeps
<1>9. Len(sent) <= Len(sent')
  BY <1>1, <1>7 DEF Grown
<1>10. ASSUME NEW i \in DOMAIN items PROVE Extended(items[i].pieces, items[i].pieces, Len(sent))
  <2>1. items[i] \in Items
    BY <1>1, ElementsOf
  <2>2. items[i].pieces \in Seq(Nat)
    BY <2>1 DEF Items
  <2> QED
    BY <2>2, SameIsExtended
<1> QED
  BY <1>2, <1>7, <1>8, <1>9, <1>10 DEF Longer, Grown

-----------------------------------------------------------------------------
(* The reader's side *)

\* Pieces that come later are not among those up to now.
LEMMA UptoStays ==
    ASSUME NEW pieces \in Seq(Nat), NEW new \in Seq(Nat), NEW n \in Nat, NEW r \in Nat, r <= n,
           Extended(pieces, new, n), NEW args, Upto(args, pieces, r)
    PROVE  Upto(args, new, r)
<1>1. /\ args \in Seq(Nat) /\ Len(args) <= Len(pieces) /\ Len(pieces) <= Len(new)
      /\ Len(args) \in Nat /\ Len(pieces) \in Nat /\ Len(new) \in Nat
      /\ DOMAIN args = 1..Len(args) /\ DOMAIN pieces = 1..Len(pieces)
      /\ DOMAIN new = 1..Len(new)
  BY DEF Upto, Extended
<1>2. \A j \in DOMAIN args : args[j] = new[j] /\ new[j] <= r
  BY <1>1 DEF Upto, Extended
<1>3. ASSUME NEW j \in DOMAIN new, j > Len(args) PROVE new[j] > r
  <2>1. CASE j \in DOMAIN pieces
    BY <1>3, <2>1 DEF Upto, Extended
  <2>2. CASE j \notin DOMAIN pieces
    <3>1. new[j] \in Nat /\ new[j] > n
      BY <2>2 DEF Extended
    <3> QED
      BY <3>1
  <2> QED
    BY <2>1, <2>2
<1> QED
  BY <1>1, <1>2, <1>3 DEF Upto

\* Only calls are known, and each is an item.
LEMMA KnownAreItems ==
    ASSUME Transcript(items, sent), read \in 0..Len(sent), CallsKnown
    PROVE  \A i \in DOMAIN tools : i \in DOMAIN items /\ items[i].call
<1> SUFFICES ASSUME NEW i \in DOMAIN tools PROVE i \in DOMAIN items /\ items[i].call
  OBVIOUS
<1>1. PICK k \in 1..read : sent[k].call /\ sent[k].item = i
  BY DEF CallsKnown
<1>2. sent \in Seq(Events)
  BY DEF Transcript
<1>3. k \in DOMAIN sent
  BY <1>2
<1> QED
  BY <1>1, <1>3 DEF Transcript, EventOK

\* The types that a transcript has.
LEMMA PiecesOfItems ==
    ASSUME NEW its, NEW evs, Transcript(its, evs)
    PROVE  /\ its \in Seq(Items) /\ evs \in Seq(Events) /\ Len(evs) \in Nat
           /\ DOMAIN evs = 1..Len(evs)
           /\ \A i \in DOMAIN its : its[i].pieces \in Seq(Nat) /\ i \in Nat
<1>1. its \in Seq(Items) /\ evs \in Seq(Events)
  BY DEF Transcript
<1>2. ASSUME NEW i \in DOMAIN its PROVE its[i].pieces \in Seq(Nat) /\ i \in Nat
  <2>1. its[i] \in Items /\ i \in Nat
    BY <1>1, ElementsOf
  <2> QED
    BY <2>1 DEF Items
<1> QED
  BY <1>1, <1>2

\* Whatever the provider sends, the reader has what it had.
LEMMA ProviderKeeps ==
    ASSUME IInv, Longer(items, sent, items', sent'), upstream = "open",
           UNCHANGED <<shape, upstream, read, buffer, tools, next, saw, client, damaged>>
    PROVE  IInv'
<1>1. /\ Transcript(items, sent) /\ read \in 0..Len(sent)
      /\ CallsKnown /\ CallsTold /\ TextTold /\ Ended
  BY DEF IInv
<1>2. Transcript(items', sent') /\ Len(sent) <= Len(sent')
  BY DEF Longer
<1>3. read' = read /\ read \in 0..Len(sent') /\ read \in Nat /\ read <= Len(sent)
  <2>1. Len(sent) \in Nat /\ Len(sent') \in Nat
    BY <1>1, <1>2, PiecesOfItems
  <2> QED
    BY <1>1, <1>2, <2>1
<1>4. \A k \in 1..read : sent'[k] = sent[k]
  <2>1. DOMAIN sent = 1..Len(sent)
    BY <1>1, PiecesOfItems
  <2> QED
    BY <1>3, <2>1 DEF Longer
<1>5. CallsKnown'
  <2>1. {m \in 1..read : sent'[m].call} = {m \in 1..read : sent[m].call}
    BY <1>4
  <2>2. {sent'[k].item : k \in {m \in 1..read : sent'[m].call}}
            = {sent[k].item : k \in {m \in 1..read : sent[m].call}}
    BY <1>4, <2>1
  <2>3. \A i : (\E k \in 1..read : sent'[k].type = "delta" /\ sent'[k].item = i)
                  <=> \E k \in 1..read : sent[k].type = "delta" /\ sent[k].item = i
    BY <1>4
  <2> QED
    BY <1>1, <2>2, <2>3 DEF CallsKnown
<1>6. CallsTold'
  <2>1. ASSUME NEW i \in DOMAIN tools, ~damaged
        PROVE  Upto(client.calls[tools[i].index].args, items'[i].pieces, read)
    <3>1. i \in DOMAIN items
      BY <1>1, KnownAreItems
    <3>2. i \in DOMAIN items' /\ Extended(items[i].pieces, items'[i].pieces, Len(sent))
      BY <3>1 DEF Longer
    <3>3. items[i].pieces \in Seq(Nat) /\ items'[i].pieces \in Seq(Nat) /\ Len(sent) \in Nat
      BY <1>1, <1>2, <3>1, <3>2, PiecesOfItems
    <3>4. Upto(client.calls[tools[i].index].args, items[i].pieces, read)
      BY <1>1, <2>1 DEF CallsTold
    <3> QED
      BY <1>3, <3>2, <3>3, <3>4, UptoStays
  <2> QED
    BY <1>1, <2>1 DEF CallsTold
<1>7. TextTold'
  <2>1. {k \in 1..read : sent'[k].type = "delta" /\ ~sent'[k].call}
            = {k \in 1..read : sent[k].type = "delta" /\ ~sent[k].call}
    BY <1>4
  <2> QED
    BY <1>1, <2>1 DEF TextTold
<1>8. Ended'
  <2>1. client.finish = "none"
    BY <1>1 DEF Ended
  <2> QED
    BY <1>1, <2>1 DEF Ended
<1> QED
  BY <1>2, <1>3, <1>5, <1>6, <1>7, <1>8 DEF IInv

\* The next event is not a piece of this item.
LEMMA UptoSkip ==
    ASSUME NEW pieces \in Seq(Nat), NEW r \in Nat, NEW args, Upto(args, pieces, r),
           ~Has(pieces, r + 1)
    PROVE  Upto(args, pieces, r + 1)
<1>1. /\ args \in Seq(Nat) /\ Len(args) <= Len(pieces)
      /\ \A j \in DOMAIN args : args[j] = pieces[j] /\ pieces[j] <= r
      /\ \A j \in DOMAIN pieces : j > Len(args) => pieces[j] > r
      /\ \A j \in DOMAIN pieces : pieces[j] # r + 1
  BY DEF Upto, Has
<1>2. ASSUME NEW j \in DOMAIN args PROVE args[j] = pieces[j] /\ pieces[j] <= r + 1
  <2>1. j \in DOMAIN pieces
    BY <1>1
  <2>2. pieces[j] \in Nat
    BY <2>1
  <2> QED
    BY <1>1, <2>2
<1>3. ASSUME NEW j \in DOMAIN pieces, j > Len(args) PROVE pieces[j] > r + 1
  <2>1. pieces[j] > r /\ pieces[j] # r + 1 /\ pieces[j] \in Nat
    BY <1>1, <1>3
  <2> QED
    BY <2>1
<1> QED
  BY <1>1, <1>2, <1>3 DEF Upto

\* The next event is a piece of this item.
LEMMA UptoNext ==
    ASSUME NEW pieces \in Seq(Nat), NEW r \in Nat, NEW args, Upto(args, pieces, r),
           IsAscending(pieces), Has(pieces, r + 1)
    PROVE  Upto(args \o <<r + 1>>, pieces, r + 1)
<1>1. /\ args \in Seq(Nat) /\ Len(args) <= Len(pieces)
      /\ \A j \in DOMAIN args : args[j] = pieces[j] /\ pieces[j] <= r
      /\ \A j \in DOMAIN pieces : j > Len(args) => pieces[j] > r
      /\ \A j, m \in DOMAIN pieces : j < m => pieces[j] < pieces[m]
  BY DEF Upto, IsAscending
<1>2. PICK k \in DOMAIN pieces : pieces[k] = r + 1
  BY DEF Has
<1>3. PICK a : a = Len(args)
  OBVIOUS
<1>4. a \in Nat /\ k \in Nat /\ DOMAIN args = 1..a /\ DOMAIN pieces = 1..Len(pieces)
  BY <1>1, <1>3
<1>5. k > a
  <2>1. ASSUME k <= a PROVE FALSE
    <3>1. k \in DOMAIN args
      BY <1>4, <2>1
    <3>2. pieces[k] <= r
      BY <1>1, <3>1
    <3> QED
      BY <1>2, <3>2
  <2> QED
    BY <1>4, <2>1
<1>6. k = a + 1
  <2>1. ASSUME k > a + 1 PROVE FALSE
    <3>1. a + 1 \in DOMAIN pieces
      BY <1>4, <2>1
    <3>2. pieces[a + 1] > r /\ pieces[a + 1] < r + 1
      <4>1. PICK m : m = a + 1
        OBVIOUS
      <4>2. m > Len(args) /\ m < k /\ m \in DOMAIN pieces
        BY <1>3, <1>4, <2>1, <3>1, <4>1
      <4>3. pieces[m] > r
        BY <1>1, <4>2
      <4>4. pieces[m] < pieces[k]
        BY <1>1, <4>2
      <4> QED
        BY <1>2, <4>1, <4>3, <4>4
    <3>3. pieces[a + 1] \in Nat
      BY <3>1
    <3> QED
      BY <3>2, <3>3
  <2> QED
    BY <1>4, <1>5, <2>1
<1>7. PICK new : new = args \o <<r + 1>>
  OBVIOUS
<1>8. /\ new \in Seq(Nat) /\ Len(new) = a + 1 /\ DOMAIN new = 1..(a + 1)
      /\ new[a + 1] = r + 1 /\ \A j \in 1..a : new[j] = args[j]
  BY <1>1, <1>3, <1>7
<1>9. ASSUME NEW j \in DOMAIN new PROVE new[j] = pieces[j] /\ pieces[j] <= r + 1
  <2>1. CASE j = a + 1
    BY <1>2, <1>6, <1>8, <2>1
  <2>2. CASE j # a + 1
    <3>1. j \in DOMAIN args /\ j \in DOMAIN pieces
      BY <1>1, <1>3, <1>4, <1>8, <2>2
    <3>2. new[j] = pieces[j] /\ pieces[j] <= r /\ pieces[j] \in Nat
      BY <1>1, <1>4, <1>8, <3>1
    <3> QED
      BY <3>2
  <2> QED
    BY <2>1, <2>2
<1>10. ASSUME NEW j \in DOMAIN pieces, j > Len(new) PROVE pieces[j] > r + 1
  <2>1. k < j
    BY <1>4, <1>6, <1>8, <1>10
  <2> QED
    BY <1>1, <1>2, <2>1
<1>11. Len(new) <= Len(pieces)
  BY <1>2, <1>4, <1>6, <1>8
<1> QED
  BY <1>7, <1>8, <1>9, <1>10, <1>11 DEF Upto

\* All pieces are from events up to now.
LEMMA UptoAll ==
    ASSUME NEW pieces \in Seq(Nat), NEW r \in Nat, \A j \in DOMAIN pieces : pieces[j] <= r
    PROVE  Upto(pieces, pieces, r)
BY DEF Upto

\* No piece is.
LEMMA UptoNone ==
    ASSUME NEW pieces \in Seq(Nat), NEW r \in Nat, \A j \in DOMAIN pieces : pieces[j] > r
    PROVE  Upto(<<>>, pieces, r)
BY DEF Upto

\* A piece came with a delta, or it is the only one and came with the done.
LEMMA PieceIsEvent ==
    ASSUME NEW its, NEW evs, Transcript(its, evs), NEW i \in DOMAIN its,
           NEW j \in DOMAIN its[i].pieces
    PROVE  /\ its[i].pieces[j] \in DOMAIN evs /\ evs[its[i].pieces[j]].item = i
           /\ \/ evs[its[i].pieces[j]].type = "delta"
              \/ evs[its[i].pieces[j]].type = "done" /\ Len(its[i].pieces) = 1
BY DEF Transcript, ItemOK, PiecesOK, PieceOK

\* What the next event of an item brings, if output_item.done repeats no deltas.
LEMMA NewPieces ==
    ASSUME NEW its, NEW evs, Transcript(its, evs),
           NEW n \in Nat, NEW r, r = n + 1, r \in DOMAIN evs,
           NEW i \in DOMAIN its, evs[r].item = i, NEW args, Upto(args, its[i].pieces, n),
           NEW streamed,
           streamed <=> \E k \in 1..n : evs[k].type = "delta" /\ evs[k].item = i,
           NEW p, p = IF evs[r].type = "done" /\ streamed THEN <<>> ELSE evs[r].pieces
    PROVE  Upto(args \o p, its[i].pieces, r)
<1>1. PICK pieces : pieces = its[i].pieces
  OBVIOUS
<1>2. /\ pieces \in Seq(Nat) /\ args \in Seq(Nat) /\ IsAscending(pieces)
      /\ DOMAIN evs = 1..Len(evs) /\ Len(evs) \in Nat
  <2>1. IsAscending(pieces) /\ args \in Seq(Nat)
    BY <1>1 DEF Transcript, ItemOK, PiecesOK, Upto
  <2> QED
    BY <1>1, <2>1, PiecesOfItems
<1>3. EventOK(its, evs, r) /\ evs[r].type # "completed" /\ evs[r] \in Events
  <2>1. EventOK(its, evs, r) /\ 0 \notin DOMAIN its /\ evs[r] \in Events
    BY DEF Transcript
  <2> QED
    BY <2>1 DEF EventOK
<1>4. args \o <<>> = args
  BY <1>2
<1>5. ASSUME NEW j \in DOMAIN pieces
      PROVE  /\ pieces[j] \in DOMAIN evs /\ evs[pieces[j]].item = i
             /\ evs[pieces[j]].type = "delta" \/ (evs[pieces[j]].type = "done" /\ Len(pieces) = 1)
  BY <1>1, PieceIsEvent
<1>6. ASSUME p = <<>>, ~Has(pieces, r) PROVE Upto(args \o p, pieces, r)
  BY <1>1, <1>2, <1>4, <1>6, UptoSkip
<1>7. CASE evs[r].type = "added"
  <2>1. p = <<>>
    BY <1>3, <1>7 DEF EventOK
  <2>2. ~Has(pieces, r)
    BY <1>5, <1>7 DEF Has
  <2> QED
    BY <1>1, <1>6, <2>1, <2>2
<1>8. CASE evs[r].type = "delta"
  <2>1. p = <<r>> /\ Has(pieces, r)
    BY <1>1, <1>3, <1>8 DEF EventOK
  <2>2. Upto(args \o <<n + 1>>, pieces, n + 1)
    BY <1>1, <1>2, <2>1, UptoNext
  <2> QED
    BY <1>1, <2>1, <2>2
<1>9. CASE evs[r].type = "done" /\ streamed
  <2>1. PICK k \in 1..n : evs[k].type = "delta" /\ evs[k].item = i
    BY <1>9
  <2>2. k \in DOMAIN evs /\ k # r
    BY <1>2, <2>1
  <2>3. EventOK(its, evs, k)
    BY <2>2 DEF Transcript
  <2>4. Has(pieces, k)
    BY <1>1, <2>1, <2>3 DEF EventOK
  <2>5. ~Has(pieces, r)
    <3>1. SUFFICES ASSUME NEW j \in DOMAIN pieces, pieces[j] = r PROVE FALSE
      BY DEF Has
    <3>2. Len(pieces) = 1
      BY <1>5, <1>9, <3>1
    <3>3. PICK m \in DOMAIN pieces : pieces[m] = k
      BY <2>4 DEF Has
    <3>4. m = j
      BY <1>2, <3>2
    <3> QED
      BY <2>2, <3>1, <3>3, <3>4
  <2> QED
    BY <1>1, <1>6, <1>9, <2>5
<1>10. CASE evs[r].type = "done" /\ ~streamed
  <2>1. p = pieces /\ LastOfItem(evs, r)
    BY <1>1, <1>3, <1>10 DEF EventOK
  <2>2. \A j \in DOMAIN pieces : pieces[j] <= r
    BY <1>5, <2>1 DEF LastOfItem
  <2>3. Upto(pieces, pieces, r)
    <3>1. r \in Nat
      OBVIOUS
    <3> QED
      BY <1>2, <2>2, <3>1, UptoAll
  <2>4. args = <<>>
    <3>1. SUFFICES ASSUME Len(args) # 0 PROVE FALSE
      BY <1>2
    <3>2. 1 \in DOMAIN args /\ 1 \in DOMAIN pieces
      BY <1>1, <1>2, <3>1 DEF Upto
    <3>3. pieces[1] <= n
      BY <1>1, <3>2 DEF Upto
    <3>4. PICK k : k = pieces[1]
      OBVIOUS
    <3>5. /\ k \in DOMAIN evs /\ evs[k].item = i /\ k <= n
          /\ evs[k].type = "delta" \/ evs[k].type = "done"
      BY <1>5, <3>2, <3>3, <3>4
    <3>6. k \in 1..n
      BY <1>2, <3>5
    <3>7. evs[k].type = "done"
      BY <1>10, <3>5, <3>6
    <3>8. LastOfItem(evs, k)
      BY <3>5, <3>7 DEF Transcript, EventOK
    <3>9. r <= k
      BY <3>5, <3>8 DEF LastOfItem
    <3> QED
      BY <3>6, <3>9
  <2>5. <<>> \o pieces = pieces
    BY <1>2
  <2> QED
    BY <1>1, <2>1, <2>3, <2>4, <2>5
<1> QED
  BY <1>1, <1>3, <1>7, <1>8, <1>9, <1>10 DEF Events

\* What the client has after the start and the arguments of a call.
AfterCall(c2, t, calls, fin, state, e, p) ==
    /\ c2 = [text |-> t, calls |-> c2.calls, stray |-> FALSE, finish |-> fin]
    /\ DOMAIN c2.calls = DOMAIN calls \cup {state.index}
    /\ \A y \in DOMAIN calls : y # state.index => c2.calls[y] = calls[y]
    /\ \A i, a :
           /\ (IF state.started THEN calls[state.index]
               ELSE [item |-> e.item, args |-> <<>>]) = [item |-> i, args |-> a]
           /\ a \in Seq(Nat)
           => c2.calls[state.index] = [item |-> i, args |-> a \o p]

\* What the client has after its call was started, if need be, and given
\* arguments.
LEMMA Handled ==
    ASSUME NEW t, NEW calls, NEW fin, NEW c,
           c = [text |-> t, calls |-> calls, stray |-> FALSE, finish |-> fin],
           NEW state, NEW e, NEW p, NEW c2,
           state.started => state.index \in DOMAIN calls,
           c2 = Arguments(Start(c, state, e), state.index, p)
    PROVE  AfterCall(c2, t, calls, fin, state, e, p)
<1>1. PICK x : x = state.index
  OBVIOUS
<1>2. PICK fresh : fresh = [item |-> e.item, args |-> <<>>]
  OBVIOUS
<1>3. PICK calls1 : calls1 = IF state.started THEN calls ELSE Set(calls, x, fresh)
  OBVIOUS
<1>4. PICK c1 : c1 = Start(c, state, e)
  OBVIOUS
<1>5. c1 = [text |-> t, calls |-> calls1, stray |-> FALSE, finish |-> fin]
  <2>1. CASE state.started
    BY <1>3, <1>4, <2>1 DEF Start
  <2>2. CASE ~state.started
    <3>1. c1 = [c EXCEPT !.calls = Set(@, x, fresh)]
      BY <1>1, <1>2, <1>4, <2>2 DEF Start
    <3>2. c.calls = calls
      OBVIOUS
    <3> QED
      BY <1>3, <2>2, <3>1, <3>2
  <2> QED
    BY <2>1, <2>2
<1>6. /\ DOMAIN calls1 = DOMAIN calls \cup {x}
      /\ \A y \in DOMAIN calls : y # x => calls1[y] = calls[y]
      /\ calls1[x] = IF state.started THEN calls[x] ELSE fresh
  <2>1. CASE state.started
    BY <1>1, <1>3, <2>1
  <2>2. CASE ~state.started
    BY <1>3, <2>2 DEF Set
  <2> QED
    BY <2>1, <2>2
<1>7. PICK calls2 : calls2 = IF p = <<>> THEN calls1
                             ELSE [calls1 EXCEPT ![x].args = @ \o p]
  OBVIOUS
<1>8. c2 = [text |-> t, calls |-> calls2, stray |-> FALSE, finish |-> fin]
  <2>1. c2 = Arguments(c1, x, p)
    BY <1>1, <1>4
  <2>2. CASE p = <<>>
    BY <1>5, <1>7, <2>1, <2>2 DEF Arguments
  <2>3. CASE p # <<>>
    <3>1. c1.calls = calls1 /\ x \in DOMAIN c1.calls
      BY <1>5, <1>6
    <3>2. c2 = [c1 EXCEPT !.calls[x].args = @ \o p]
      BY <2>1, <2>3, <3>1 DEF Arguments
    <3>3. calls2 = [calls1 EXCEPT ![x].args = @ \o p]
      BY <1>7, <2>3
    <3>4. c2 = [c1 EXCEPT !.calls = calls2]
      BY <3>1, <3>2, <3>3
    <3> QED
      BY <1>5, <3>4
  <2> QED
    BY <2>2, <2>3
<1>9. /\ DOMAIN calls2 = DOMAIN calls \cup {x}
      /\ \A y \in DOMAIN calls : y # x => calls2[y] = calls[y]
  BY <1>6, <1>7
<1>10. ASSUME NEW i, NEW a \in Seq(Nat),
              (IF state.started THEN calls[x] ELSE fresh) = [item |-> i, args |-> a]
       PROVE  calls2[x] = [item |-> i, args |-> a \o p]
  <2>1. calls1[x] = [item |-> i, args |-> a] /\ x \in DOMAIN calls1
    BY <1>6, <1>10
  <2>2. CASE p = <<>>
    BY <1>7, <2>1, <2>2
  <2>3. CASE p # <<>>
    <3>1. PICK more : more = a \o p
      OBVIOUS
    <3>2. calls2[x] = [calls1[x] EXCEPT !.args = @ \o p]
      BY <1>7, <2>1, <2>3
    <3>3. calls1[x].args = a
      BY <2>1
    <3>4. calls2[x] = [calls1[x] EXCEPT !.args = more]
      BY <3>1, <3>2, <3>3
    <3>5. calls2[x] = [item |-> i, args |-> more]
      BY <2>1, <3>4
    <3> QED
      BY <3>1, <3>5
  <2> QED
    BY <2>2, <2>3
<1>11. c2.calls = calls2
  BY <1>8
<1>12. c2 = [text |-> t, calls |-> c2.calls, stray |-> FALSE, finish |-> fin]
  BY <1>8, <1>11
<1>13. /\ DOMAIN c2.calls = DOMAIN calls \cup {state.index}
       /\ \A y \in DOMAIN calls : y # state.index => c2.calls[y] = calls[y]
  BY <1>1, <1>9, <1>11
<1>14. ASSUME NEW i, NEW a,
              (IF state.started THEN calls[state.index]
               ELSE [item |-> e.item, args |-> <<>>]) = [item |-> i, args |-> a],
              a \in Seq(Nat)
       PROVE  c2.calls[state.index] = [item |-> i, args |-> a \o p]
  <2>1. (IF state.started THEN calls[x] ELSE fresh) = [item |-> i, args |-> a]
    BY <1>1, <1>2, <1>14
  <2>2. calls2[x] = [item |-> i, args |-> a \o p]
    BY <1>10, <1>14, <2>1
  <2> QED
    BY <1>1, <1>11, <2>2
<1> QED
  BY <1>12, <1>13, <1>14 DEF AfterCall

\* An event that was cut has the same kind, and pieces if it had any.
LEMMA DecodedOf ==
    ASSUME NEW e \in Events, NEW e2, e2 = Decoded(e)
    PROVE  /\ e2.type = e.type /\ e2.item = e.item /\ e2.call = e.call
           /\ e2.pieces \in Seq(Nat) /\ (e2.pieces = <<>> <=> e.pieces = <<>>)
           /\ buffer # "cut" => e2.pieces = e.pieces
<1>1. e.pieces \in Seq(Nat)
  BY DEF Events
<1>2. PICK s : s = e.pieces
  OBVIOUS
<1>3. PICK wrong : wrong = [k \in DOMAIN s |-> 0]
  OBVIOUS
<1>4. wrong \in Seq(Nat) /\ (wrong = <<>> <=> s = <<>>)
  <2>1. DOMAIN s = 1..Len(s) /\ Len(s) \in Nat
    BY <1>1, <1>2
  <2>2. wrong \in Seq(Nat) /\ Len(wrong) = Len(s)
    BY <1>3, <2>1
  <2> QED
    BY <1>1, <1>2, <2>1, <2>2
<1>5. CASE buffer = "cut"
  <2>1. e2 = [e EXCEPT !.pieces = wrong]
    BY <1>2, <1>3, <1>5 DEF Decoded
  <2>2. e2.pieces = wrong /\ e2.type = e.type /\ e2.item = e.item /\ e2.call = e.call
    BY <2>1 DEF Events
  <2> QED
    BY <1>2, <1>4, <1>5, <2>2
<1>6. CASE buffer # "cut"
  BY <1>1, <1>6 DEF Decoded
<1> QED
  BY <1>5, <1>6

\* The event that is read next.
LEMMA Reading ==
    ASSUME IInv, ReadEvent, NEW r, r = read + 1
    PROVE  /\ Transcript(items, sent) /\ sent \in Seq(Events) /\ Len(sent) \in Nat
           /\ r \in DOMAIN sent /\ r \in 1..Len(sent) /\ read \in Nat /\ r \in Nat
           /\ 1..r = 1..read \cup {r}
           /\ EventOK(items, sent, r) /\ sent[r] \in Events
           /\ \A k \in 1..r : k \in DOMAIN sent
           /\ read' = r /\ client.finish = "none" /\ buffer' = "none"
           /\ UNCHANGED <<shape, items, sent, upstream, damaged>>
           /\ (sent[r].call => sent[r].item \in DOMAIN items /\ items[sent[r].item].call)
<1>1. Transcript(items, sent) /\ read \in 0..Len(sent)
  BY DEF IInv
<1>2. sent \in Seq(Events) /\ Len(sent) \in Nat /\ DOMAIN sent = 1..Len(sent)
  BY <1>1, PiecesOfItems
<1>3. read < Len(sent) /\ read' = r /\ client.finish = "none" /\ buffer' = "none"
  BY DEF ReadEvent
<1>4. UNCHANGED <<shape, items, sent, upstream, damaged>>
  BY DEF ReadEvent
<1>5. /\ r \in DOMAIN sent /\ r \in 1..Len(sent) /\ read \in Nat /\ r \in Nat
      /\ 1..r = 1..read \cup {r} /\ \A k \in 1..r : k \in DOMAIN sent
  BY <1>1, <1>2, <1>3
<1>6. EventOK(items, sent, r) /\ sent[r] \in Events
  BY <1>1, <1>2, <1>5, ElementsOf DEF Transcript
<1>7. sent[r].call => sent[r].item \in DOMAIN items /\ items[sent[r].item].call
  BY <1>6 DEF EventOK
<1> QED
  BY <1>1, <1>2, <1>3, <1>4, <1>5, <1>6, <1>7

\* The state that an event of a call finds, or makes.
LEMMA StateOf ==
    ASSUME IInv, NEW i \in Nat \ {0}, NEW state, state = ToolState(i)
    PROVE  /\ state.index \in Nat
           /\ state.started <=> i \in DOMAIN tools
           /\ i \in DOMAIN tools => state = tools[i] /\ state.index < next
           /\ i \notin DOMAIN tools => ~state.streamed
           /\ shape.indexed => state.index = i - 1
           /\ i \notin DOMAIN tools => \A j \in DOMAIN tools : tools[j].index # state.index
<1>1. CallsKnown /\ DOMAIN tools \subseteq Nat /\ next \in Nat
  <2>1. CallsKnown /\ Transcript(items, sent) /\ read \in 0..Len(sent)
    BY DEF IInv
  <2>2. \A j \in DOMAIN tools : j \in DOMAIN items
    BY <2>1, KnownAreItems
  <2>3. \A j \in DOMAIN items : j \in Nat
    BY <2>1, PiecesOfItems
  <2> QED
    BY <2>1, <2>2, <2>3 DEF CallsKnown
<1>2. CASE i \in DOMAIN tools
  <2>1. state = tools[i]
    BY <1>2 DEF ToolState
  <2> QED
    BY <1>1, <1>2, <2>1 DEF CallsKnown
<1>3. CASE i \notin DOMAIN tools
  <2>1. /\ state.index = IF shape.indexed THEN i - 1 ELSE next
        /\ state.started = FALSE /\ state.streamed = FALSE
    BY <1>3 DEF ToolState
  <2>2. CASE shape.indexed
    <3>1. state.index = i - 1
      BY <2>1, <2>2
    <3>2. \A j \in DOMAIN tools : tools[j].index = j - 1 /\ j \in Nat /\ j # i
      BY <1>1, <1>3, <2>2 DEF CallsKnown
    <3>3. \A j \in DOMAIN tools : tools[j].index # state.index
      BY <3>1, <3>2
    <3> QED
      BY <1>3, <2>1, <3>1, <3>3
  <2>3. CASE ~shape.indexed
    <3>1. state.index = next
      BY <2>1, <2>3
    <3>2. \A j \in DOMAIN tools : tools[j].index # state.index
      BY <1>1, <3>1 DEF CallsKnown
    <3> QED
      BY <1>1, <1>3, <2>1, <2>3, <3>1, <3>2
  <2> QED
    BY <2>2, <2>3
<1> QED
  BY <1>2, <1>3

\* The calls after an event of a call.
LEMMA CallKnown ==
    ASSUME IInv, ReadEvent, NEW r, r = read + 1, sent[r].call,
           NEW i, i = sent[r].item, NEW state, state = ToolState(i),
           NEW e, e = Decoded(sent[r])
    PROVE  /\ CallsKnown' /\ DOMAIN tools' = DOMAIN tools \cup {i}
           /\ \A j \in DOMAIN tools : j # i => tools'[j] = tools[j]
           /\ tools'[i].index = state.index
<1>1. /\ sent \in Seq(Events) /\ r \in DOMAIN sent /\ read \in Nat /\ r \in Nat
      /\ 1..r = 1..read \cup {r} /\ EventOK(items, sent, r) /\ sent[r] \in Events
      /\ read' = r /\ UNCHANGED <<shape, items, sent>> /\ i \in DOMAIN items
      /\ Transcript(items, sent)
  BY Reading
<1>2. i \in Nat \ {0}
  <2>1. 0 \notin DOMAIN items /\ i \in Nat
    BY <1>1 DEF Transcript
  <2> QED
    BY <1>1, <2>1
<1>3. /\ state.index \in Nat
      /\ i \in DOMAIN tools => state = tools[i] /\ state.index < next
      /\ i \notin DOMAIN tools => ~state.streamed
      /\ shape.indexed => state.index = i - 1
      /\ i \notin DOMAIN tools => \A j \in DOMAIN tools : tools[j].index # state.index
  BY <1>2, StateOf
<1>4. /\ e.type = sent[r].type /\ e.item = i /\ e.call = sent[r].call
      /\ e.pieces = <<>> <=> sent[r].pieces = <<>>
  BY <1>1, DecodedOf
<1>5. PICK x : x = state.index
  OBVIOUS
<1>6. PICK streamed : streamed = (state.streamed \/ (e.type = "delta" /\ e.pieces # <<>>))
  OBVIOUS
<1>7. PICK tool : tool = [index |-> x, started |-> TRUE, streamed |-> streamed]
  OBVIOUS
<1>8. tools' = Set(tools, i, tool) /\ next' = Larger(next, x + 1)
  <2>1. HandleCall(e)
    BY <1>4 DEF ReadEvent
  <2> QED
    BY <1>4, <1>5, <1>6, <1>7, <2>1 DEF HandleCall
<1>9. /\ DOMAIN tools' = DOMAIN tools \cup {i} /\ tools'[i] = tool
      /\ \A j \in DOMAIN tools : j # i => tools'[j] = tools[j]
  BY <1>8 DEF Set
<1>10. tool.index = x /\ tool.started /\ tool.streamed = streamed
  BY <1>7
<1>11. CallsKnown
  BY DEF IInv
<1>12. DOMAIN tools' = {sent[k].item : k \in {m \in 1..r : sent[m].call}}
  BY <1>1, <1>9, <1>11 DEF CallsKnown
<1>13. next' \in Nat /\ next <= next' /\ x < next' /\ next \in Nat /\ x \in Nat
  BY <1>3, <1>5, <1>8, <1>11 DEF CallsKnown, Larger
<1>14. streamed <=> \E k \in 1..r : sent[k].type = "delta" /\ sent[k].item = i
  <2>1. state.streamed <=> \E k \in 1..read : sent[k].type = "delta" /\ sent[k].item = i
    <3>1. CASE i \in DOMAIN tools
      BY <1>3, <1>11, <3>1 DEF CallsKnown
    <3>2. CASE i \notin DOMAIN tools
      <4>1. SUFFICES ASSUME NEW k \in 1..read, sent[k].type = "delta", sent[k].item = i
                     PROVE  FALSE
        BY <1>3, <3>2
      <4>2. k \in DOMAIN sent
        BY <1>1
      <4>3. EventOK(items, sent, k)
        BY <1>1, <4>2 DEF Transcript
      <4>4. sent[k].call = items[i].call
        BY <4>1, <4>3 DEF EventOK
      <4>5. sent[k].call
        BY <1>1, <4>4 DEF EventOK
      <4>6. i \in DOMAIN tools
        BY <1>11, <4>1, <4>5 DEF CallsKnown
      <4> QED
        BY <3>2, <4>6
    <3> QED
      BY <3>1, <3>2
  <2>2. sent[r].type = "delta" => sent[r].pieces # <<>>
    <3>1. sent[r].type = "delta" => sent[r].pieces = <<r>>
      BY <1>1 DEF EventOK
    <3>2. <<r>> # <<>>
      OBVIOUS
    <3> QED
      BY <3>1, <3>2
  <2>3. streamed <=> state.streamed \/ sent[r].type = "delta"
    BY <1>4, <1>6, <2>2
  <2> QED
    BY <1>1, <2>1, <2>3
<1>15. ASSUME NEW j \in DOMAIN tools'
       PROVE  /\ tools'[j].started /\ tools'[j].index \in 0..(next' - 1)
              /\ shape.indexed => tools'[j].index = j - 1
              /\ tools'[j].streamed <=>
                     \E k \in 1..r : sent[k].type = "delta" /\ sent[k].item = j
  <2>1. CASE j = i
    BY <1>3, <1>5, <1>9, <1>10, <1>13, <1>14, <2>1
  <2>2. CASE j # i
    <3>1. j \in DOMAIN tools /\ tools'[j] = tools[j]
      BY <1>9, <2>2
    <3>2. /\ tools[j].started /\ tools[j].index \in 0..(next - 1)
          /\ shape.indexed => tools[j].index = j - 1
          /\ tools[j].streamed <=>
                 \E k \in 1..read : sent[k].type = "delta" /\ sent[k].item = j
      BY <1>11, <3>1 DEF CallsKnown
    <3>3. tools[j].index \in 0..(next' - 1)
      BY <1>13, <3>2
    <3>4. (\E k \in 1..read : sent[k].type = "delta" /\ sent[k].item = j)
              <=> \E k \in 1..r : sent[k].type = "delta" /\ sent[k].item = j
      BY <1>1, <2>2
    <3> QED
      BY <3>1, <3>2, <3>3, <3>4
  <2> QED
    BY <2>1, <2>2
<1>16. ASSUME NEW j \in DOMAIN tools', NEW k \in DOMAIN tools', tools'[j].index = tools'[k].index
       PROVE  j = k
  <2>1. CASE j # i /\ k # i
    <3>1. /\ j \in DOMAIN tools /\ k \in DOMAIN tools
          /\ tools'[j] = tools[j] /\ tools'[k] = tools[k]
      BY <1>9, <2>1
    <3> QED
      BY <1>11, <1>16, <3>1 DEF CallsKnown
  <2>2. ASSUME NEW m \in DOMAIN tools, m # i PROVE tools'[m].index # x
    <3>1. tools'[m] = tools[m]
      BY <1>9, <2>2
    <3>2. CASE i \in DOMAIN tools
      BY <1>3, <1>5, <1>11, <2>2, <3>1, <3>2 DEF CallsKnown
    <3>3. CASE i \notin DOMAIN tools
      BY <1>3, <1>5, <3>1, <3>3
    <3> QED
      BY <3>2, <3>3
  <2>3. tools'[i].index = x
    BY <1>9, <1>10
  <2> QED
    BY <1>9, <1>16, <2>1, <2>2, <2>3
<1>17. CallsKnown'
  <2>1. read' = r /\ shape' = shape /\ sent' = sent
    BY <1>1
  <2> QED
    BY <1>12, <1>13, <1>15, <1>16, <2>1 DEF CallsKnown
<1> QED
  BY <1>5, <1>9, <1>10, <1>17

\* An event of a function call.
LEMMA CallRead ==
    ASSUME IInv, ReadEvent, sent[read + 1].call
    PROVE  IInv'
<1>1. PICK r : r = read + 1
  OBVIOUS
<1>2. PICK i : i = sent[r].item
  OBVIOUS
<1>3. PICK state : state = ToolState(i)
  OBVIOUS
<1>4. PICK e : e = Decoded(sent[r])
  OBVIOUS
<1>5. PICK x : x = state.index
  OBVIOUS
<1>6. /\ Transcript(items, sent) /\ sent \in Seq(Events) /\ r \in DOMAIN sent
      /\ read \in Nat /\ r \in Nat /\ r \in 1..Len(sent) /\ Len(sent) \in Nat
      /\ 1..r = 1..read \cup {r} /\ EventOK(items, sent, r) /\ sent[r] \in Events
      /\ \A k \in 1..r : k \in DOMAIN sent
      /\ read' = r /\ client.finish = "none" /\ buffer' = "none"
      /\ UNCHANGED <<shape, items, sent, upstream, damaged>>
      /\ i \in DOMAIN items /\ items[i].call /\ sent[r].call
  BY <1>1, <1>2, Reading
<1>7. i \in Nat \ {0}
  <2>1. 0 \notin DOMAIN items /\ i \in Nat
    BY <1>6 DEF Transcript
  <2> QED
    BY <1>6, <2>1
<1>8. CallsKnown /\ CallsTold /\ TextTold /\ Ended
  BY DEF IInv
<1>9. /\ state.index \in Nat
      /\ state.started <=> i \in DOMAIN tools
      /\ i \in DOMAIN tools => state = tools[i] /\ state.index < next
      /\ i \notin DOMAIN tools => ~state.streamed
  BY <1>3, <1>7, StateOf
<1>10. /\ e.type = sent[r].type /\ e.item = i /\ e.call = sent[r].call
       /\ e.pieces \in Seq(Nat)
       /\ buffer # "cut" => e.pieces = sent[r].pieces
  BY <1>2, <1>4, <1>6, DecodedOf
<1>11. /\ CallsKnown' /\ DOMAIN tools' = DOMAIN tools \cup {i}
       /\ \A j \in DOMAIN tools : j # i => tools'[j] = tools[j]
       /\ tools'[i].index = x
  <2>1. sent[r].call
    BY <1>6
  <2>2. /\ CallsKnown' /\ DOMAIN tools' = DOMAIN tools \cup {i}
        /\ \A j \in DOMAIN tools : j # i => tools'[j] = tools[j]
        /\ tools'[i].index = state.index
    BY <1>1, <1>2, <1>3, <1>4, <2>1, CallKnown, Zenon
  <2> QED
    BY <1>5, <2>2
<1>12. PICK p : p = NewArguments(state, e)
  OBVIOUS
<1>13. /\ client' = Arguments(Start(client, state, e), state.index, p) /\ saw' = TRUE
  <2>1. HandleCall(e)
    BY <1>1, <1>4, <1>6, <1>10 DEF ReadEvent
  <2> QED
    BY <1>3, <1>10, <1>12, <2>1 DEF HandleCall
<1>14. PICK t, calls, fin : t = client.text /\ calls = client.calls /\ fin = client.finish
  OBVIOUS
<1>15. client = [text |-> t, calls |-> calls, stray |-> FALSE, finish |-> fin]
  BY <1>8, <1>14 DEF Ended
<1>16. /\ client' = [text |-> t, calls |-> client'.calls, stray |-> FALSE, finish |-> fin]
       /\ DOMAIN client'.calls = DOMAIN calls \cup {x}
       /\ \A y \in DOMAIN calls : y # x => client'.calls[y] = calls[y]
       /\ \A m, a : (IF state.started THEN calls[x]
                     ELSE [item |-> e.item, args |-> <<>>]) = [item |-> m, args |-> a]
                    /\ a \in Seq(Nat) =>
              client'.calls[x] = [item |-> m, args |-> a \o p]
  <2>1. state.started => state.index \in DOMAIN calls
    BY <1>8, <1>9, <1>14 DEF CallsTold
  <2>2. client' = Arguments(Start(client, state, e), state.index, p)
    BY <1>13
  <2>3. AfterCall(client', t, calls, fin, state, e, p)
    BY <1>15, <2>1, <2>2, Handled, Zenon
  <2> QED
    BY <1>5, <2>3 DEF AfterCall
<1>17. client'.text = t /\ client'.finish = fin
  BY <1>16
<1>18. CallsTold'
  <2>1. DOMAIN client'.calls = {tools'[j].index : j \in DOMAIN tools'}
    <3>1. DOMAIN calls = {tools[j].index : j \in DOMAIN tools}
      BY <1>8, <1>14 DEF CallsTold
    <3>2. i \in DOMAIN tools => tools[i].index = x
      BY <1>5, <1>9
    <3> QED
      BY <1>11, <1>16, <3>1, <3>2
  <2>2. ASSUME ~damaged, NEW j \in DOMAIN tools, j # i
        PROVE  LET y == tools'[j].index
               IN  /\ client'.calls[y] = [item |-> j, args |-> client'.calls[y].args]
                   /\ Upto(client'.calls[y].args, items[j].pieces, r)
    <3>1. PICK y : y = tools[j].index
      OBVIOUS
    <3>2. tools'[j].index = y /\ y # x /\ y \in DOMAIN calls
      <4>1. tools'[j] = tools[j] /\ y \in DOMAIN calls
        BY <1>8, <1>11, <1>14, <2>2, <3>1 DEF CallsTold
      <4>2. tools'[j].index # tools'[i].index
        BY <1>11, <2>2 DEF CallsKnown
      <4> QED
        BY <1>11, <3>1, <4>1, <4>2
    <3>3. client'.calls[y] = calls[y]
      BY <1>16, <3>2
    <3>4. /\ calls[y] = [item |-> j, args |-> calls[y].args]
          /\ Upto(calls[y].args, items[j].pieces, read)
      BY <1>8, <1>14, <2>2, <3>1 DEF CallsTold
    <3>5. j \in DOMAIN items /\ items[j].pieces \in Seq(Nat)
      <4>1. read \in 0..Len(sent)
        BY DEF IInv
      <4> QED
        BY <1>6, <1>8, <2>2, <4>1, KnownAreItems, PiecesOfItems
    <3>6. ~Has(items[j].pieces, r)
      BY <1>2, <1>6, <2>2, <3>5, PieceIsEvent DEF Has
    <3>7. Upto(calls[y].args, items[j].pieces, r)
      BY <1>1, <1>6, <3>4, <3>5, <3>6, UptoSkip
    <3> QED
      BY <3>2, <3>3, <3>4, <3>7
  <2>3. ASSUME ~damaged
        PROVE  /\ client'.calls[x] = [item |-> i, args |-> client'.calls[x].args]
               /\ Upto(client'.calls[x].args, items[i].pieces, r)
    <3>1. PICK pieces : pieces = items[i].pieces
      OBVIOUS
    <3>2. pieces \in Seq(Nat)
      BY <1>6, <3>1, PiecesOfItems
    <3>3. \E a : /\ (IF state.started THEN calls[x]
                     ELSE [item |-> e.item, args |-> <<>>]) = [item |-> i, args |-> a]
                 /\ Upto(a, pieces, read)
      <4>1. CASE i \in DOMAIN tools
        <5>1. /\ calls[x] = [item |-> i, args |-> calls[x].args]
              /\ Upto(calls[x].args, pieces, read)
          BY <1>5, <1>8, <1>9, <1>14, <2>3, <3>1, <4>1 DEF CallsTold
        <5> QED
          BY <1>9, <4>1, <5>1
      <4>2. CASE i \notin DOMAIN tools
        <5>1. ASSUME NEW m \in DOMAIN pieces, pieces[m] <= read PROVE FALSE
          <6>1. PICK k : k = pieces[m]
            OBVIOUS
          <6>2. /\ k \in DOMAIN sent /\ sent[k].item = i
                /\ sent[k].type = "delta" \/ sent[k].type = "done"
            BY <1>6, <3>1, <5>1, <6>1, PieceIsEvent
          <6>3. k \in 1..read
            BY <1>6, <5>1, <6>1, <6>2
          <6>4. sent[k].call
            BY <1>6, <6>2 DEF Transcript, EventOK
          <6>5. i \in DOMAIN tools
            BY <1>8, <6>2, <6>3, <6>4 DEF CallsKnown
          <6> QED
            BY <4>2, <6>5
        <5>2. \A m \in DOMAIN pieces : pieces[m] > read
          <6>1. \A m \in DOMAIN pieces : pieces[m] \in Nat
            BY <3>2
          <6> QED
            BY <1>6, <5>1, <6>1
        <5>3. Upto(<<>>, pieces, read)
          BY <1>6, <3>2, <5>2, UptoNone
        <5>4. (IF state.started THEN calls[x]
               ELSE [item |-> e.item, args |-> <<>>]) = [item |-> i, args |-> <<>>]
          BY <1>9, <1>10, <4>2
        <5> QED
          BY <5>3, <5>4
      <4> QED
        BY <4>1, <4>2
    <3>4. PICK a : /\ (IF state.started THEN calls[x]
                       ELSE [item |-> e.item, args |-> <<>>]) = [item |-> i, args |-> a]
                   /\ Upto(a, pieces, read)
      BY <3>3
    <3>5. a \in Seq(Nat)
      BY <3>4 DEF Upto
    <3>6. client'.calls[x] = [item |-> i, args |-> a \o p]
      BY <1>16, <3>4, <3>5
    <3>7. PICK streamed : streamed = state.streamed
      OBVIOUS
    <3>8. streamed <=> \E k \in 1..read : sent[k].type = "delta" /\ sent[k].item = i
      <4>1. CASE i \in DOMAIN tools
        BY <1>8, <1>9, <3>7, <4>1 DEF CallsKnown
      <4>2. CASE i \notin DOMAIN tools
        <5>1. SUFFICES ASSUME NEW k \in 1..read, sent[k].type = "delta", sent[k].item = i
                       PROVE  FALSE
          BY <1>9, <3>7, <4>2
        <5>2. k \in DOMAIN sent
          BY <1>6
        <5>3. sent[k].call
          BY <1>6, <5>1, <5>2 DEF Transcript, EventOK
        <5>4. i \in DOMAIN tools
          BY <1>8, <5>1, <5>3 DEF CallsKnown
        <5> QED
          BY <4>2, <5>4
      <4> QED
        BY <4>1, <4>2
    <3>9. p = IF sent[r].type = "done" /\ streamed THEN <<>> ELSE sent[r].pieces
      <4>1. e.pieces = sent[r].pieces
        BY <1>8, <1>10, <2>3 DEF Ended
      <4> QED
        BY <1>10, <1>12, <3>7, <4>1 DEF NewArguments
    <3>10. Upto(a \o p, items[i].pieces, r)
      <4>1. Upto(a, items[i].pieces, read)
        BY <3>1, <3>4
      <4>2. sent[r].item = i
        BY <1>2
      <4> QED
        BY <1>1, <1>6, <3>8, <3>9, <4>1, <4>2, NewPieces
    <3>11. client'.calls[x].args = a \o p
      BY <3>6
    <3> QED
      BY <3>6, <3>10, <3>11
  <2>4. ASSUME ~damaged, NEW j \in DOMAIN tools'
        PROVE  LET y == tools'[j].index
               IN  /\ client'.calls[y] = [item |-> j, args |-> client'.calls[y].args]
                   /\ Upto(client'.calls[y].args, items[j].pieces, r)
    BY <1>11, <2>2, <2>3, <2>4
  <2> QED
    BY <1>6, <2>1, <2>4 DEF CallsTold
<1>19. TextTold'
  <2>1. {k \in 1..r : sent[k].type = "delta" /\ ~sent[k].call}
            = {k \in 1..read : sent[k].type = "delta" /\ ~sent[k].call}
    BY <1>6
  <2>2. client'.text = client.text
    BY <1>14, <1>17
  <2> QED
    BY <1>6, <1>8, <2>1, <2>2 DEF TextTold
<1>20. Ended'
  <2>1. client' = [text |-> client'.text, calls |-> client'.calls, stray |-> FALSE,
                   finish |-> client'.finish]
    BY <1>16, <1>17
  <2>2. saw' = (DOMAIN tools' # {})
    BY <1>11, <1>13
  <2>3. client'.finish = "none"
    BY <1>6, <1>14, <1>17
  <2> QED
    BY <1>6, <2>1, <2>2, <2>3 DEF Ended
<1> QED
  <2>1. Transcript(items', sent') /\ read' \in 0..Len(sent')
    BY <1>6
  <2> QED
    BY <1>11, <1>18, <1>19, <1>20, <2>1 DEF IInv

\* A greater number at the end of an ascending sequence.
LEMMA AscendingMore ==
    ASSUME NEW t, IsAscending(t), NEW r \in Nat, \A k \in ToSet(t) : k < r
    PROVE  IsAscending(t \o <<r>>) /\ ToSet(t \o <<r>>) = ToSet(t) \cup {r}
<1>1. PICK t2 : t2 = t \o <<r>>
  OBVIOUS
<1>2. t \in Seq(Nat)
  BY DEF IsAscending
<1>3. /\ t2 \in Seq(Nat) /\ Len(t) \in Nat
      /\ DOMAIN t = 1..Len(t) /\ DOMAIN t2 = 1..(Len(t) + 1)
      /\ t2[Len(t) + 1] = r /\ \A k \in 1..Len(t) : t2[k] = t[k]
  BY <1>1, <1>2, OneMore
<1>4. ASSUME NEW m \in DOMAIN t2, NEW n \in DOMAIN t2, m < n PROVE t2[m] < t2[n]
  <2>1. m \in DOMAIN t /\ t2[m] = t[m]
    BY <1>3, <1>4
  <2>2. CASE n \in DOMAIN t
    <3>1. t2[n] = t[n] /\ t[m] < t[n]
      BY <1>3, <1>4, <2>1, <2>2 DEF IsAscending
    <3> QED
      BY <2>1, <3>1
  <2>3. CASE n \notin DOMAIN t
    <3>1. t2[n] = r
      BY <1>3, <2>3
    <3>2. t[m] \in ToSet(t)
      BY <2>1 DEF ToSet
    <3>3. t[m] < r
      BY <3>2
    <3> QED
      BY <2>1, <3>1, <3>3
  <2> QED
    BY <2>2, <2>3
<1>5. ToSet(t2) = ToSet(t) \cup {r}
  <2>1. \A k \in DOMAIN t : k \in DOMAIN t2 /\ t2[k] = t[k]
    BY <1>3
  <2>2. \A k \in DOMAIN t2 : k \in DOMAIN t \/ t2[k] = r
    BY <1>3
  <2>3. \E k \in DOMAIN t2 : t2[k] = r
    BY <1>3
  <2> QED
    BY <2>1, <2>2, <2>3 DEF ToSet
<1> QED
  BY <1>1, <1>3, <1>4, <1>5 DEF IsAscending

\* An event of a message, or response.completed.
LEMMA OtherRead ==
    ASSUME IInv, ReadEvent, ~sent[read + 1].call
    PROVE  IInv'
<1>1. PICK r : r = read + 1
  OBVIOUS
<1>2. PICK e : e = Decoded(sent[r])
  OBVIOUS
<1>3. /\ Transcript(items, sent) /\ sent \in Seq(Events) /\ r \in DOMAIN sent
      /\ read \in Nat /\ r \in Nat /\ r \in 1..Len(sent) /\ Len(sent) \in Nat
      /\ 1..r = 1..read \cup {r} /\ EventOK(items, sent, r) /\ sent[r] \in Events
      /\ read' = r /\ client.finish = "none" /\ buffer' = "none"
      /\ UNCHANGED <<shape, items, sent, upstream, damaged>>
  BY <1>1, Reading
<1>4. ~sent[r].call
  BY <1>1
<1>5. /\ CallsKnown /\ CallsTold /\ TextTold /\ Ended
      /\ \A i \in DOMAIN tools : i \in DOMAIN items /\ items[i].call
  <2>1. Transcript(items, sent) /\ read \in 0..Len(sent) /\ CallsKnown
    BY DEF IInv
  <2> QED
    BY <2>1, KnownAreItems DEF IInv
<1>6. e.type = sent[r].type /\ e.call = sent[r].call /\ (buffer # "cut" => e.pieces = sent[r].pieces)
  BY <1>2, <1>3, DecodedOf
<1>7. /\ UNCHANGED <<tools, next, saw>>
      /\ client' = IF e.type = "delta" THEN [client EXCEPT !.text = @ \o e.pieces] ELSE client
  <2>1. \/ HandleText(e) /\ e.type = "delta"
        \/ HandleOther /\ e.type # "delta"
    BY <1>1, <1>2, <1>4, <1>6 DEF ReadEvent
  <2> QED
    BY <2>1 DEF HandleText, HandleOther
<1>8. PICK t, calls, fin : t = client.text /\ calls = client.calls /\ fin = client.finish
  OBVIOUS
<1>9. client = [text |-> t, calls |-> calls, stray |-> FALSE, finish |-> fin]
  BY <1>5, <1>8 DEF Ended
<1>10. PICK t2 : t2 = IF e.type = "delta" THEN t \o e.pieces ELSE t
  OBVIOUS
<1>11. client' = [text |-> t2, calls |-> calls, stray |-> FALSE, finish |-> fin]
  <2>1. CASE e.type = "delta"
    <3>1. client' = [client EXCEPT !.text = t2]
      BY <1>7, <1>8, <1>10, <2>1
    <3> QED
      BY <1>9, <3>1
  <2>2. CASE e.type # "delta"
    BY <1>7, <1>9, <1>10, <2>2
  <2> QED
    BY <2>1, <2>2
<1>12. client'.text = t2 /\ client'.calls = calls /\ client'.finish = fin
  BY <1>11
<1>13. ASSUME NEW i \in DOMAIN tools, sent[r].item = i PROVE FALSE
  <2>1. i \in DOMAIN items /\ items[i].call /\ 0 \notin DOMAIN items
    BY <1>3, <1>5 DEF Transcript
  <2> QED
    BY <1>3, <1>4, <1>13, <2>1 DEF EventOK
<1>14. CallsKnown'
  <2>1. {m \in 1..r : sent[m].call} = {m \in 1..read : sent[m].call}
    BY <1>3, <1>4
  <2>2. ASSUME NEW i \in DOMAIN tools
        PROVE  (\E k \in 1..read : sent[k].type = "delta" /\ sent[k].item = i)
                   <=> \E k \in 1..r : sent[k].type = "delta" /\ sent[k].item = i
    BY <1>3, <1>13
  <2>3. shape' = shape /\ sent' = sent /\ tools' = tools /\ next' = next /\ read' = r
    BY <1>3, <1>7
  <2> QED
    BY <1>5, <2>1, <2>2, <2>3 DEF CallsKnown
<1>15. CallsTold'
  <2>1. ASSUME NEW i \in DOMAIN tools, ~damaged
        PROVE  /\ calls[tools[i].index] = [item |-> i, args |-> calls[tools[i].index].args]
               /\ Upto(calls[tools[i].index].args, items[i].pieces, r)
    <3>1. /\ calls[tools[i].index] = [item |-> i, args |-> calls[tools[i].index].args]
          /\ Upto(calls[tools[i].index].args, items[i].pieces, read)
      BY <1>5, <1>8, <2>1 DEF CallsTold
    <3>2. i \in DOMAIN items /\ items[i].pieces \in Seq(Nat)
      BY <1>3, <1>5, PiecesOfItems
    <3>3. ~Has(items[i].pieces, r)
      BY <1>3, <1>13, <3>2, PieceIsEvent DEF Has
    <3>4. Upto(calls[tools[i].index].args, items[i].pieces, r)
      BY <1>1, <1>3, <3>1, <3>2, <3>3, UptoSkip
    <3> QED
      BY <3>1, <3>4
  <2>2. DOMAIN calls = {tools[i].index : i \in DOMAIN tools}
    BY <1>5, <1>8 DEF CallsTold
  <2> QED
    BY <1>3, <1>7, <1>12, <2>1, <2>2 DEF CallsTold
<1>16. TextTold'
  <2>1. SUFFICES ASSUME ~damaged
                 PROVE  /\ IsAscending(t2)
                        /\ ToSet(t2) = {k \in 1..r : sent[k].type = "delta" /\ ~sent[k].call}
    BY <1>3, <1>12 DEF TextTold
  <2>2. /\ IsAscending(t)
        /\ ToSet(t) = {k \in 1..read : sent[k].type = "delta" /\ ~sent[k].call}
    BY <1>5, <1>8, <2>1 DEF TextTold
  <2>3. CASE e.type = "delta"
    <3>1. e.pieces = <<r>>
      BY <1>3, <1>5, <1>6, <2>1, <2>3 DEF Ended, EventOK
    <3>2. \A k \in ToSet(t) : k < r
      <4>1. \A k \in 1..read : k < r
        BY <1>1, <1>3
      <4> QED
        BY <2>2, <4>1
    <3>3. IsAscending(t2) /\ ToSet(t2) = ToSet(t) \cup {r}
      BY <1>3, <1>10, <2>2, <2>3, <3>1, <3>2, AscendingMore
    <3> QED
      BY <1>3, <1>4, <1>6, <2>2, <2>3, <3>3
  <2>4. CASE e.type # "delta"
    BY <1>3, <1>6, <1>10, <2>2, <2>4
  <2> QED
    BY <2>3, <2>4
<1>17. Ended'
  <2>1. client' = [text |-> client'.text, calls |-> client'.calls, stray |-> FALSE,
                   finish |-> client'.finish]
    BY <1>11, <1>12
  <2>2. saw' = (DOMAIN tools' # {})
    BY <1>5, <1>7 DEF Ended
  <2>3. client'.finish = "none"
    BY <1>3, <1>8, <1>12
  <2> QED
    BY <1>3, <2>1, <2>2, <2>3 DEF Ended
<1> QED
  <2>1. Transcript(items', sent') /\ read' \in 0..Len(sent')
    BY <1>3
  <2> QED
    BY <1>14, <1>15, <1>16, <1>17, <2>1 DEF IInv

\* The calls known do not depend on what the client has.
LEMMA KnownStay ==
    ASSUME CallsKnown, UNCHANGED <<shape, sent, read, tools, next>>
    PROVE  CallsKnown'
BY DEF CallsKnown

\* Nor does what it has of the calls change with its text.
LEMMA ToldStays ==
    ASSUME CallsTold, UNCHANGED <<items, read, tools>>, client'.calls = client.calls,
           damaged => damaged'
    PROVE  CallsTold'
BY DEF CallsTold

\* Nor its text with its calls.
LEMMA TextStays ==
    ASSUME TextTold, UNCHANGED <<sent, read>>, client'.text = client.text,
           damaged => damaged'
    PROVE  TextTold'
BY DEF TextTold

\* A chunk that ends within an event.
LEMMA PartRead ==
    ASSUME IInv, ReadPart
    PROVE  IInv'
<1>1. /\ UNCHANGED <<shape, items, sent, upstream, read, tools, next, saw, client>>
      /\ damaged => damaged'
  BY DEF ReadPart
<1>2. CallsKnown' /\ CallsTold' /\ TextTold'
  BY <1>1, KnownStay, ToldStays, TextStays DEF IInv
<1>3. buffer' = "cut" => damaged'
  BY DEF ReadPart
<1>4. Ended'
  BY <1>1, <1>3 DEF IInv, Ended
<1> QED
  BY <1>1, <1>2, <1>4 DEF IInv

\* The end of the answer: finish_reason and [DONE].
LEMMA FinishKeeps ==
    ASSUME IInv, Finish
    PROVE  IInv'
<1>1. PICK t, calls, fin : t = client.text /\ calls = client.calls /\ fin = client.finish
  OBVIOUS
<1>2. client = [text |-> t, calls |-> calls, stray |-> FALSE, finish |-> fin]
  BY <1>1 DEF IInv, Ended
<1>3. PICK how : how = IF saw THEN "tool_calls" ELSE "stop"
  OBVIOUS
<1>4. client' = [text |-> t, calls |-> calls, stray |-> FALSE, finish |-> how]
  <2>1. client' = [client EXCEPT !.finish = how]
    BY <1>3 DEF Finish
  <2> QED
    BY <1>2, <2>1
<1>5. client'.text = t /\ client'.calls = calls /\ client'.finish = how
  BY <1>4
<1>6. /\ UNCHANGED <<shape, items, sent, upstream, read, buffer, tools, next, saw, damaged>>
      /\ upstream = "closed" /\ read = Len(sent)
  BY DEF Finish
<1>7. CallsKnown' /\ CallsTold' /\ TextTold'
  <2>1. client'.calls = client.calls /\ client'.text = client.text
    BY <1>1, <1>5
  <2> QED
    BY <1>6, <2>1, KnownStay, ToldStays, TextStays DEF IInv
<1>8. Ended'
  <2>1. client' = [text |-> client'.text, calls |-> client'.calls, stray |-> FALSE,
                   finish |-> client'.finish]
    BY <1>4, <1>5
  <2>2. saw = (DOMAIN tools # {}) /\ (buffer = "cut" => damaged)
    BY DEF IInv, Ended
  <2> QED
    BY <1>3, <1>5, <1>6, <2>1, <2>2 DEF Ended
<1> QED
  BY <1>6, <1>7, <1>8 DEF IInv

\* The provider ends the stream.
LEMMA CloseKeeps ==
    ASSUME IInv, NEW how, Close(how)
    PROVE  IInv'
<1>1. client.finish = "none"
  BY DEF IInv, Ended, Close
<1>2. UNCHANGED <<shape, items, sent, read, buffer, tools, next, saw, client, damaged>>
  BY DEF Close
<1>3. CallsKnown' /\ CallsTold' /\ TextTold'
  BY <1>2, KnownStay, ToldStays, TextStays DEF IInv
<1>4. Ended'
  BY <1>1, <1>2 DEF IInv, Ended
<1> QED
  BY <1>2, <1>3, <1>4 DEF IInv

\* An answer before its first event.
LEMMA InitHolds == Init => IInv
<1> SUFFICES ASSUME Init PROVE IInv
  OBVIOUS
<1>1. Transcript(items, sent) /\ read \in 0..Len(sent)
  BY DEF Init, Transcript
<1>2. CallsKnown
  BY DEF Init, CallsKnown, Empty
<1>3. client.text = <<>> /\ client.calls = Empty /\ client.finish = "none"
  BY DEF Init
<1>4. DOMAIN tools = {} /\ DOMAIN client.calls = {}
  BY <1>3 DEF Init, Empty
<1>5. CallsTold
  BY <1>4 DEF CallsTold
<1>6. TextTold
  <2>1. IsAscending(client.text) /\ ToSet(client.text) = {}
    BY <1>3 DEF IsAscending, ToSet
  <2>2. 1..read = {}
    BY DEF Init
  <2> QED
    BY <2>1, <2>2 DEF TextTold
<1>7. Ended
  <2>1. client = [text |-> client.text, calls |-> client.calls, stray |-> FALSE,
                  finish |-> client.finish]
    BY <1>3 DEF Init
  <2> QED
    BY <1>3, <1>4, <2>1 DEF Init, Ended
<1> QED
  BY <1>1, <1>2, <1>5, <1>6, <1>7 DEF IInv

\* One step per action.
LEMMA StepKeeps == IInv /\ [Next]_vars => IInv'
<1> SUFFICES ASSUME IInv, [Next]_vars PROVE IInv'
  OBVIOUS
<1>1. Transcript(items, sent)
  BY DEF IInv
<1>2. ASSUME NEW call \in BOOLEAN, Add(call) PROVE IInv'
  BY <1>1, <1>2, AddLonger, ProviderKeeps DEF Add, Send
<1>3. ASSUME NEW i, Delta(i) PROVE IInv'
  BY <1>1, <1>3, DeltaLonger, ProviderKeeps DEF Delta, Send
<1>4. ASSUME NEW i, Done(i) PROVE IInv'
  <2>1. /\ upstream = "open"
        /\ UNCHANGED <<shape, upstream, read, buffer, tools, next, saw, client, damaged>>
    BY <1>4 DEF Done, Send
  <2> QED
    BY <1>1, <1>4, <2>1, DoneLonger, ProviderKeeps
<1>5. CASE Complete
  BY <1>1, <1>5, CompleteLonger, ProviderKeeps DEF Complete, Send
<1>6. ASSUME NEW how, Close(how) PROVE IInv'
  BY <1>6, CloseKeeps
<1>7. CASE ReadPart
  BY <1>7, PartRead
<1>8. CASE ReadEvent
  BY <1>8, CallRead, OtherRead
<1>9. CASE Finish
  BY <1>9, FinishKeeps
<1>10. CASE UNCHANGED vars
  <2>1. UNCHANGED <<shape, items, sent, upstream, read, buffer, tools, next, saw, client,
                    damaged>>
    BY <1>10 DEF vars
  <2>2. CallsKnown' /\ CallsTold' /\ TextTold'
    BY <2>1, KnownStay, ToldStays, TextStays DEF IInv
  <2>3. Ended'
    BY <2>1 DEF IInv, Ended
  <2> QED
    BY <2>1, <2>2, <2>3 DEF IInv
<1> QED
  BY <1>2, <1>3, <1>4, <1>5, <1>6, <1>7, <1>8, <1>9, <1>10 DEF Next

\* The inductive invariant.
LEMMA Kept == Spec => []IInv
BY InitHolds, StepKeeps, PTL DEF Spec

\* EndsProperly: no arguments without their call, and no reason for an end that has
\* not come, or that is not that of the calls there were.
THEOREM EndsAreProper == Spec => []EndsProperly
<1>1. IInv => EndsProperly
  <2> SUFFICES ASSUME IInv PROVE EndsProperly
    OBVIOUS
  <2>1. ~client.stray
    BY DEF IInv, Ended
  <2>2. DOMAIN client.calls # {} <=> DOMAIN tools # {}
    BY DEF IInv, CallsTold
  <2> QED
    BY <2>1, <2>2 DEF IInv, Ended, EndsProperly
<1> QED
  BY <1>1, Kept, PTL

-----------------------------------------------------------------------------
(* Ascending *)

Under(S, x) == {j \in S : j < x}

\* A number's place in a set is how many are less: no two have the same.
LEMMA UnderFewer ==
    ASSUME NEW S \in SUBSET Nat, IsFiniteSet(S), NEW x \in S
    PROVE  /\ IsFiniteSet(Under(S, x)) /\ Cardinality(Under(S, x)) \in Nat
           /\ Cardinality(Under(S, x)) < Cardinality(S)
           /\ \A y \in S : x < y => Cardinality(Under(S, x)) < Cardinality(Under(S, y))
<1>1. ASSUME NEW T \in SUBSET S, Under(S, x) \subseteq T, x \in T
      PROVE  /\ IsFiniteSet(Under(S, x)) /\ Cardinality(Under(S, x)) \in Nat
             /\ Cardinality(Under(S, x)) < Cardinality(T)
  <2>1. IsFiniteSet(T)
    BY FS_Subset
  <2>2. x \notin Under(S, x)
    BY DEF Under
  <2>3. PICK L : L = Under(S, x)
    OBVIOUS
  <2>4. L \in SUBSET T /\ L # T
    BY <1>1, <2>2, <2>3
  <2>5. /\ IsFiniteSet(L) /\ Cardinality(L) <= Cardinality(T)
        /\ Cardinality(T) # Cardinality(L)
    BY <2>1, <2>4, FS_Subset
  <2>6. Cardinality(L) \in Nat /\ Cardinality(T) \in Nat
    BY <2>1, <2>5, FS_CardinalityType
  <2> QED
    BY <2>3, <2>5, <2>6
<1>2. /\ IsFiniteSet(Under(S, x)) /\ Cardinality(Under(S, x)) \in Nat
      /\ Cardinality(Under(S, x)) < Cardinality(S)
  <2>1. Under(S, x) \subseteq S
    BY DEF Under
  <2> QED
    BY <1>1, <2>1
<1>3. ASSUME NEW y \in S, x < y
      PROVE  Cardinality(Under(S, x)) < Cardinality(Under(S, y))
  <2>1. Under(S, y) \subseteq S /\ x \in Under(S, y)
    BY <1>3 DEF Under
  <2>2. Under(S, x) \subseteq Under(S, y)
    <3>1. \A j \in S : j < x => j < y
      BY <1>3
    <3> QED
      BY <3>1 DEF Under
  <2> QED
    BY <1>1, <2>1, <2>2
<1> QED
  BY <1>2, <1>3

\* Ascending has the numbers of the set, each once, the least first.
LEMMA AscendingSorts ==
    ASSUME NEW S \in SUBSET Nat, IsFiniteSet(S)
    PROVE  IsAscending(Ascending(S)) /\ ToSet(Ascending(S)) = S
<1>1. PICK n : n = Cardinality(S)
  OBVIOUS
<1>2. n \in Nat
  BY <1>1, FS_CardinalityType
<1>3. \A x \in S : /\ Cardinality(Under(S, x)) \in Nat /\ Cardinality(Under(S, x)) < n
                   /\ \A y \in S : x < y =>
                          Cardinality(Under(S, x)) < Cardinality(Under(S, y))
  BY <1>1, UnderFewer
<1>4. PICK f : f = [x \in S |-> Cardinality(Under(S, x)) + 1]
  OBVIOUS
<1>5. /\ f \in [S -> 1..n]
      /\ \A x \in S : f[x] = Cardinality(Under(S, x)) + 1
      /\ \A x, y \in S : x < y => f[x] < f[y]
  <2>1. \A x \in S : /\ Cardinality(Under(S, x)) + 1 \in 1..n
                     /\ \A y \in S : x < y =>
                            Cardinality(Under(S, x)) + 1 < Cardinality(Under(S, y)) + 1
    BY <1>2, <1>3
  <2> QED
    BY <1>4, <2>1
<1>6. \A x, y \in S : f[x] = f[y] => x = y
  <2> SUFFICES ASSUME NEW x \in S, NEW y \in S, x # y PROVE f[x] # f[y]
    OBVIOUS
  <2>1. x < y \/ y < x
    OBVIOUS
  <2>2. f[x] \in 1..n /\ f[y] \in 1..n
    BY <1>5
  <2> QED
    BY <1>5, <2>1, <2>2
<1>7. f \in Surjection(S, 1..n)
  <2>1. f \in Injection(S, 1..n)
    BY <1>5, <1>6 DEF Injection, IsInjective
  <2>2. IsFiniteSet(1..n) /\ Cardinality(1..n) = n
    BY <1>2, FS_Interval
  <2> QED
    BY <1>1, <2>1, <2>2, FS_Injection
<1>8. \A i \in 1..n : \E x \in S : f[x] = i
  BY <1>7 DEF Surjection
<1>9. PICK t : t = Ascending(S)
  OBVIOUS
<1>10. /\ DOMAIN t = 1..n
       /\ \A i \in 1..n : t[i] = CHOOSE x \in S : Cardinality(Under(S, x)) = i - 1
  BY <1>1, <1>9 DEF Ascending, Under
<1>11. \A i \in 1..n : t[i] \in S /\ f[t[i]] = i
  <2> SUFFICES ASSUME NEW i \in 1..n PROVE t[i] \in S /\ f[t[i]] = i
    OBVIOUS
  <2>1. \A x \in S : Cardinality(Under(S, x)) = i - 1 <=> f[x] = i
    BY <1>2, <1>3, <1>5
  <2>2. \E x \in S : Cardinality(Under(S, x)) = i - 1
    BY <1>8, <2>1
  <2>3. t[i] = CHOOSE x \in S : Cardinality(Under(S, x)) = i - 1
    BY <1>10
  <2>4. PICK r : r = t[i]
    OBVIOUS
  <2>5. r \in S /\ Cardinality(Under(S, r)) = i - 1
    BY <2>2, <2>3, <2>4
  <2> QED
    BY <2>1, <2>4, <2>5
<1>12. t \in Seq(Nat) /\ Len(t) = n
  <2>1. \A i \in 1..n : t[i] \in Nat
    BY <1>11
  <2>2. t = [i \in 1..n |-> t[i]]
    BY <1>9, <1>10 DEF Ascending
  <2> QED
    BY <1>2, <2>1, <2>2
<1>13. ASSUME NEW i \in 1..n, NEW j \in 1..n, i < j PROVE t[i] < t[j]
  <2>1. PICK x \in S : x = t[i] /\ f[x] = i
    BY <1>11
  <2>2. PICK y \in S : y = t[j] /\ f[y] = j
    BY <1>11
  <2>3. x # y /\ ~(f[y] < f[x])
    BY <1>13, <2>1, <2>2
  <2>4. x < y
    <3>1. x \in Nat /\ y \in Nat
      OBVIOUS
    <3> QED
      BY <1>5, <2>3, <3>1
  <2> QED
    BY <2>1, <2>2, <2>4
<1>14. ToSet(t) = S
  <2>1. ASSUME NEW x \in S PROVE \E i \in 1..n : t[i] = x
    <3>1. PICK i \in 1..n : i = f[x]
      BY <1>5
    <3>2. t[i] = x
      BY <1>6, <1>11, <3>1
    <3> QED
      BY <3>2
  <2> QED
    BY <1>10, <1>11, <2>1 DEF ToSet
<1> QED
  BY <1>9, <1>10, <1>12, <1>13, <1>14 DEF IsAscending

\* There is one ascending sequence of a set.
LEMMA AscendingIsOne ==
    ASSUME NEW t, IsAscending(t)
    PROVE  /\ IsFiniteSet(ToSet(t)) /\ ToSet(t) \in SUBSET Nat
           /\ Len(t) = Cardinality(ToSet(t))
           /\ t = Ascending(ToSet(t))
<1>1. PICK S : S = ToSet(t)
  OBVIOUS
<1>2. /\ t \in Seq(Nat) /\ Len(t) \in Nat /\ DOMAIN t = 1..Len(t)
      /\ t = [i \in 1..Len(t) |-> t[i]]
      /\ \A m, n \in DOMAIN t : m < n => t[m] < t[n]
      /\ \A n \in DOMAIN t : t[n] \in Nat
  BY DEF IsAscending
<1>3. S = {t[m] : m \in 1..Len(t)} /\ S \in SUBSET Nat
  BY <1>1, <1>2 DEF ToSet
<1>4. ASSUME NEW n \in 0..Len(t), NEW T, T = {t[m] : m \in 1..n}
      PROVE  IsFiniteSet(T) /\ Cardinality(T) = n
  <2>1. PICK f : f = [m \in 1..n |-> t[m]]
    OBVIOUS
  <2>2. f \in [1..n -> T] /\ \A m \in 1..n : f[m] = t[m]
    BY <1>4, <2>1
  <2>3. \A m, k \in 1..n : f[m] = f[k] => m = k
    <3>1. SUFFICES ASSUME NEW m \in 1..n, NEW k \in 1..n, m < k PROVE t[m] # t[k]
      BY <2>2
    <3>2. m \in DOMAIN t /\ k \in DOMAIN t
      BY <1>2
    <3>3. t[m] < t[k] /\ t[m] \in Nat /\ t[k] \in Nat
      BY <1>2, <3>1, <3>2
    <3> QED
      BY <3>3
  <2>4. \A y \in T : \E m \in 1..n : f[m] = y
    BY <1>4, <2>2
  <2>5. f \in Bijection(1..n, T)
    BY <2>2, <2>3, <2>4 DEF Bijection, Injection, IsInjective, Surjection
  <2>6. IsFiniteSet(1..n) /\ Cardinality(1..n) = n
    BY FS_Interval
  <2> QED
    BY <2>5, <2>6, FS_Bijection DEF ExistsBijection
<1>5. IsFiniteSet(S) /\ Cardinality(S) = Len(t)
  BY <1>2, <1>3, <1>4
<1>6. ASSUME NEW n \in 1..Len(t) PROVE t[n] = CHOOSE i \in S : Cardinality(Under(S, i)) = n - 1
  <2>1. \A m \in 1..Len(t) : Cardinality(Under(S, t[m])) = m - 1
    <3> SUFFICES ASSUME NEW m \in 1..Len(t) PROVE Cardinality(Under(S, t[m])) = m - 1
      OBVIOUS
    <3>1. Under(S, t[m]) = {t[k] : k \in 1..(m - 1)}
      <4>1. \A k \in 1..Len(t) : t[k] < t[m] <=> k \in 1..(m - 1)
        <5> SUFFICES ASSUME NEW k \in 1..Len(t) PROVE t[k] < t[m] <=> k < m
          BY <1>2
        <5>1. t[k] \in Nat /\ t[m] \in Nat /\ k \in DOMAIN t /\ m \in DOMAIN t
          BY <1>2
        <5>2. (k < m => t[k] < t[m]) /\ (m < k => t[m] < t[k])
          BY <1>2, <5>1
        <5> QED
          BY <1>2, <5>1, <5>2
      <4>2. 1..(m - 1) \subseteq 1..Len(t)
        BY <1>2
      <4> QED
        BY <1>3, <4>1, <4>2 DEF Under
    <3>2. m - 1 \in 0..Len(t)
      BY <1>2
    <3> QED
      BY <1>4, <3>1, <3>2
  <2>2. t[n] \in S /\ Cardinality(Under(S, t[n])) = n - 1
    BY <1>3, <2>1
  <2>3. \A x \in S : Cardinality(Under(S, x)) = n - 1 => x = t[n]
    <3> SUFFICES ASSUME NEW x \in S, Cardinality(Under(S, x)) = n - 1 PROVE x = t[n]
      OBVIOUS
    <3>1. PICK m \in 1..Len(t) : x = t[m]
      BY <1>3
    <3>2. m - 1 = n - 1
      BY <2>1, <3>1
    <3> QED
      BY <3>1, <3>2
  <2> QED
    BY <2>2, <2>3
<1>7. t = Ascending(S)
  BY <1>2, <1>5, <1>6 DEF Ascending, Under
<1> QED
  BY <1>1, <1>3, <1>5, <1>7

-----------------------------------------------------------------------------
(* FlattenSeq, of sequences of one *)

\* Sequences of one element joined are the sequence of the elements.
LEMMA FlattenOnes ==
    ASSUME NEW t \in Seq(Nat), t # <<>>, NEW seqs, seqs = [n \in DOMAIN t |-> <<t[n]>>]
    PROVE  FlattenSeq(seqs) = t
<1>1. PICK N : N = Len(t)
  OBVIOUS
<1>2. N \in Nat /\ N # 0 /\ DOMAIN t = 1..N /\ \A n \in 1..N : t[n] \in Nat
  BY <1>1
<1>3. Len(seqs) = N /\ \A n \in 1..N : seqs[n] = <<t[n]>>
  BY <1>1, <1>2
<1> DEFINE First(m) == [k \in 1..m |-> t[k]]
           Fix(f) == f = [i \in 1..N |-> IF i = 1 THEN seqs[i] ELSE f[i - 1] \o seqs[i]]
           flat == CHOOSE f : Fix(f)
<1>4. FlattenSeq(seqs) = flat[N]
  BY <1>2, <1>3 DEF FlattenSeq
<1>5. First(1) = seqs[1]
  BY <1>2, <1>3
<1>6. ASSUME NEW m \in 2..N PROVE First(m) = First(m - 1) \o seqs[m]
  <2>1. First(m - 1) \in Seq(Nat) /\ Len(First(m - 1)) = m - 1
    BY <1>2
  <2>2. seqs[m] = <<t[m]>> /\ t[m] \in Nat
    BY <1>2, <1>3
  <2>3. PICK a, b : a = First(m - 1) /\ b = First(m)
    OBVIOUS
  <2>4. PICK c : c = a \o <<t[m]>>
    OBVIOUS
  <2>5. /\ c \in Seq(Nat) /\ Len(c) = m /\ c[m] = t[m]
        /\ \A k \in 1..(m - 1) : c[k] = a[k]
    <3>1. a \in Seq(Nat) /\ Len(a) = m - 1 /\ t[m] \in Nat
      BY <2>1, <2>2, <2>3
    <3> QED
      BY <2>4, <3>1, OneMore
  <2>6. /\ b \in Seq(Nat) /\ Len(b) = m /\ b[m] = t[m]
        /\ \A k \in 1..(m - 1) : b[k] = t[k]
    BY <1>2, <2>3
  <2>7. \A k \in 1..(m - 1) : a[k] = t[k]
    BY <2>3
  <2>8. b = c
    <3>1. \A k \in 1..m : b[k] = c[k]
      BY <2>5, <2>6, <2>7
    <3>2. b = [k \in 1..m |-> b[k]] /\ c = [k \in 1..m |-> c[k]]
      BY <2>5, <2>6
    <3> QED
      BY <3>1, <3>2
  <2> QED
    BY <2>2, <2>3, <2>4, <2>8
<1>7. \E f : Fix(f)
  <2> DEFINE f == [m \in 1..N |-> First(m)]
  <2>1. \A m \in 1..N : f[m] = First(m)
    OBVIOUS
  <2>2. ASSUME NEW m \in 1..N
        PROVE  First(m) = IF m = 1 THEN seqs[m] ELSE f[m - 1] \o seqs[m]
    <3>1. CASE m = 1
      BY <1>5, <3>1
    <3>2. CASE m # 1
      <4>1. m \in 2..N /\ m - 1 \in 1..N
        BY <1>2, <3>2
      <4>2. f[m - 1] = First(m - 1)
        BY <2>1, <4>1
      <4> HIDE DEF f, First
      <4> QED
        BY <1>6, <3>2, <4>1, <4>2
    <3> QED
      BY <3>1, <3>2
  <2>3. f = [m \in 1..N |-> First(m)]
    OBVIOUS
  <2>4. Fix(f)
    <3> HIDE DEF f, First
    <3> QED
      BY <2>2, <2>3
  <2> HIDE DEF Fix, f
  <2> QED
    BY <2>4
<1>8. Fix(flat)
  <2> HIDE DEF Fix
  <2> QED
    BY <1>7
<1> HIDE DEF flat
<1>9. flat[1] = seqs[1] /\ \A m \in 2..N : flat[m] = flat[m - 1] \o seqs[m]
  <2>1. \A m \in 1..N : flat[m] = IF m = 1 THEN seqs[m] ELSE flat[m - 1] \o seqs[m]
    BY <1>8
  <2> HIDE DEF Fix, First
  <2>2. 1 \in 1..N
    BY <1>2
  <2>3. flat[1] = seqs[1]
    BY <2>1, <2>2, Zenon
  <2>4. \A m \in 2..N : m \in 1..N /\ m # 1
    BY <1>2
  <2>5. \A m \in 2..N : flat[m] = flat[m - 1] \o seqs[m]
    BY <2>1, <2>4, Zenon
  <2> QED
    BY <2>3, <2>5
<1> HIDE DEF Fix
<1> DEFINE T == {m \in 0..N : m = 0 \/ flat[m] = First(m)}
<1>10. ASSUME NEW m \in 0..N, m < N, m \in T PROVE m + 1 \in T
  <2>1. m + 1 \in 1..N /\ (m + 1) - 1 = m
    BY <1>2, <1>10
  <2>2. CASE m = 0
    <3>1. flat[1] = First(1)
      <4> HIDE DEF First
      <4> QED
        BY <1>5, <1>9
    <3> QED
      BY <2>1, <2>2, <3>1
  <2>3. CASE m # 0
    <3>1. flat[m] = First(m) /\ m + 1 \in 2..N
      BY <1>2, <1>10, <2>1, <2>3
    <3>2. flat[m + 1] = First(m + 1)
      <4> HIDE DEF First, T
      <4>1. flat[m + 1] = flat[m] \o seqs[m + 1]
        <5>1. PICK k : k = m + 1
          OBVIOUS
        <5>2. k \in 2..N /\ k - 1 = m
          BY <2>1, <3>1, <5>1
        <5> QED
          BY <1>9, <5>1, <5>2
      <4>2. First(m + 1) = First(m) \o seqs[m + 1]
        BY <1>6, <2>1, <3>1
      <4> QED
        BY <3>1, <4>1, <4>2
    <3> QED
      BY <2>1, <3>2
  <2> QED
    BY <2>2, <2>3
<1>11. N \in T
  <2>1. 0 \in T
    BY <1>2
  <2> HIDE DEF T
  <2>2. \A n \in 0..N : n < N /\ n \in T => n + 1 \in T
    BY <1>10
  <2>3. \A n \in 0..N : n \in T
    BY <1>2, <2>1, <2>2, GoesOn
  <2> QED
    BY <1>2, <2>3
<1>12. First(N) = t
  BY <1>1, <1>2
<1>13. flat[N] = First(N)
  <2> HIDE DEF First
  <2> QED
    BY <1>2, <1>11
<1> QED
  BY <1>4, <1>12, <1>13

-----------------------------------------------------------------------------
(* The whole transcript *)

\* After the last event, the arguments are all pieces.
LEMMA UptoEnd ==
    ASSUME NEW pieces \in Seq(Nat), NEW r \in Nat, NEW args, Upto(args, pieces, r),
           \A j \in DOMAIN pieces : pieces[j] <= r
    PROVE  args = pieces
<1>1. /\ args \in Seq(Nat) /\ Len(args) \in Nat /\ Len(pieces) \in Nat
      /\ Len(args) <= Len(pieces)
      /\ \A j \in DOMAIN args : args[j] = pieces[j]
      /\ \A j \in DOMAIN pieces : j > Len(args) => pieces[j] > r
  BY DEF Upto
<1>2. Len(args) = Len(pieces)
  <2>1. SUFFICES ASSUME Len(args) < Len(pieces) PROVE FALSE
    BY <1>1
  <2>2. Len(args) + 1 \in DOMAIN pieces
    BY <1>1, <2>1
  <2>3. pieces[Len(args) + 1] \in Nat
    BY <2>2
  <2>4. pieces[Len(args) + 1] > r /\ pieces[Len(args) + 1] <= r
    <3>1. PICK m : m = Len(args) + 1
      OBVIOUS
    <3>2. m > Len(args) /\ m \in DOMAIN pieces
      BY <1>1, <2>2, <3>1
    <3>3. pieces[m] > r /\ pieces[m] <= r
      BY <1>1, <3>2
    <3> QED
      BY <3>1, <3>3
  <2> QED
    BY <2>3, <2>4
<1> QED
  BY <1>1, <1>2

\* The event that tells that an item is done has what the item has.
LEMMA DoneEvent ==
    ASSUME NEW its, NEW evs, Transcript(its, evs), NEW i \in DOMAIN its, ~its[i].open
    PROVE  \E k \in DOMAIN evs :
               /\ evs[k].type = "done" /\ evs[k].item = i /\ LastOfItem(evs, k)
               /\ evs[k].call = its[i].call /\ evs[k].pieces = its[i].pieces
<1>1. PICK k \in DOMAIN evs : evs[k].type = "done" /\ evs[k].item = i
  BY DEF Transcript, ItemOK, DoneIn
<1>2. EventOK(its, evs, k)
  BY DEF Transcript
<1> QED
  BY <1>1, <1>2 DEF EventOK

\* response.completed comes when all items are done.
LEMMA AllClosed ==
    ASSUME Transcript(items, sent), Completed
    PROVE  \A i \in DOMAIN items : ~items[i].open
<1>1. sent \in Seq(Events) /\ sent # <<>>
  BY DEF Transcript, Completed
<1>2. Len(sent) \in DOMAIN sent /\ Last(sent) = sent[Len(sent)]
  BY <1>1 DEF Last
<1>3. EventOK(items, sent, Len(sent))
  BY <1>2 DEF Transcript
<1> QED
  BY <1>2, <1>3 DEF Completed, EventOK

\* The calls of the transcript, each with all of its arguments.
CallOf(i) == [item |-> i, args |-> items[i].pieces]

Calls == {CallOf(i) : i \in {j \in DOMAIN items : items[j].call}}

\* The client that streams has every call with all its pieces.
LEMMA ToldAll ==
    ASSUME IInv, client.finish # "none", Completed, ~damaged
    PROVE  {client.calls[x] : x \in DOMAIN client.calls} = Calls
<1>1. /\ Transcript(items, sent) /\ CallsKnown /\ CallsTold /\ read = Len(sent)
      /\ sent \in Seq(Events) /\ Len(sent) \in Nat /\ DOMAIN sent = 1..Len(sent)
      /\ \A i \in DOMAIN items : items[i].pieces \in Seq(Nat)
  <2>1. Transcript(items, sent) /\ CallsKnown /\ CallsTold /\ read = Len(sent)
    BY DEF IInv, Ended
  <2> QED
    BY <2>1, PiecesOfItems
<1>2. DOMAIN tools = {j \in DOMAIN items : items[j].call}
  <2>1. \A i \in DOMAIN tools : i \in DOMAIN items /\ items[i].call
    BY <1>1, KnownAreItems
  <2>2. ASSUME NEW i \in DOMAIN items, items[i].call PROVE i \in DOMAIN tools
    <3>1. ~items[i].open
      BY <1>1, AllClosed
    <3>2. PICK k \in DOMAIN sent : sent[k].item = i /\ sent[k].call = items[i].call
      BY <1>1, <3>1, DoneEvent
    <3>3. k \in 1..read /\ sent[k].call
      BY <1>1, <2>2, <3>2
    <3> QED
      BY <1>1, <3>2, <3>3 DEF CallsKnown
  <2> QED
    BY <2>1, <2>2
<1>3. ASSUME NEW i \in DOMAIN tools PROVE client.calls[tools[i].index] = CallOf(i)
  <2>1. PICK args : args = client.calls[tools[i].index].args
    OBVIOUS
  <2>2. /\ client.calls[tools[i].index] = [item |-> i, args |-> args]
        /\ Upto(args, items[i].pieces, Len(sent))
    BY <1>1, <2>1 DEF CallsTold
  <2>3. i \in DOMAIN items
    BY <1>2
  <2>4. \A j \in DOMAIN items[i].pieces : items[i].pieces[j] <= Len(sent)
    BY <1>1, <2>3, PieceIsEvent
  <2>5. args = items[i].pieces
    BY <1>1, <2>2, <2>3, <2>4, UptoEnd
  <2> QED
    BY <2>2, <2>5 DEF CallOf
<1>4. DOMAIN client.calls = {tools[i].index : i \in DOMAIN tools}
  BY <1>1 DEF CallsTold
<1>5. {client.calls[x] : x \in DOMAIN client.calls} = {CallOf(i) : i \in DOMAIN tools}
  BY <1>3, <1>4
<1> QED
  BY <1>2, <1>5 DEF Calls

\* The calls of a list of items.
LEMMA CallsOfAre ==
    ASSUME NEW output, NEW n \in Nat, DOMAIN output \subseteq 1..n
    PROVE  /\ ToSet(CallsOf(output)) =
                  {[item |-> output[k].item, args |-> output[k].pieces] :
                       k \in {j \in DOMAIN output : output[j].call}}
           /\ CallsOf(output) = <<>> <=> \A j \in DOMAIN output : ~output[j].call
<1>1. PICK S : S = {j \in DOMAIN output : output[j].call}
  OBVIOUS
<1>2. S \in SUBSET Nat /\ IsFiniteSet(S)
  <2>1. S \in SUBSET (1..n) /\ IsFiniteSet(1..n)
    BY <1>1, FS_Interval
  <2>2. IsFiniteSet(S)
    BY <2>1, FS_Subset
  <2> QED
    BY <2>1, <2>2
<1>3. PICK t : t = Ascending(S)
  OBVIOUS
<1>4. IsAscending(t) /\ ToSet(t) = S
  BY <1>2, <1>3, AscendingSorts
<1>5. /\ t \in Seq(Nat) /\ DOMAIN t = 1..Len(t) /\ Len(t) \in Nat
      /\ S = {t[k] : k \in DOMAIN t}
  BY <1>4 DEF IsAscending, ToSet
<1> DEFINE Call(k) == [item |-> output[k].item, args |-> output[k].pieces]
<1>6. CallsOf(output) = [k \in DOMAIN t |-> Call(t[k])]
  BY <1>1, <1>3 DEF CallsOf
<1>7. ToSet(CallsOf(output)) = {Call(k) : k \in S}
  <2> HIDE DEF Call
  <2>1. PICK c : c = CallsOf(output)
    OBVIOUS
  <2>2. DOMAIN c = DOMAIN t /\ \A k \in DOMAIN t : c[k] = Call(t[k])
    BY <1>6, <2>1
  <2> QED
    BY <1>5, <2>1, <2>2 DEF ToSet
<1>8. CallsOf(output) = <<>> <=> S = {}
  <2> HIDE DEF Call
  <2>1. PICK c : c = CallsOf(output)
    OBVIOUS
  <2>2. c = [k \in 1..Len(t) |-> Call(t[k])]
    BY <1>5, <1>6, <2>1
  <2>3. c = <<>> <=> Len(t) = 0
    BY <1>5, <2>2
  <2>4. S = {} <=> DOMAIN t = {}
    BY <1>5
  <2>5. DOMAIN t = {} <=> Len(t) = 0
    <3>1. Len(t) # 0 => 1 \in DOMAIN t
      BY <1>5
    <3>2. Len(t) = 0 => DOMAIN t = {}
      BY <1>5
    <3> QED
      BY <3>1, <3>2
  <2> QED
    BY <2>1, <2>3, <2>4, <2>5
<1> QED
  BY <1>1, <1>7, <1>8

\* What response.completed lists are the calls.
LEMMA ListedCalls ==
    ASSUME Transcript(items, sent)
    PROVE  CallsOf(Listed) # <<>> => ToSet(CallsOf(Listed)) = Calls
<1>1. PICK output : output = IF Completed /\ shape.listed THEN items ELSE <<>>
  OBVIOUS
<1>2. PICK listed : listed = [i \in DOMAIN output |-> [item |-> i, call |-> output[i].call,
                                                       pieces |-> output[i].pieces]]
  OBVIOUS
<1>3. Listed = listed
  BY <1>1, <1>2 DEF Listed
<1>4. /\ DOMAIN listed = DOMAIN output
      /\ \A i \in DOMAIN output : /\ listed[i].item = i
                                  /\ listed[i].call = output[i].call
                                  /\ listed[i].pieces = output[i].pieces
  BY <1>2
<1>5. items \in Seq(Items) /\ DOMAIN items = 1..Len(items) /\ Len(items) \in Nat
  BY DEF Transcript
<1>6. PICK n \in Nat : DOMAIN listed \subseteq 1..n
  <2>1. CASE output = items
    BY <1>4, <1>5, <2>1
  <2>2. CASE output = <<>>
    <3>1. DOMAIN output = {}
      BY <2>2
    <3> QED
      BY <1>4, <3>1
  <2> QED
    BY <1>1, <2>1, <2>2
<1>7. /\ ToSet(CallsOf(listed)) =
             {[item |-> listed[k].item, args |-> listed[k].pieces] :
                  k \in {j \in DOMAIN listed : listed[j].call}}
      /\ CallsOf(listed) = <<>> <=> \A j \in DOMAIN listed : ~listed[j].call
  BY <1>6, CallsOfAre
<1>8. ASSUME CallsOf(listed) # <<>> PROVE ToSet(CallsOf(listed)) = Calls
  <2>1. DOMAIN output # {}
    BY <1>4, <1>7, <1>8
  <2>2. output = items
    <3>1. output = <<>> => DOMAIN output = {}
      OBVIOUS
    <3> QED
      BY <1>1, <2>1, <3>1
  <2>3. {j \in DOMAIN listed : listed[j].call} = {j \in DOMAIN items : items[j].call}
    BY <1>4, <2>2
  <2>4. \A j \in DOMAIN items : [item |-> listed[j].item, args |-> listed[j].pieces] = CallOf(j)
    BY <1>4, <2>2 DEF CallOf
  <2> QED
    BY <1>7, <2>3, <2>4 DEF Calls
<1> QED
  BY <1>3, <1>8

\* The snapshots of the items, the last event that shows each, are the calls:
\* that event is its done.
LEMMA SnapshotCalls ==
    ASSUME Transcript(items, sent), Completed
    PROVE  ToSet(CallsOf(Snapshots)) = Calls
<1>1. /\ sent \in Seq(Events) /\ Len(sent) \in Nat /\ DOMAIN sent = 1..Len(sent)
      /\ items \in Seq(Items) /\ \A i \in DOMAIN items : ~items[i].open
  BY PiecesOfItems, AllClosed
<1>2. PICK firsts : firsts = {k \in DOMAIN sent : /\ k \in Shown(sent[k].item)
                                                  /\ \A j \in Shown(sent[k].item) : k <= j}
  OBVIOUS
<1>3. PICK order : order = Ascending(firsts)
  OBVIOUS
<1>4. /\ order \in Seq(Nat) /\ ToSet(order) = firsts
      /\ Len(order) \in Nat /\ DOMAIN order = 1..Len(order)
  <2>1. firsts \in SUBSET Nat /\ IsFiniteSet(firsts)
    <3>1. firsts \in SUBSET (1..Len(sent)) /\ IsFiniteSet(1..Len(sent))
      BY <1>1, <1>2, FS_Interval
    <3>2. IsFiniteSet(firsts)
      BY <3>1, FS_Subset
    <3> QED
      BY <3>1, <3>2
  <2>2. IsAscending(order) /\ ToSet(order) = firsts
    BY <1>3, <2>1, AscendingSorts
  <2> QED
    BY <2>2 DEF IsAscending
<1>5. PICK snaps : snaps = [n \in DOMAIN order |-> sent[Max(Shown(sent[order[n]].item))]]
  OBVIOUS
<1>6. Snapshots = snaps
  BY <1>2, <1>3, <1>5 DEF Snapshots
\* The last event that shows an item is its done.
<1>7. ASSUME NEW i \in DOMAIN items
      PROVE  LET k == Max(Shown(i))
             IN  sent[k].item = i /\ sent[k].call = items[i].call /\ sent[k].pieces = items[i].pieces
  <2>1. PICK k \in DOMAIN sent :
            /\ sent[k].type = "done" /\ sent[k].item = i /\ LastOfItem(sent, k)
            /\ sent[k].call = items[i].call /\ sent[k].pieces = items[i].pieces
    BY <1>1, DoneEvent
  <2>2. k \in Shown(i) /\ \A j \in Shown(i) : k >= j /\ j \in Nat /\ k \in Nat
    BY <1>1, <2>1 DEF Shown, LastOfItem
  <2>3. \A m \in Shown(i) : (\A j \in Shown(i) : m >= j) => m = k
    BY <2>2
  <2>4. Max(Shown(i)) = k
    BY <2>2, <2>3 DEF Max
  <2> QED
    BY <2>1, <2>4
<1>8. \A n \in DOMAIN order : sent[order[n]].item \in DOMAIN items
  <2> SUFFICES ASSUME NEW n \in DOMAIN order PROVE sent[order[n]].item \in DOMAIN items
    OBVIOUS
  <2>1. PICK k : k = order[n]
    OBVIOUS
  <2>2. k \in firsts
    BY <1>4, <2>1 DEF ToSet
  <2>3. k \in DOMAIN sent /\ sent[k].type \in {"added", "done"}
    BY <1>2, <2>2 DEF Shown
  <2>4. EventOK(items, sent, k)
    BY <2>3 DEF Transcript
  <2> QED
    BY <2>1, <2>3, <2>4 DEF EventOK
<1>9. \A i \in DOMAIN items : \E n \in DOMAIN order : sent[order[n]].item = i
  <2> SUFFICES ASSUME NEW i \in DOMAIN items PROVE \E n \in DOMAIN order : sent[order[n]].item = i
    OBVIOUS
  <2>1. PICK k \in DOMAIN sent : sent[k].type = "done" /\ sent[k].item = i
    BY <1>1, DoneEvent
  <2>2. PICK m \in Shown(i) : \A j \in Shown(i) : m <= j
    <3>1. k \in Shown(i) /\ Shown(i) \in SUBSET Nat
      BY <1>1, <2>1 DEF Shown
    <3> QED
      BY <3>1, LeastNumber
  <2>3. m \in firsts /\ sent[m].item = i
    BY <1>2, <2>2 DEF Shown
  <2>4. PICK n \in DOMAIN order : order[n] = m
    BY <1>4, <2>3 DEF ToSet
  <2> QED
    BY <2>3, <2>4
<1>10. /\ DOMAIN snaps = DOMAIN order
       /\ \A n \in DOMAIN order :
              LET i == sent[order[n]].item
              IN  /\ i \in DOMAIN items /\ snaps[n].item = i
                  /\ snaps[n].call = items[i].call /\ snaps[n].pieces = items[i].pieces
  BY <1>5, <1>7, <1>8
<1>11. ToSet(CallsOf(snaps)) = {[item |-> snaps[n].item, args |-> snaps[n].pieces] :
                                    n \in {m \in DOMAIN snaps : snaps[m].call}}
  <2>1. DOMAIN snaps \subseteq 1..Len(order)
    BY <1>4, <1>10
  <2> QED
    BY <1>4, <2>1, CallsOfAre
<1>12. ASSUME NEW n \in DOMAIN order, snaps[n].call
       PROVE  [item |-> snaps[n].item, args |-> snaps[n].pieces] \in Calls
  <2>1. PICK i : i = sent[order[n]].item
    OBVIOUS
  <2>2. /\ i \in DOMAIN items /\ snaps[n].item = i
        /\ snaps[n].call = items[i].call /\ snaps[n].pieces = items[i].pieces
    BY <1>10, <2>1
  <2>3. [item |-> snaps[n].item, args |-> snaps[n].pieces] = CallOf(i) /\ items[i].call
    BY <1>12, <2>2 DEF CallOf
  <2> QED
    BY <2>2, <2>3 DEF Calls
<1>13. ASSUME NEW i \in DOMAIN items, items[i].call
       PROVE  \E n \in DOMAIN order :
                  snaps[n].call /\ [item |-> snaps[n].item, args |-> snaps[n].pieces] = CallOf(i)
  <2>1. PICK n \in DOMAIN order : sent[order[n]].item = i
    BY <1>9
  <2>2. /\ snaps[n].item = i
        /\ snaps[n].call = items[i].call /\ snaps[n].pieces = items[i].pieces
    BY <1>10, <2>1
  <2> QED
    BY <1>13, <2>2 DEF CallOf
<1>14. ToSet(CallsOf(snaps)) = Calls
  <2> DEFINE Call(n) == [item |-> snaps[n].item, args |-> snaps[n].pieces]
  <2>1. \A n \in DOMAIN order : snaps[n].call => Call(n) \in Calls
    BY <1>12
  <2>2. \A i \in DOMAIN items : items[i].call =>
            \E n \in DOMAIN order : snaps[n].call /\ Call(n) = CallOf(i)
    BY <1>13
  <2>3. ToSet(CallsOf(snaps)) = {Call(n) : n \in {m \in DOMAIN order : snaps[m].call}}
    BY <1>10, <1>11
  <2> HIDE DEF Call
  <2> QED
    BY <2>1, <2>2, <2>3 DEF Calls
<1> QED
  BY <1>6, <1>14

\* The text that was streamed is the text of the deltas, in their order.
LEMMA TextOfDeltas ==
    ASSUME IInv, client.finish # "none", ~damaged, TextDeltas # <<>>
    PROVE  client.text = Joined(TextDeltas)
<1>1. /\ Transcript(items, sent) /\ TextTold /\ read = Len(sent)
      /\ sent \in Seq(Events) /\ Len(sent) \in Nat /\ DOMAIN sent = 1..Len(sent)
  <2>1. Transcript(items, sent) /\ TextTold /\ read = Len(sent)
    BY DEF IInv, Ended
  <2> QED
    BY <2>1, PiecesOfItems
<1>2. PICK t : t = client.text
  OBVIOUS
<1>3. PICK D : D = {k \in DOMAIN sent : sent[k].type = "delta" /\ ~sent[k].call}
  OBVIOUS
<1>4. IsAscending(t) /\ ToSet(t) = D
  BY <1>1, <1>2, <1>3 DEF TextTold
<1>5. t = Ascending(D)
  BY <1>4, AscendingIsOne
<1>6. t \in Seq(Nat) /\ \A n \in DOMAIN t : t[n] \in D
  BY <1>4 DEF IsAscending, ToSet
<1>7. PICK deltas : deltas = [n \in DOMAIN t |-> sent[t[n]]]
  OBVIOUS
<1>8. TextDeltas = deltas
  BY <1>3, <1>5, <1>7 DEF TextDeltas
<1>9. \A n \in DOMAIN t : deltas[n].pieces = <<t[n]>> /\ ~deltas[n].call
  <2> SUFFICES ASSUME NEW n \in DOMAIN t PROVE deltas[n].pieces = <<t[n]>> /\ ~deltas[n].call
    OBVIOUS
  <2>1. PICK k : k = t[n]
    OBVIOUS
  <2>2. k \in DOMAIN sent /\ sent[k].type = "delta" /\ ~sent[k].call
    BY <1>3, <1>6, <2>1
  <2>3. sent[k].pieces = <<k>>
    BY <1>1, <2>2 DEF Transcript, EventOK
  <2>4. deltas[n] = sent[k]
    BY <1>7, <2>1
  <2> QED
    BY <2>1, <2>2, <2>3, <2>4
<1>10. t # <<>>
  <2>1. SUFFICES ASSUME t = <<>> PROVE FALSE
    OBVIOUS
  <2>2. deltas = <<>>
    BY <1>7, <2>1
  <2> QED
    BY <1>8, <2>2
<1>11. PICK seqs : seqs = [n \in DOMAIN t |-> <<t[n]>>]
  OBVIOUS
<1>12. [n \in DOMAIN deltas |-> IF deltas[n].call THEN <<>> ELSE deltas[n].pieces] = seqs
  BY <1>7, <1>9, <1>11
<1>13. Joined(deltas) = FlattenSeq(seqs)
  BY <1>12 DEF Joined
<1> QED
  BY <1>2, <1>6, <1>8, <1>10, <1>11, <1>13, FlattenOnes

\* SameAnswer: of answers of any length, with any number of items whose events are
\* mixed in any way, a client that streams gets the calls that one that does not
\* stream gets, with the same arguments, and every piece of text that came in
\* deltas; if there are no calls, that text is the other client's too.
THEOREM AnswersAreSame == Spec => []SameAnswer
<1>1. IInv => SameAnswer
  <2> SUFFICES ASSUME IInv, client.finish # "none", Completed, ~damaged
               PROVE  /\ {client.calls[x] : x \in DOMAIN client.calls} = ToSet(BufferedCalls)
                      /\ TextDeltas # <<>> =>
                            /\ client.text = Joined(TextDeltas)
                            /\ BufferedCalls = <<>> => client.text = BufferedText
    BY DEF SameAnswer
  <2>1. Transcript(items, sent)
    BY DEF IInv
  <2>2. {client.calls[x] : x \in DOMAIN client.calls} = Calls
    BY ToldAll
  <2>3. ToSet(BufferedCalls) = Calls
    BY <2>1, ListedCalls, SnapshotCalls DEF BufferedCalls
  <2>4. TextDeltas # <<>> => client.text = Joined(TextDeltas)
    BY TextOfDeltas
  <2>5. TextDeltas # <<>> /\ BufferedCalls = <<>> => BufferedText = Joined(TextDeltas)
    BY DEF BufferedText
  <2> QED
    BY <2>2, <2>3, <2>4, <2>5
<1> QED
  BY <1>1, Kept, PTL
=============================================================================
