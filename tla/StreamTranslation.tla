--------------------------- MODULE StreamTranslation ---------------------------
(***************************************************************************)
(* How an answer of the Responses API becomes a chat completion.  A client  *)
(* that streams gets it from responses_to_chat_sse, event by event; one     *)
(* that does not gets it from extract_response_text_from_sse, out of the    *)
(* whole transcript.  The transcript is made by the provider while it is    *)
(* read, and comes in chunks that end anywhere.                             *)
(*                                                                         *)
(* A piece of text, or of the arguments of a function call, is the number   *)
(* of the event that brings it.  The provider keeps to its API in this: an  *)
(* item's events bear its id, and the arguments of a call that has not been *)
(* announced by output_item.added come at once in output_item.done.         *)
(***************************************************************************)
EXTENDS Integers, Sequences, SequencesExt, FiniteSetsExt

CONSTANTS
    ItemCap,    \* bound: output items of an answer
    DeltaCap    \* bound: deltas of an answer

ASSUME StreamAssumption == ItemCap \in Nat /\ DeltaCap \in Nat

VARIABLES
    shape,      \* what differs between providers
    items,      \* external: the output items so far
    sent,       \* external: the events so far
    upstream,   \* the connection to the provider
    read,       \* how many events have been handled
    buffer,     \* what text_buffer holds of the next: nothing, a part, or a part
                \* that ends within a character
    tools,      \* tool_states, by item
    next,       \* next_tool_index
    saw,        \* saw_tool_call
    client,     \* what a client has put together from the chunks
    damaged     \* history: a character was cut in two

vars == <<shape, items, sent, upstream, read, buffer, tools, next, saw, client, damaged>>

Empty == [i \in {} |-> {}]

\* indexed: events bear output_index; announced: calls are announced by
\* output_item.added; listed: response.completed lists the output.
Init ==
    /\ shape \in [indexed: BOOLEAN, announced: BOOLEAN, listed: BOOLEAN]
    /\ items = <<>> /\ sent = <<>> /\ upstream = "open"
    /\ read = 0 /\ buffer = "none"
    /\ tools = Empty /\ next = 0 /\ saw = FALSE
    /\ client = [text |-> <<>>, calls |-> Empty, stray |-> FALSE, finish |-> "none"]
    /\ damaged = FALSE

-----------------------------------------------------------------------------
(* External: the provider *)

Event(type, i, call, pieces) ==
    [type |-> type, item |-> i, call |-> call, pieces |-> pieces]

Send(events) ==
    /\ upstream = "open"
    /\ sent' = sent \o events
    /\ UNCHANGED <<shape, upstream, read, buffer, tools, next, saw, client, damaged>>

Completed == sent # <<>> /\ Last(sent).type = "completed"

Piece == Len(sent) + 1

Add(call) ==
    /\ ~Completed
    /\ Len(items) < ItemCap
    /\ items' = Append(items, [call |-> call, pieces |-> <<>>, open |-> TRUE])
    /\ Send(IF call /\ ~shape.announced THEN <<>>
            ELSE <<Event("added", Len(items) + 1, call, <<>>)>>)

Deltas == Cardinality({k \in DOMAIN sent : sent[k].type = "delta"})

\* output_text.delta, content_part.delta or function_call_arguments.delta.
Delta(i) ==
    /\ i \in DOMAIN items /\ items[i].open
    /\ items[i].call => shape.announced
    /\ Deltas < DeltaCap
    /\ items' = [items EXCEPT ![i].pieces = Append(@, Piece)]
    /\ Send(<<Event("delta", i, items[i].call, <<Piece>>)>>)

\* The item is repeated in full, or shown for the first time if it had no deltas.
Done(i) ==
    /\ i \in DOMAIN items /\ items[i].open
    /\ \E pieces \in {items[i].pieces} \cup
                     (IF items[i].pieces = <<>> THEN {<<Piece>>} ELSE {}) :
         /\ items' = [items EXCEPT ![i] = [call |-> @.call, pieces |-> pieces, open |-> FALSE]]
         /\ Send(<<Event("done", i, items[i].call, pieces)>>)

Complete ==
    /\ ~Completed
    /\ \A i \in DOMAIN items : ~items[i].open
    /\ UNCHANGED items
    /\ Send(<<Event("completed", 0, FALSE, <<>>)>>)

\* The connection ends, by itself at any time, or with an error.
Close(how) ==
    /\ upstream = "open"
    /\ upstream' = how
    /\ UNCHANGED <<shape, items, sent, read, buffer, tools, next, saw, client, damaged>>

-----------------------------------------------------------------------------
(* responses_to_chat_sse *)

Larger(a, b) == IF a > b THEN a ELSE b

\* get_tool_state: without an output_index the next one is taken.
ToolState(i) ==
    IF i \in DOMAIN tools THEN tools[i]
    ELSE [index |-> IF shape.indexed THEN i - 1 ELSE next, started |-> FALSE,
          streamed |-> FALSE]

Set(f, x, y) == [z \in DOMAIN f \cup {x} |-> IF z = x THEN y ELSE f[z]]

\* Mutant: a call is only started when it is announced.
StartIfAnnounced(c, state, e) ==
    IF state.started \/ e.type # "added" THEN c
    ELSE [c EXCEPT !.calls = Set(@, state.index, [item |-> e.item, args |-> <<>>])]

\* tool_start_delta, unless there was one: the id and the name of the call.
Start(c, state, e) ==
    IF state.started THEN c
    ELSE [c EXCEPT !.calls = Set(@, state.index, [item |-> e.item, args |-> <<>>])]

\* A chunk with arguments for a call the client knows, or does not.
Arguments(c, index, pieces) ==
    IF pieces = <<>> THEN c
    ELSE IF index \in DOMAIN c.calls
         THEN [c EXCEPT !.calls[index].args = @ \o pieces]
         ELSE [c EXCEPT !.stray = TRUE]

\* Mutant: what output_item.done repeats is always sent.
NewArgumentsAll(state, e) == e.pieces

\* What output_item.done repeats is sent only if there were no deltas.
NewArguments(state, e) ==
    IF e.type = "done" /\ state.streamed THEN <<>> ELSE e.pieces

HandleCall(e) ==
    LET state == ToolState(e.item)
        started == Start(client, state, e)
    IN  /\ saw' = TRUE
        /\ next' = Larger(next, state.index + 1)
        /\ tools' = Set(tools, e.item,
               [index |-> state.index, started |-> TRUE,
                streamed |-> state.streamed \/ (e.type = "delta" /\ e.pieces # <<>>)])
        /\ client' = Arguments(started, state.index, NewArguments(state, e))

HandleText(e) ==
    /\ client' = [client EXCEPT !.text = @ \o e.pieces]
    /\ UNCHANGED <<tools, next, saw>>

\* Nothing is taken from any other event, not even from response.failed.
HandleOther == UNCHANGED <<tools, next, saw, client>>

\* A character that was cut in two by chunks has been decoded as two wrong ones.
Decoded(e) ==
    IF buffer = "cut" THEN [e EXCEPT !.pieces = [k \in DOMAIN @ |-> 0]] ELSE e

\* A chunk ends within the next event.
ReadPart ==
    /\ upstream # "broken"
    /\ read < Len(sent) /\ buffer = "none" /\ client.finish = "none"
    /\ \/ buffer' = "part" /\ UNCHANGED damaged
       \/ sent[read + 1].pieces # <<>> /\ buffer' = "cut" /\ damaged' = TRUE
    /\ UNCHANGED <<shape, items, sent, upstream, read, tools, next, saw, client>>

\* The end of an event has come, or that of the connection: handle_event.
ReadEvent ==
    /\ upstream # "broken"
    /\ read < Len(sent) /\ client.finish = "none"
    /\ LET e == Decoded(sent[read + 1]) IN
         \/ e.call /\ HandleCall(e)
         \/ ~e.call /\ e.type = "delta" /\ HandleText(e)
         \/ ~e.call /\ e.type # "delta" /\ HandleOther
    /\ read' = read + 1
    /\ buffer' = "none"
    /\ UNCHANGED <<shape, items, sent, upstream, damaged>>

\* The connection has ended: the reason, and [DONE].  After an error the client's
\* connection is broken off instead.
Finish ==
    /\ upstream = "closed" /\ read = Len(sent) /\ client.finish = "none"
    /\ client' = [client EXCEPT !.finish = IF saw THEN "tool_calls" ELSE "stop"]
    /\ UNCHANGED <<shape, items, sent, upstream, read, buffer, tools, next, saw, damaged>>

Next ==
    \/ \E call \in BOOLEAN : Add(call)
    \/ \E i \in 1..ItemCap : Delta(i) \/ Done(i)
    \/ Complete
    \/ \E how \in {"closed", "broken"} : Close(how)
    \/ ReadPart \/ ReadEvent \/ Finish

Spec == Init /\ [][Next]_vars

-----------------------------------------------------------------------------
(* The answer out of the whole transcript *)

\* Numbers in ascending order: one comes after as many as are less.
Ascending(S) ==
    [n \in 1..Cardinality(S) |-> CHOOSE i \in S : Cardinality({j \in S : j < i}) = n - 1]

\* _response_tool_calls, of a sequence of items.
CallsOf(output) ==
    LET calls == Ascending({i \in DOMAIN output : output[i].call})
    IN  [k \in DOMAIN calls |-> [item |-> output[calls[k]].item,
                                 args |-> output[calls[k]].pieces]]

\* The added and done events of an item.
Shown(i) == {k \in DOMAIN sent : sent[k].type \in {"added", "done"} /\ sent[k].item = i}

\* The last of them for each item, in the order of the first.
Snapshots ==
    LET firsts == {k \in DOMAIN sent : /\ k \in Shown(sent[k].item)
                                       /\ \A j \in Shown(sent[k].item) : k <= j}
        order == Ascending(firsts)
    IN  [n \in DOMAIN order |-> sent[Max(Shown(sent[order[n]].item))]]

Listed ==
    LET output == IF Completed /\ shape.listed THEN items ELSE <<>>
    IN  [i \in DOMAIN output |-> [item |-> i, call |-> output[i].call, pieces |-> output[i].pieces]]

\* main.extract_response_text_from_sse: the calls of response.completed, or else
\* of the snapshots.
BufferedCalls == IF CallsOf(Listed) # <<>> THEN CallsOf(Listed) ELSE CallsOf(Snapshots)

TextDeltas ==
    LET deltas == Ascending({k \in DOMAIN sent : sent[k].type = "delta" /\ ~sent[k].call})
    IN  [n \in DOMAIN deltas |-> sent[deltas[n]]]

Joined(output) == FlattenSeq([i \in DOMAIN output |-> IF output[i].call THEN <<>> ELSE output[i].pieces])

\* runtime_entrypoint.extract_response_text_from_sse: no text at all if there are
\* calls; otherwise the deltas, or else the text of response.completed, or else of
\* the snapshots.
BufferedText ==
    IF BufferedCalls # <<>> THEN <<>>
    ELSE IF TextDeltas # <<>> THEN Joined(TextDeltas)
    ELSE IF Joined(Listed) # <<>> THEN Joined(Listed)
    ELSE Joined(Snapshots)

-----------------------------------------------------------------------------
(* Properties *)

\* What a client that streams has of an answer that was completed, however deltas of
\* several items are mixed and chunks are cut, unless a chunk ended within a
\* character: the calls, with their arguments, that a client that does not stream
\* gets too; and all text that came in deltas, which is what the other client gets
\* if there are no calls.  Of an answer with both, the other client gets only the
\* calls; and text that came without deltas goes only to it.
SameAnswer ==
    client.finish # "none" /\ Completed /\ ~damaged =>
        /\ {client.calls[x] : x \in DOMAIN client.calls} = ToSet(BufferedCalls)
        /\ TextDeltas # <<>> =>
              /\ client.text = Joined(TextDeltas)
              /\ BufferedCalls = <<>> => client.text = BufferedText

\* No arguments come before the start of their call, and the client is told of an
\* end, with the right reason, only when the provider has ended the stream.
EndsProperly ==
    /\ ~client.stray
    /\ client.finish # "none" =>
           /\ upstream = "closed"
           /\ client.finish = "tool_calls" <=> DOMAIN client.calls # {}
=============================================================================
