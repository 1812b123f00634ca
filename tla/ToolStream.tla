----------------------------- MODULE ToolStream ------------------------------
(***************************************************************************)
(* Tool calls on their way from an OpenAI-compatible gateway to the turn:  *)
(* the accumulator of the provider (opencode, openrouter, lmstudio) and    *)
(* the StreamCollector (core/streaming.py) behind it.                      *)
(*                                                                         *)
(* A gateway sends a call's id, its name and its arguments in pieces, over *)
(* as many chunks as it likes, and several calls at once, told apart by    *)
(* their index; some never send an id, some never a finish reason.  The    *)
(* provider turns that into blocks that open, grow and close.              *)
(***************************************************************************)
EXTENDS Naturals, Sequences, FiniteSets

CONSTANTS
    MaxCalls,  \* bound on the parallel calls, which have the indices 1, 2, ...
    MaxParts   \* bound on the pieces of a call's arguments

ASSUME StreamAssumption == MaxCalls \in Nat /\ MaxParts \in Nat

VARIABLES
    provider,  \* which of the providers it is
    wire,      \* what the gateway has sent of each call
    acc,       \* tool_acc
    blocks,    \* _tool_blocks of the collector: "closed" if the index has none
    uses,      \* tool_uses
    stream     \* the chunks still come, come to an end, or are all handled

streamVars == <<provider, wire, acc, blocks, uses, stream>>

-----------------------------------------------------------------------------
Indices == 1..MaxCalls
NoEntry == [seen |-> FALSE, id |-> "none", name |-> FALSE, parts |-> 0, sent |-> 0, emitted |-> FALSE]
Closed == [id |-> "closed", json |-> <<>>]

StreamInit ==
    /\ provider \in {"opencode", "openrouter", "lmstudio"}
    /\ wire = [i \in Indices |-> [id |-> FALSE, name |-> FALSE, parts |-> 0]]
    /\ acc = [i \in Indices |-> NoEntry]
    /\ blocks = [i \in Indices |-> Closed]
    /\ uses = <<>>
    /\ stream = "running"

\* The state the events of a chunk go through: entry e of the accumulator, block b.
Unsent(e) == [k \in 1..(e.parts - e.sent) |-> e.sent + k]

\* content_block_start
Start(eb) == [e |-> [eb.e EXCEPT !.emitted = TRUE], b |-> [id |-> eb.e.id, json |-> <<>>]]
\* content_block_delta for the arguments not sent yet
Deltas(eb) == [e |-> [eb.e EXCEPT !.sent = eb.e.parts], b |-> [eb.b EXCEPT !.json = @ \o Unsent(eb.e)]]
Fallback(eb) == IF eb.e.id = "none" THEN [eb EXCEPT !.e.id = "made"] ELSE eb

\* What a delta says of a call.
Noted(e, d) == [e EXCEPT !.seen = TRUE, !.id = IF d.id THEN "sent" ELSE @, !.name = @ \/ d.name,
                         !.parts = IF d.part THEN @ + 1 ELSE @]

\* A block opens when id and name are known; lmstudio makes an id up as soon as it has the name.
OpencodeDelta(eb) ==
    LET open == IF eb.e.id # "none" /\ eb.e.name /\ ~eb.e.emitted THEN Start(eb) ELSE eb
    IN  IF open.e.emitted THEN Deltas(open) ELSE open
OpenrouterDelta(eb) == OpencodeDelta(eb)
LmstudioDelta(eb) ==
    LET open == IF eb.e.name /\ ~eb.e.emitted THEN Start(Fallback(eb)) ELSE eb
    IN  IF open.e.emitted THEN Deltas(open) ELSE open

Handle(eb) == CASE provider = "opencode" -> OpencodeDelta(eb)
                [] provider = "openrouter" -> OpenrouterDelta(eb)
                [] provider = "lmstudio" -> LmstudioDelta(eb)

\* A chunk with one call's delta.
Delta(i) ==
    /\ stream = "running"
    /\ \E d \in [id : BOOLEAN, name : BOOLEAN, part : BOOLEAN] :
          /\ (d.id \/ d.name \/ d.part) /\ (d.id => ~wire[i].id) /\ (d.name => ~wire[i].name)
          /\ d.part => wire[i].parts < MaxParts
          /\ wire' = [wire EXCEPT ![i].id = @ \/ d.id, ![i].name = @ \/ d.name,
                                  ![i].parts = IF d.part THEN @ + 1 ELSE @]
          /\ LET eb == Handle([e |-> Noted(acc[i], d), b |-> blocks[i]]) IN
             /\ acc' = [acc EXCEPT ![i] = eb.e]
             /\ blocks' = [blocks EXCEPT ![i] = eb.b]
    /\ UNCHANGED <<provider, uses, stream>>

\* The block that opens last has no arguments.
OpencodeFinishEmpty(eb) == IF ~eb.e.emitted /\ eb.e.name THEN Start(Fallback(eb)) ELSE eb

\* finish_reason, or the end of a stream without one.  An entry that has a name and no block gets
\* one now; an entry without a name is dropped.
OpencodeFinish(eb) ==
    IF ~eb.e.emitted /\ eb.e.name THEN Deltas(Start(Fallback(eb))) ELSE eb
OpenrouterFinish(eb) == OpencodeFinish(eb)
LmstudioFinish(eb) ==
    LET open == IF ~eb.e.emitted /\ eb.e.name THEN Start(Fallback(eb)) ELSE eb
    IN  IF open.e.emitted THEN Deltas(open) ELSE open

Finished(i) ==
    LET eb == [e |-> acc[i], b |-> blocks[i]]
    IN  CASE provider = "opencode" -> OpencodeFinish(eb)
          [] provider = "openrouter" -> OpenrouterFinish(eb)
          [] provider = "lmstudio" -> LmstudioFinish(eb)

\* Indices from the smallest to the greatest.
Ascending(S) == [n \in 1..Cardinality(S) |-> CHOOSE i \in S : Cardinality({j \in S : j <= i}) = n]

\* _finish_tool_block, of every emitted entry in the order of the indices.
FinishToolBlocks ==
    LET emitted == Ascending({i \in Indices : acc[i].seen /\ Finished(i).e.emitted})
    IN  [k \in 1..Len(emitted) |->
           [index |-> emitted[k], id |-> Finished(emitted[k]).b.id, input |-> Finished(emitted[k]).b.json]]

Finish ==
    /\ stream = "running"
    /\ uses' = uses \o FinishToolBlocks
    /\ blocks' = [i \in Indices |-> Closed]
    \* the opencode providers leave the entries of a stream that just ends
    /\ \/ acc' = [i \in Indices |-> NoEntry]
       \/ provider # "lmstudio" /\ acc' = [i \in Indices |-> IF acc[i].seen THEN Finished(i).e ELSE NoEntry]
    /\ stream' = "over"
    /\ UNCHANGED <<provider, wire>>

StreamNext == Finish \/ \E i \in Indices : Delta(i)
StreamSpec == StreamInit /\ [][StreamNext]_streamVars

-----------------------------------------------------------------------------
\* Every call the gateway has named arrives once, whole and in the order of the indices, however
\* its pieces were cut and mixed with those of others: no argument is lost because it came
\* before the id or the name, none is sent twice (openrouter_provider.py:129-132), and none
\* grows in the block of another call.
CallsArriveWhole ==
    /\ \A i \in Indices : blocks[i].json = [k \in 1..Len(blocks[i].json) |-> k]
    /\ stream = "over" =>
         LET named == Ascending({i \in Indices : wire[i].name}) IN
         /\ Len(uses) = Len(named)
         /\ \A k \in 1..Len(uses) :
              /\ uses[k].index = named[k]
              /\ uses[k].input = [j \in 1..wire[named[k]].parts |-> j]
              /\ (provider # "lmstudio" /\ wire[named[k]].id) => uses[k].id = "sent"

=============================================================================
