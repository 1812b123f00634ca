----------------------------- MODULE Compaction ------------------------------
(***************************************************************************)
(* What services/compaction makes of a history: pruning.py, the repair of  *)
(* tool pairs and the split into chunks of messages.py, turn_protection.py *)
(* and run_compaction of summarization.py.                                 *)
(*                                                                         *)
(* A history grows by what a conversation can add, and is compacted at     *)
(* some moment, perhaps between a call and its result; nothing feeds the   *)
(* outcome back.  Identifiers and prompts are text and left out.           *)
(***************************************************************************)
EXTENDS Naturals, Sequences, FiniteSets, SequencesExt

CONSTANTS
    CallIds,           \* ids of tool calls, in their order; some providers use them again
    Texts,             \* contents of messages that a signature tells apart
    Decisions,         \* those of them with one of arch_keywords
    preserve_recent_turns, preserve_recent_tool_results,
    error_threshold, keep_recent, max_total,
    parts,             \* chunks for a summary
    budget,            \* tokens that need no summary, and those one chunk may have
    MaxHistory         \* bound on the messages

ASSUME CompactionAssumption ==
    /\ IsFiniteSet(CallIds) /\ CallIds \subseteq Nat \ {0}
    /\ Decisions \subseteq Texts
    /\ {preserve_recent_turns, preserve_recent_tool_results, error_threshold,
        keep_recent, max_total, parts, budget, MaxHistory} \subseteq Nat
    /\ keep_recent > 0 /\ keep_recent <= max_total /\ parts > 0

VARIABLES
    history,   \* the messages of the conversation, numbered
    compacted  \* what run_compaction returned

compactionVars == <<history, compacted>>

-----------------------------------------------------------------------------
\* The messages at some places, in order.
At(h, places) == FlattenSeq([i \in 1..Len(h) |-> IF i \in places THEN <<h[i]>> ELSE <<>>])

Numbers(h) == {h[i].n : i \in 1..Len(h)}
IsResult(m) == m.role = "toolResult"

\* mark_critical
IsCritical(m) == m.text \in Decisions \/ (IsResult(m) /\ m.error)

Tokens(m) == IF IsResult(m) THEN 2 ELSE 1
TokensOf(h) == FoldLeft(LAMBDA sum, m : sum + Tokens(m), 0, h)

-----------------------------------------------------------------------------
(* pruning.py *)

SameSignature(m, o) == IsResult(m) /\ IsResult(o) /\ m.text = o.text

\* DeduplicationStrategy.apply with keep_latest.  What repeats an earlier output is not kept;
\* of the others those are removed whose place in the RESULT is the place in h of an output
\* that is repeated later.
Deduplicated(h) ==
    LET repeats(i) == \E j \in 1..(i - 1) : SameSignature(h[i], h[j])
        toRemove == {i \in 1..Len(h) : \E j \in (i + 1)..Len(h) : SameSignature(h[i], h[j])}
        firsts == At(h, {i \in 1..Len(h) : ~repeats(i)})
    IN  At(firsts, (1..Len(firsts)) \ toRemove)

\* SupersedeWritesStrategy.apply finds the writes that were read later, and removes nothing.
Superseded(h) == h

\* PurgeErrorsStrategy.apply
Purged(h) ==
    LET errors == {i \in 1..Len(h) : IsResult(h[i]) /\ h[i].error}
        turns == Cardinality({i \in 1..Len(h) : h[i].role = "assistant"})
        old == Cardinality(errors) - keep_recent
        count == IF old > max_total - keep_recent THEN max_total - keep_recent ELSE old
        removed == {i \in errors : Cardinality({j \in errors : j < i}) < count}
    IN  IF turns >= error_threshold /\ Cardinality(errors) > keep_recent
        THEN At(h, (1..Len(h)) \ removed)
        ELSE h

\* _safe_apply: a strategy sees the rest only, and the critical messages go back to their places.
Rest(h) == At(h, {i \in 1..Len(h) : ~IsCritical(h[i])})
SafeApply(h, pruned) == At(h, {i \in 1..Len(h) : IsCritical(h[i]) \/ h[i].n \in Numbers(pruned)})

PruneWithStrategies(h) ==
    LET first == SafeApply(h, Deduplicated(Rest(h)))
        second == SafeApply(first, Superseded(Rest(first)))
    IN  SafeApply(second, Purged(Rest(second)))

-----------------------------------------------------------------------------
(* messages.py *)

\* The assistant message whose results i is among: only results are between the two.
Asker(h, i) ==
    LET before == {j \in 1..(i - 1) : ~IsResult(h[j])} IN
    IF IsResult(h[i]) /\ before # {} /\ \E j \in before : h[j].role = "assistant" /\ \A k \in before : k <= j
    THEN CHOOSE j \in before : \A k \in before : k <= j
    ELSE 0

Matches(h, i) == Asker(h, i) # 0 /\ h[i].call \in h[Asker(h, i)].calls

Synthetic(id) == [n |-> 0, role |-> "toolResult", text |-> "not available", call |-> id,
                  calls |-> {}, error |-> TRUE, ended |-> FALSE]

\* A missing result stays missing.
RepairToolPairingOnly(h) ==
    LET kept(i) == Matches(h, i) /\ \A j \in 1..(i - 1) : ~(Matches(h, j) /\ h[j].call = h[i].call)
    IN  At(h, {i \in 1..Len(h) : ~IsResult(h[i]) \/ kept(i)})

\* repair_tool_pairing.  A result is a duplicate if any call of the same id, of an earlier
\* message too, had one.  The order of the results of one message is that of a Python set.
RepairToolPairing(h) ==
    LET kept(i) == Matches(h, i) /\ \A j \in 1..(i - 1) : ~(Matches(h, j) /\ h[j].call = h[i].call)
        resultOf(a, id) == LET found == {i \in 1..Len(h) : kept(i) /\ Asker(h, i) = a /\ h[i].call = id}
                           IN  IF found = {} THEN Synthetic(id) ELSE h[CHOOSE i \in found : TRUE]
        order(a) == SetToSeq(h[a].calls)
        block(i) == IF h[i].role = "assistant"
                    THEN <<h[i]>> \o [k \in 1..Len(order(i)) |-> resultOf(i, order(i)[k])]
                    ELSE IF Asker(h, i) = 0 THEN <<h[i]>> ELSE <<>>
    IN  FlattenSeq([i \in 1..Len(h) |-> block(i)])

\* split_messages_by_token_share.  Results are held back until the next boundary, or until an
\* assistant message that ended with calls, before which they make a chunk of their own.
Boundary(acc) == [chunks |-> Append(acc.chunks, acc.current \o acc.pending),
                  current |-> <<>>, tokens |-> 0, pending |-> <<>>]
OwnChunk(acc) == [acc EXCEPT !.chunks = Append(@, acc.pending), !.pending = <<>>]

AddedTo(acc, m) ==
    LET own == IF m.calls # {} /\ m.ended /\ acc.pending # <<>> THEN OwnChunk(acc) ELSE acc
    IN  IF IsResult(m) THEN [acc EXCEPT !.pending = Append(@, m)]
        ELSE [own EXCEPT !.current = Append(@, m), !.tokens = @ + Tokens(m)]

SplitByTokenShare(h) ==
    LET target == TokensOf(h) \div parts
        full(acc, m) == acc.tokens + Tokens(m) > target /\ acc.current # <<>>
        walk[i \in 0..Len(h)] ==
            IF i = 0 THEN [chunks |-> <<>>, current |-> <<>>, tokens |-> 0, pending |-> <<>>]
            ELSE AddedTo(IF full(walk[i - 1], h[i]) THEN Boundary(walk[i - 1]) ELSE walk[i - 1], h[i])
        end == walk[Len(h)]
        last == end.current \o end.pending
    IN  IF Len(h) <= parts THEN [i \in 1..Len(h) |-> <<h[i]>>]
        ELSE IF last = <<>> THEN end.chunks ELSE Append(end.chunks, last)

-----------------------------------------------------------------------------
(* turn_protection.py *)

After(h, i, roles) == Cardinality({j \in (i + 1)..Len(h) : h[j].role \in roles})
Turn == {"user", "assistant"}

Recent(h, i) ==
    \/ h[i].role \in Turn /\ After(h, i, Turn) < preserve_recent_turns
    \/ IsResult(h[i]) /\ After(h, i, {"toolResult"}) < preserve_recent_tool_results

\* split_preserved_recent_turns: the system's messages, which stay reversed, turns, results.
Preserved(h) == Reverse(At(h, {i \in 1..Len(h) : h[i].role = "system"}))
                \o At(h, {i \in 1..Len(h) : Recent(h, i) /\ h[i].role \in Turn})
                \o At(h, {i \in 1..Len(h) : Recent(h, i) /\ IsResult(h[i])})
Summarizable(h) == At(h, {i \in 1..Len(h) : h[i].role # "system" /\ ~Recent(h, i)})

-----------------------------------------------------------------------------
Message(role, text) == [n |-> Len(history) + 1, role |-> role, text |-> text, call |-> 0,
                        calls |-> {}, error |-> FALSE, ended |-> FALSE]

\* Ids the last assistant message has called and that have no result yet.
Unanswered == LET asked == {i \in 1..Len(history) : history[i].calls # {} /\
                          \A j \in (i + 1)..Len(history) : IsResult(history[j])}
        IN  UNION {history[i].calls \ {history[j].call : j \in (i + 1)..Len(history)} : i \in asked}

CompactionInit == /\ history = <<>>
                  /\ compacted = [pruned |-> <<>>, repaired |-> <<>>, preserved |-> <<>>,
                                  chunks |-> <<>>, summary |-> "never"]

Say(m) == /\ Len(history) < MaxHistory
          /\ compacted.summary = "never"
          /\ history' = Append(history, m)
          /\ UNCHANGED compacted

Plain == CHOOSE text \in Texts \ Decisions : TRUE

\* An abort may leave calls without a result.
AddMessage == \/ Say(Message("system", Plain))
              \/ \E text \in Texts : Say(Message("user", text))

AddAssistant ==
    /\ Unanswered = {}
    /\ \/ \E text \in Texts : Say(Message("assistant", text))
       \/ \E calls \in (SUBSET CallIds) \ {{}}, ended \in BOOLEAN :
             Say([Message("assistant", Plain) EXCEPT !.calls = calls, !.ended = ended])

\* The results of a message's calls come in order.
AddResult ==
    /\ Unanswered # {}
    /\ LET id == CHOOSE id \in Unanswered : \A other \in Unanswered : id <= other IN
       \E text \in Texts, error \in BOOLEAN :
          Say([Message("toolResult", text) EXCEPT !.call = id, !.error = error])

\* run_compaction: the pruned messages are returned as they were before the repair.  A summary
\* is made of one piece or of chunks, or the summarizer fails.
RunCompaction ==
    LET pruned == PruneWithStrategies(history)
        repaired == RepairToolPairing(pruned)
        rest == Summarizable(repaired)
        outcome(chunks, summary) ==
            compacted' = [pruned |-> pruned, repaired |-> repaired, preserved |-> Preserved(repaired),
                          chunks |-> chunks, summary |-> summary]
    IN  /\ compacted.summary = "never"
        /\ IF TokensOf(rest) <= budget
           THEN outcome(<<rest>>, "")
           ELSE \E summary \in {"made", "failed"} : outcome(SplitByTokenShare(rest), summary)
        /\ UNCHANGED history

CompactionNext == AddMessage \/ AddAssistant \/ AddResult \/ RunCompaction
CompactionSpec == CompactionInit /\ [][CompactionNext]_compactionVars

-----------------------------------------------------------------------------
Occurrences(m, h) == Cardinality({i \in 1..Len(h) : h[i] = m})

\* "Protect CRITICAL turns from any pruning strategy" (pruning.py:258): whatever the strategies
\* remove, and deduplication removes more than it should, a decision or a failure stays.
CriticalSurvive ==
    compacted.summary # "never" =>
       /\ \A i \in 1..Len(history) :
             IsCritical(history[i]) => history[i].n \in Numbers(compacted.pruned)
       /\ \A i, j \in 1..Len(compacted.pruned) : i < j => compacted.pruned[i].n < compacted.pruned[j].n

\* "This prevents "unexpected tool_use_id" errors from the API" (messages.py:294): after the
\* repair every call has exactly one result, right after its message and before anything else,
\* wherever the history was cut and whatever pruning took, even if an id was used before.
CallsAnswered ==
    \A i \in 1..Len(compacted.repaired) :
       LET m == compacted.repaired[i]
           answers == SubSeq(compacted.repaired, i + 1, i + Cardinality(m.calls))
       IN  m.calls # {} =>
             /\ i + Cardinality(m.calls) <= Len(compacted.repaired)
             /\ \A id \in m.calls : \E k \in 1..Len(answers) : IsResult(answers[k]) /\ answers[k].call = id

\* Every message of the repaired history is preserved or in one chunk, once (turn_protection.py:61,
\* messages.py:238).
NothingLost ==
    \A i \in 1..Len(compacted.repaired) :
       LET m == compacted.repaired[i] IN
       Occurrences(m, compacted.repaired)
       = Occurrences(m, compacted.preserved) + Occurrences(m, FlattenSeq(compacted.chunks))

\* What a compaction hands on: nothing critical is gone, calls have their results, and each
\* message is in one place.
CompactionSound == CriticalSurvive /\ CallsAnswered /\ NothingLost

=============================================================================
