------------------------------- MODULE Output -------------------------------
(***************************************************************************)
(* What happens to a command's output between the host and the console:    *)
(* two LineWriters per command that cut it into lines (runner/output.go),  *)
(* the writer or log handler behind it (runner/cluster.go, executor/       *)
(* logging.go), the sink of a silent_output task (executor/                *)
(* capture_output.go), and the masking writer in front of the console      *)
(* (masking/masking.go).                                                   *)
(*                                                                         *)
(* A run is a sequence of rounds, each an echo and a fan-out over all      *)
(* hosts.  A command abandoned by its context goes on printing after Run   *)
(* returned: nothing waits for the goroutine that copies its output        *)
(* (transport/ssh/client.go:391-397), so it may print into a later round.  *)
(*                                                                         *)
(* A text is a sequence of symbols.  A host's name is also its label, "$"  *)
(* an echoed command, "F" the placeholder of a masked secret.  Registered  *)
(* values are masked; the built-in patterns are not modelled.              *)
(***************************************************************************)
EXTENDS Integers, SequencesExt

CONSTANTS
    Hosts,
    Chunks,         \* the texts a command may print in one write
    Values,         \* the sensitive values, in the order they are rendered
    MinSecretLen,   \* shorter values are not masked
    MaxLine,        \* what a writer holds while it waits for a line's end
    MaxWrites       \* bound: a fan-out for each member, and no more than so many writes of
                    \* all commands up to and in it

Newline == "n"
Return == "r"
Echo == "$"
Filtered == "F"
Ends == {Newline, Return}
Symbols == Hosts \cup Ends \cup {Echo, Filtered} \cup UNION {Range(c) : c \in Chunks}

ASSUME OutputAssumption == /\ MinSecretLen \in Nat \ {0} /\ MaxLine \in Nat \ {0}
                           /\ MaxWrites \in Seq(Nat)
                           /\ Chunks \subseteq Seq(Symbols)
                           /\ Values \in Seq(Range(Values)) /\ \A v \in Range(Values) : v \in Seq(Range(v))

VARIABLES
    mode,      \* "raw": text on the console; "log": one record a line
    round,     \* the current round, 0 before the first
    phase,     \* "idle" or "running"
    silent,    \* round -> does its task hold back its output?
    replayed,  \* round -> did it fail and show what it held back?
    at,        \* writer -> "off", "running", "ended", "flushing", "flushed"
    late,      \* the writers whose command was abandoned
    printed,   \* writer -> the writes of its command's stream
    buf,       \* writer -> text that waits for the end of its line
    holder,    \* the writer that holds outMu, or NoWriter
    labelled,  \* has the holder written the label of its line?
    sink,      \* round -> output held back
    mask,      \* text the masking writer holds
    secrets,   \* the values registered for masking, longest first
    console

vars == <<mode, round, phase, silent, replayed, at, late, printed, buf, holder, labelled,
          sink, mask, secrets, console>>

MaxRounds == Len(MaxWrites)
Rounds == 1..MaxRounds
Streams == {"stdout", "stderr"}
\* Two LineWriters per command, with one label: cluster.go:62-68, 79-83.
Writers == Rounds \X Hosts \X Streams
NoWriter == <<>>

-----------------------------------------------------------------------------
(* Masking *)

\* v is in s after its first j symbols.
OccursAt(v, s, j) == j + Len(v) <= Len(s) /\ \A k \in DOMAIN v : s[j + k] = v[k]

IsSuffixOf(v, s) == Len(v) <= Len(s) /\ OccursAt(v, s, Len(s) - Len(v))

\* What Replace makes of s, whose last symbol has just been copied.
ReplaceLast(s, sec) == IF IsSuffixOf(sec, s)
                       THEN Append(SubSeq(s, 1, Len(s) - Len(sec)), Filtered) ELSE s

\* strings.ReplaceAll(s, sec, Placeholder).
Replace(s, sec) ==
    LET out[i \in 0..Len(s)] == IF i = 0 THEN <<>> ELSE ReplaceLast(Append(out[i - 1], s[i]), sec)
    IN  out[Len(s)]

\* replaceSecrets: every value of known in turn.
ReplaceEach(known, s) ==
    LET out[i \in 0..Len(known)] == IF i = 0 THEN s ELSE Replace(out[i - 1], known[i])
    IN  out[Len(known)]

Masked(s) == ReplaceEach(secrets, s)

\* One more symbol: <<the complete pieces, what is left>>.
CutAt(r, c, ends) == IF c \in ends THEN <<Append(r[1], Append(r[2], c)), <<>>>>
                                   ELSE <<r[1], Append(r[2], c)>>

\* Cuts b after every member of ends.
Cut(b, ends) ==
    LET out[i \in 0..Len(b)] == IF i = 0 THEN <<<<>>, <<>>>> ELSE CutAt(out[i - 1], b[i], ends)
    IN  out[Len(b)]

\* Longest first, equal lengths in the order they were registered.
WithSecret(known, v) ==
    LET n == Cardinality({i \in DOMAIN known : Len(known[i]) >= Len(v)})
    IN  IF Len(v) < MinSecretLen \/ v \in Range(known) THEN known
        ELSE SubSeq(known, 1, n) \o <<v>> \o SubSeq(known, n + 1, Len(known))

\* All of vs, one after the other.
WithSecrets(known, vs) ==
    LET out[i \in 0..Len(vs)] == IF i = 0 THEN known ELSE WithSecret(out[i - 1], vs[i])
    IN  out[Len(vs)]

\* AddSecret: the value and each of its lines.
AddSecret(known, v) ==
    LET cut == Cut(v, Ends)
    IN  WithSecrets(known, <<v>> \o [i \in DOMAIN cut[1] |-> Front(cut[1][i])] \o <<cut[2]>>)

\* The values are rendered one after the other.
Registered ==
    LET out[i \in 0..Len(Values)] == IF i = 0 THEN <<>> ELSE AddSecret(out[i - 1], Values[i])
    IN  out[Len(Values)]

\* Writer.Write: every complete line is masked and written; what is left is cut into
\* chunks of MaxLine.
MaskingWrite(text) ==
    LET cut == Cut(mask \o text, Ends)
        chunks == Len(cut[2]) \div MaxLine
        chunk(i) == SubSeq(cut[2], (i - 1) * MaxLine + 1, i * MaxLine)
        pieces == cut[1] \o [i \in 1..chunks |-> chunk(i)]
    IN  /\ console' = console \o FlattenSeq([i \in DOMAIN pieces |-> Masked(pieces[i])])
        /\ mask' = SubSeq(cut[2], chunks * MaxLine + 1, Len(cut[2]))

\* Mutant: what was held back goes to the console as it is.
MaskingReplayRaw(text) == console' = console \o mask \o text /\ mask' = <<>>

\* Writer.Write, then Writer.Flush: capture_output.go:79-82.
MaskingReplay(text) ==
    LET cut == Cut(mask \o text, Ends)
    IN  /\ console' = console \o FlattenSeq([i \in DOMAIN cut[1] |-> Masked(cut[1][i])])
                              \o Masked(cut[2])
        /\ mask' = <<>>

-----------------------------------------------------------------------------
(* Where output goes *)

\* A writer's destination is the one in place when its command started
\* (SetOut; writer() reads c.out per call).
ToOut(r, quiet, text) == IF quiet THEN /\ sink' = [sink EXCEPT ![r] = @ \o text]
                                       /\ UNCHANGED <<mask, console>>
                                  ELSE MaskingWrite(text) /\ UNCHANGED sink

\* One record: redacted at once, written as a whole, or kept by the sink of the task that
\* is running when the line comes in: logLine and logExec read e.capture.
ToLog(r, quiet, text) ==
    /\ UNCHANGED mask
    /\ IF quiet THEN sink' = [sink EXCEPT ![r] = @ \o Masked(text)] /\ UNCHANGED console
                ELSE console' = console \o Masked(text) /\ UNCHANGED sink

Init ==
    /\ mode \in {"raw", "log"}
    /\ round = 0 /\ phase = "idle"
    /\ silent = [r \in Rounds |-> FALSE] /\ replayed = [r \in Rounds |-> FALSE]
    /\ at = [w \in Writers |-> "off"] /\ late = {}
    /\ printed = [w \in Writers |-> <<>>] /\ buf = [w \in Writers |-> <<>>]
    /\ holder = NoWriter /\ labelled = FALSE
    /\ sink = [r \in Rounds |-> <<>>] /\ mask = <<>> /\ console = <<>>
    /\ secrets = Registered

Written == FoldFunctionOnSet(LAMBDA s, n : Len(s) + n, 0, printed, Writers)

\* The bound on writes leaves room for one more in round r.
MayPrint(r) == Written < MaxWrites[r]

\* The next task: its values were rendered and registered when the configuration was
\* loaded, its output is diverted if it is silent (beginCapture), echoExec writes a line
\* of its own without outMu, and the fan-out starts.
BeginRound ==
    /\ phase = "idle" /\ round < MaxRounds /\ MayPrint(round + 1)
    /\ round' = round + 1 /\ phase' = "running"
    /\ \E quiet \in BOOLEAN :
         /\ silent' = [silent EXCEPT ![round'] = quiet]
         /\ IF mode = "raw" THEN ToOut(round', quiet, <<Echo, Newline>>)
                            ELSE ToLog(round', quiet, <<Echo, Newline>>)
    /\ at' = [w \in Writers |-> IF w[1] = round' THEN "running" ELSE at[w]]
    /\ UNCHANGED <<mode, replayed, late, printed, buf, holder, labelled, secrets>>

-----------------------------------------------------------------------------
(* LineWriter *)

\* Mutant: a writer does not wait for the one that is in the middle of its lines.
WriteUnlocked(w) ==
    /\ at[w] = "running" \/ w \in late
    /\ MayPrint(round)
    /\ \E c \in Chunks : /\ printed' = [printed EXCEPT ![w] = Append(@, c)]
                         /\ buf' = [buf EXCEPT ![w] = @ \o c]
    /\ holder' = w
    /\ UNCHANGED <<mode, round, phase, silent, replayed, at, late, labelled, sink, mask,
                   secrets, console>>

\* A command prints: Write appends to the buffer under outMu.  In log mode every writer
\* has a mutex of its own, but each line is one record, so nothing tells the two apart.
Write(w) ==
    /\ at[w] = "running" \/ w \in late
    /\ holder = NoWriter /\ MayPrint(round)
    /\ \E c \in Chunks : /\ printed' = [printed EXCEPT ![w] = Append(@, c)]
                         /\ buf' = [buf EXCEPT ![w] = @ \o c]
    /\ holder' = w
    /\ UNCHANGED <<mode, round, phase, silent, replayed, at, late, labelled, sink, mask,
                   secrets, console>>

\* The length of the first line in b, or of a full buffer; 0 when b waits for more.
LineEnd(b) == LET i == SelectInSeq(b, LAMBDA c : c = Newline)
              IN  IF i # 0 THEN i ELSE IF Len(b) >= MaxLine THEN MaxLine ELSE 0

\* The first write of emit: the host's label.
EmitLabel ==
    /\ holder # NoWriter /\ mode = "raw" /\ ~labelled /\ LineEnd(buf[holder]) # 0
    /\ ToOut(holder[1], silent[holder[1]], <<holder[2]>>) /\ labelled' = TRUE
    /\ UNCHANGED <<mode, round, phase, silent, replayed, at, late, printed, buf, holder, secrets>>

\* The second write of emit, or the one record.  A full buffer gets a line end.
EmitLine ==
    /\ holder # NoWriter /\ LineEnd(buf[holder]) # 0
    /\ LET b == buf[holder]
           n == LineEnd(b)
           line == IF b[n] = Newline THEN SubSeq(b, 1, n) ELSE Append(SubSeq(b, 1, n), Newline)
       IN  /\ \/ mode = "raw" /\ labelled
                 /\ ToOut(holder[1], silent[holder[1]], line)
              \/ mode = "log"
                 /\ ToLog(round, phase = "running" /\ silent[round], <<holder[2]>> \o line)
           /\ buf' = [buf EXCEPT ![holder] = SubSeq(b, n + 1, Len(b))]
    /\ labelled' = FALSE
    /\ UNCHANGED <<mode, round, phase, silent, replayed, at, late, printed, holder, secrets>>

\* Write or Flush returns.
Release ==
    /\ holder # NoWriter /\ LineEnd(buf[holder]) = 0
    /\ holder' = NoWriter
    /\ at' = [at EXCEPT ![holder] = IF @ = "flushing" THEN "flushed" ELSE @]
    /\ UNCHANGED <<mode, round, phase, silent, replayed, late, printed, buf, labelled, sink,
                   mask, secrets, console>>

\* The command ends and all of its output was copied, or its context ends and Run returns
\* while the copies go on.
RunReturns(r, h) ==
    LET own == {r} \X {h} \X Streams
    IN  /\ \A w \in own : at[w] = "running"
        /\ \/ holder \notin own /\ UNCHANGED late
           \/ late' = late \cup own
        /\ at' = [w \in Writers |-> IF w \in own THEN "ended" ELSE at[w]]
    /\ UNCHANGED <<mode, round, phase, silent, replayed, printed, buf, holder, labelled, sink,
                   mask, secrets, console>>

\* Of the deferred Flushes the last runs first.
MayFlush(w) ==
    /\ at[w] = "ended" /\ holder = NoWriter
    /\ w[3] = "stdout" => at[<<w[1], w[2], "stderr">>] = "flushed"

\* Flush emits what is left with a line end.
Flush(w) ==
    /\ MayFlush(w)
    /\ IF buf[w] = <<>> THEN at' = [at EXCEPT ![w] = "flushed"] /\ UNCHANGED <<buf, holder>>
       ELSE /\ at' = [at EXCEPT ![w] = "flushing"] /\ holder' = w
            /\ buf' = [buf EXCEPT ![w] = Append(@, Newline)]
    /\ UNCHANGED <<mode, round, phase, silent, replayed, late, printed, labelled, sink, mask,
                   secrets, console>>

\* The fan-out returned.  A silent task's output is dropped, or replayed when it failed
\* (endCapture).
RoundEnds ==
    /\ phase = "running"
    /\ \A w \in {round} \X Hosts \X Streams : at[w] = "flushed"
    /\ phase' = "idle"
    /\ \E err \in BOOLEAN :
         /\ late \cap ({round} \X Hosts \X Streams) # {} => err
         /\ replayed' = [replayed EXCEPT ![round] = silent[round] /\ err]
         /\ IF ~replayed'[round] THEN UNCHANGED <<mask, console>>
            ELSE IF mode = "raw" THEN MaskingReplay(sink[round])
            ELSE console' = console \o sink[round] /\ UNCHANGED mask
    /\ UNCHANGED <<mode, round, silent, at, late, printed, buf, holder, labelled, sink, secrets>>

Next ==
    \/ BeginRound \/ EmitLabel \/ EmitLine \/ Release \/ RoundEnds
    \/ \E w \in Writers : Write(w) \/ Flush(w)
    \/ \E r \in Rounds, h \in Hosts : RunReturns(r, h)

Spec == Init /\ [][Next]_vars

-----------------------------------------------------------------------------
(* Safety *)

\* The lines of s without their ends.
LinesOf(s) == LET cut == Cut(s, {Newline})
                  whole == [i \in DOMAIN cut[1] |-> Front(cut[1][i])]
              IN  IF cut[2] = <<>> THEN whole ELSE Append(whole, cut[2])

\* A line of v, from its place i to its place j, that is long enough to be masked.
IsLine(v, i, j) ==
    /\ j - i + 1 >= MinSecretLen
    /\ \A k \in i..j : v[k] \notin Ends
    /\ i = 1 \/ v[i - 1] \in Ends
    /\ j = Len(v) \/ v[j + 1] \in Ends

\* What must be hidden.
Promised == UNION {{SubSeq(v, p[1], p[2]) : p \in {q \in (DOMAIN v) \X (DOMAIN v) : IsLine(v, q[1], q[2])}} :
                     v \in Range(Values)}

\* Position i of line is inside a value, or a line of a value, that must be hidden.
Hidden(line, i) == \E v \in Promised : \E j \in 0..(i - 1) : i <= j + Len(v) /\ OccursAt(v, line, j)

\* What the console may show of a line.
Shown(line) == FoldLeftDomain(LAMBDA out, i : IF Hidden(line, i) THEN out
                                              ELSE Append(out, line[i]), <<>>, line)

\* The lines of the console with label h, without it and without placeholders.
ConsoleOf(h) ==
    LET mine == SelectSeq(LinesOf(console), LAMBDA l : l # <<>> /\ l[1] = h)
    IN  [i \in DOMAIN mine |-> Remove(Tail(mine[i]), Filtered)]

ShownOf(w) == LET lines == LinesOf(FlattenSeq(printed[w]))
              IN  [i \in DOMAIN lines |-> Shown(lines[i])]

\* Nothing of this host was cut or printed too late.
Regular(h) ==
    \A w \in Rounds \X {h} \X Streams :
      /\ w \notin late /\ at[w] \in {"off", "flushed"}
      /\ \A i \in DOMAIN LinesOf(FlattenSeq(printed[w])) :
           Len(LinesOf(FlattenSeq(printed[w]))[i]) < MaxLine

\* What a writer's stream owes the console.
Due(w) == IF silent[w[1]] /\ ~replayed[w[1]] THEN <<>> ELSE ShownOf(w)

\* s is a and b, each in its order.
Merges(s, a, b) ==
    \E mine \in SUBSET (DOMAIN s) :
        /\ a = [i \in 1..Cardinality(mine) |-> s[SetToSortSeq(mine, <)[i]]]
        /\ LET others == (DOMAIN s) \ mine
           IN  b = [i \in 1..Cardinality(others) |-> s[SetToSortSeq(others, <)[i]]]

\* Every line a host's commands printed is on the console, once, in the order of its stream
\* and of the rounds, under the host's label, on a line that nobody else wrote into, without
\* its secrets and with everything else; except for a silent task that succeeded, whose
\* output is dropped (runner/output.go:34-38, masking.go:39-74, capture_output.go:54-57).
\* A replay of a silent task does not take outMu, so it is left out when an abandoned
\* command may be in the middle of a line.
OutputWhole ==
    phase = "idle" =>
      \A h \in {g \in Hosts : Regular(g)} :
        (\A r \in Rounds : ~silent[r] \/ late = {}) =>
          LET out(r) == Due(<<r, h, "stdout">>)
              err(r) == Due(<<r, h, "stderr">>)
              sofar[r \in 0..MaxRounds] ==
                  IF r = 0 THEN 0 ELSE sofar[r - 1] + Len(out(r)) + Len(err(r))
          IN  /\ Len(ConsoleOf(h)) = sofar[MaxRounds]
              /\ \A r \in Rounds :
                     Merges(SubSeq(ConsoleOf(h), sofar[r - 1] + 1, sofar[r]), out(r), err(r))

\* However its text is split over writes, hosts and abandoned commands, no line of the
\* console shows a registered value (masking.go:144-147, logging.go:104-117).
NoSecretShown ==
    \A v \in Promised : \A j \in 0..Len(console) : ~OccursAt(v, console, j)

=============================================================================
