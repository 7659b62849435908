------------------------------ MODULE Answers ------------------------------
(***************************************************************************)
(* What the console makes of the workers' answers: the texts that          *)
(* SendCountAnswer and SendWcAnswer build and that PrintMaxCount,          *)
(* PrintMinCount and PrintWc take apart again, worker by worker.           *)
(*                                                                         *)
(* An answer to a count is a path and a number: of the path only its place *)
(* in the alphabet matters, and the number strtol finds behind its first   *)
(* blank, where the console looks for the count.  The answer to /wc is a   *)
(* text, since the console finds its numbers by counting digits.           *)
(* Which of a worker's own files it names is in Index.tla; an answer that  *)
(* is missing altogether is in JobExecutor.tla.                            *)
(***************************************************************************)
EXTENDS Integers, Sequences, FiniteSets, SequencesExt

CONSTANTS
  N,           \* numWorkers
  INT_MAX,     \* an int is in -INT_MAX-1 .. INT_MAX, an unsigned one below Width
  Paths,       \* pairs <<place in the alphabet, misread>>: see Misread
  Counts,      \* the numbers a count answer may have
  Totals       \* lines, words and bytes a worker may have counted, 64 bits in the code

Workers == 0 .. N-1
Fields  == 1 .. 3
Width   == 2 * (INT_MAX + 1)

\* <<>> for a path without a blank, or with nothing but blanks behind the first:
\* the console reads the count.  Otherwise what it reads instead: 0 of
\* "a b.txt", 2018 of "a 2018.txt".
Misread == {<<>>} \cup {<<n>> : n \in -INT_MAX-1 .. INT_MAX}

ASSUME NumbersAssumption == /\ N \in Nat \ {0} /\ INT_MAX \in Nat \ {0}
                            /\ Paths \subseteq Nat \X Misread
                            /\ Counts \subseteq 1 .. INT_MAX
                            /\ Totals \subseteq [Fields -> Nat]

VARIABLES
  kind,      \* the command being answered
  found,     \* count: what each worker found, <<>> or <<path, number>>
  total,     \* wc: the lines, words and bytes of each worker
  i,         \* the worker whose answer the console looks at next
  best, pos, \* max_answer or min_answer, and its worker
  sums,      \* total_lines, total_words, total_bytes
  pc         \* "read"ing answers, "shown", or "crashed": a worker or the console

vars == <<kind, found, total, i, best, pos, sums, pc>>

Answer == {<<>>} \cup (Paths \X Counts)

\* What max_answer and min_answer begin with.
Start == IF kind = "max" THEN -1 ELSE INT_MAX

Init ==
  /\ kind \in {"max", "min", "wc"}
  /\ found \in [Workers -> IF kind = "wc" THEN {<<>>} ELSE Answer]
  \* every file is with one worker
  /\ \A v, w \in Workers : v # w /\ found[v] # <<>> /\ found[w] # <<>> =>
                             found[v][1][1] # found[w][1][1]
  /\ total \in [Workers -> IF kind = "wc" THEN Totals ELSE {[f \in Fields |-> 0]}]
  /\ i = 0 /\ pos = -1
  /\ best = Start
  /\ sums = [f \in Fields |-> 0]
  /\ pc = "read"

-----------------------------------------------------------------------------
(* Numbers and their texts *)

AsUnsigned(n) == n % Width
AsInt(n) == IF n % Width <= INT_MAX THEN n % Width ELSE (n % Width) - Width

\* sprintf("%d") of a number that is not negative
Digits(n) ==
  LET D[m \in 0 .. n] == IF m < 10 THEN <<m>> ELSE Append(D[m \div 10], m % 10)
  IN D[n]

\* log10 of a number below 1 has no digits to count: the conversion of NaN or
\* of minus infinity gives the smallest int.
NoNumber == -INT_MAX - 1

\* The first powers of ten.
Tens(n) ==
  LET T[d \in 0 .. n] == IF d = 0 THEN 1 ELSE 10 * T[d-1]
  IN T

\* ceil(log10(m)), of m > 0
CeilLog10(m) ==
  CHOOSE d \in 0 .. m : Tens(m)[d] >= m /\ \A e \in 0 .. d-1 : Tens(m)[e] < m

\* Mutant: log10(i) instead of log10(i+1), also of 0.
NumDigitsPlain(n) ==
  IF n <= 0 THEN NoNumber
  ELSE CeilLog10(n)

\* (int)ceil(log10(i+1)); i+1 wraps at INT_MAX.
NumDigits(n) ==
  LET m == AsInt(n + 1)
  IN CASE n = 0 -> 1
       [] n # 0 /\ m <= 0 -> NoNumber
       [] n # 0 /\ m > 0  -> CeilLog10(m)

\* The number that has these digits.
Value(digits) ==
  LET V[k \in 0 .. Len(digits)] == IF k = 0 THEN 0 ELSE 10 * V[k-1] + digits[k]
  IN V[Len(digits)]

\* strtol of the text behind `offset`: leading blanks are skipped, then the
\* number goes up to the next one.
strtol(text, offset) ==
  LET rest   == SubSeq(text, offset + 1, Len(text))
      begins == {p \in DOMAIN rest : rest[p] # -1}
      number == IF begins = {} THEN <<>> ELSE SubSeq(rest, Min(begins), Len(rest))
      blanks == {p \in DOMAIN number : number[p] = -1}
  IN Value(IF blanks = {} THEN number ELSE SubSeq(number, 1, Min(blanks) - 1))

-----------------------------------------------------------------------------
(* The workers *)

\* SendCountAnswer: otherwise the size of the number comes out negative, which
\* malloc refuses.
Countable(answer) == NumDigits(answer[2]) > 0

Blank == <<-1>>

\* The parameters of SendWcAnswer are unsigned, what it prints and what NumDigits
\* takes are ints.
Sent(t, f) == AsInt(AsUnsigned(t[f]))

\* Otherwise the size of the text comes out negative, which malloc refuses, or the
\* console looks for the next number at a negative offset.
Writable(t) == \A f \in Fields : NumDigits(Sent(t, f)) > 0

WcText(t) == Digits(Sent(t, 1)) \o Blank \o Digits(Sent(t, 2)) \o Blank \o Digits(Sent(t, 3))

-----------------------------------------------------------------------------
(* The console *)

\* The number PrintMaxCount reads behind the first word of the answer.
NumberRead(answer) == IF answer[1][2] = <<>> THEN answer[2] ELSE answer[1][2][1]

\* mystrcmp: the paths differ, so they decide.
Before(v, w) == found[v][1][1] < found[w][1][1]

\* Mutant: equal counts are not told apart.
BetterStrict(n) == IF kind = "max" THEN n > best ELSE n < best

\* The answer of worker i replaces the best one so far.
Better(n) ==
  \/ kind = "max" /\ n > best
  \/ kind = "min" /\ n < best
  \/ n = best /\ pos # -1 /\ Before(i, pos)

\* No best answer yet and a number that equals the start: the answer is compared
\* with Answers[-1].
OutOfBounds(n) == n = best /\ pos = -1

\* An empty answer is passed over.
PrintCount ==
  /\ pc = "read" /\ kind \in {"max", "min"} /\ i < N
  /\ \/ /\ found[i] # <<>> /\ ~Countable(found[i])
        /\ pc' = "crashed" /\ UNCHANGED <<best, pos>>
     \/ /\ found[i] # <<>> /\ Countable(found[i])
        /\ (Better(NumberRead(found[i])) \/ OutOfBounds(NumberRead(found[i])))
        /\ best' = NumberRead(found[i]) /\ pos' = i /\ UNCHANGED pc
     \/ /\ found[i] # <<>> /\ Countable(found[i]) /\ OutOfBounds(NumberRead(found[i]))
        /\ pc' = "crashed" /\ UNCHANGED <<best, pos>>
     \/ /\ found[i] # <<>> => (Countable(found[i]) /\ ~Better(NumberRead(found[i])))
        /\ UNCHANGED <<best, pos, pc>>
  /\ i' = i + 1
  /\ UNCHANGED <<kind, found, total, sums>>

\* Mutant: the digits of the lines are skipped twice.
OffsetTwice(text, f) ==
  LET lines == NumDigits(strtol(text, 0))
  IN <<0, lines + 1, lines + 1 + lines + 1>>[f]

\* Where PrintWc looks for the lines, the words and the bytes.
Offset(text, f) ==
  LET lines == NumDigits(strtol(text, 0))
      words == NumDigits(strtol(text, lines + 1))
  IN <<0, lines + 1, lines + 1 + words + 1>>[f]

PrintWc ==
  /\ pc = "read" /\ kind = "wc" /\ i < N
  /\ IF Writable(total[i])
       THEN LET text == WcText(total[i])
            IN /\ sums' = [f \in Fields |-> AsUnsigned(sums[f] + strtol(text, Offset(text, f)))]
               /\ UNCHANGED pc
       ELSE pc' = "crashed" /\ UNCHANGED sums
  /\ i' = i + 1
  /\ UNCHANGED <<kind, found, total, best, pos>>

\* The best answer, or that there is none; the totals, as ints.
Show ==
  /\ pc = "read" /\ i = N
  /\ pc' = "shown"
  /\ UNCHANGED <<kind, found, total, i, best, pos, sums>>

Next == PrintCount \/ PrintWc \/ Show

Spec == Init /\ [][Next]_vars

-----------------------------------------------------------------------------
(* Properties *)

Answering  == {w \in Workers : found[w] # <<>>}
Misleading == {w \in Answering : found[w][1][2] # <<>>}

counts  == [w \in Answering |-> found[w][2]]
numbers == [w \in Answering |-> NumberRead(found[w])]

\* Those whose number beats what the loop begins with.
Noticed ==
  {w \in Answering : IF kind = "max" THEN numbers[w] > Start ELSE numbers[w] < Start}

\* By num, and by the paths where it is equal, w is before all others of S.
Wins(w, num, S) ==
  /\ w \in S
  /\ \A v \in S \ {w} : \/ kind = "max" /\ num[w] > num[v]
                        \/ kind = "min" /\ num[w] < num[v]
                        \/ num[w] = num[v] /\ Before(w, v)

\* README.md, /maxcount and /mincount: what is shown is the best answer of all the
\* workers, the first in the alphabet of several, in whatever order they are
\* looked at, as long as no path has text behind a blank.  Otherwise the same
\* holds of the numbers that are read there instead of the counts, the file of
\* year 2018 in "a 2018.txt" wins over every word count below, and an answer that
\* reads as the start value or beyond is shown only if no other is left.
BestShown ==
  pc = "shown" /\ kind # "wc" =>
    /\ Misleading = {} =>
         IF Answering = {} THEN pos = -1 ELSE Wins(pos, counts, Answering)
    /\ IF Noticed = {} THEN pos = -1 \/ (pos \in Answering /\ numbers[pos] = Start)
                       ELSE Wins(pos, numbers, Noticed)

\* What the workers before each one have counted together.
PartialSums(all, f) ==
  LET S[w \in 0 .. N] == IF w = 0 THEN 0 ELSE S[w-1] + all[w-1][f]
  IN S

SumOf(f) == PartialSums(total, f)[N]

\* The three totals of /wc are found at the right places of every answer, and
\* what is printed is their sum while it is an int.
TotalsRight ==
  pc = "shown" /\ kind = "wc" =>
    \A f \in Fields : SumOf(f) <= INT_MAX => AsInt(sums[f]) = SumOf(f)

\* A worker answers as long as what it has counted is below the largest int, and
\* then the console survives its answer, unless the path has the start value of
\* the loop behind its first blank.
OnlyLargeTotalsCrash ==
  pc = "crashed" =>
    \E w \in Workers :
      \/ \E f \in Fields : total[w][f] >= INT_MAX
      \/ w \in Answering /\ (found[w][2] >= INT_MAX \/ found[w][1][2] = <<Start>>)

=============================================================================
