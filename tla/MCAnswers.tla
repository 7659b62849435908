----------------------------- MODULE MCAnswers -----------------------------
(* Instances of Answers for TLC. *)
EXTENDS Answers

\* Paths without a blank, and with some behind which there is no number, a large
\* one, and the one max_answer or min_answer begins with.
SixPaths ==
  {<<1, <<>> >>, <<2, <<0>> >>, <<3, <<>> >>, <<4, <<99>> >>, <<5, <<-1>> >>, <<6, <<127>> >>}

\* Both sides of each number of digits, the largest int of seven bits, and what
\* wraps to a small number; a file has no more lines than words and no more words
\* than bytes.
Boundaries == {0, 9, 10, 99, 100, 127, 200, 257}
SmallTotals == {t \in [Fields -> Boundaries] : t[1] <= t[2] /\ t[2] <= t[3]}

=============================================================================
