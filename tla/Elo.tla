-------------------------------- MODULE Elo --------------------------------
(* What ladder_calc.c calls the probability that a player wins a ladder game *)
(* of two to eight: the closed formulas of the file, over the outcome of     *)
(* every pair of players.                                                    *)
(*                                                                           *)
(* probability(a,b) is the chance that a beats b. Every formula is a sum of  *)
(* products in which a pair of players occurs once at most, so two of them   *)
(* agree for all chances when they agree where each chance is 0 or 1: there  *)
(* a formula is an integer, a sum over the brackets that can be drawn, and   *)
(* the division counts the brackets.                                         *)
EXTENDS Integers, Sequences, FiniteSets, FiniteSetsExt

CONSTANTS
    Sizes,          \* the numbers of players looked at
    Outcomes(_)     \* the outcomes looked at, of a number of players

VARIABLES
    count,          \* how many play
    beats,          \* the pairs <<a, b>> where a beats b
    prob            \* info[curr].prob, of the players looked at so far

vars == <<count, beats, prob>>

Probability(a, b) == IF <<a, b>> \in beats THEN 1 ELSE 0

-----------------------------------------------------------------------------
(* The groups the formulas share. *)

Two(a, b) == Probability(a, b)

\* five_f2, and three_player: three times the chance of a against b and c
Three(a, b, c) ==
    2 * Two(a, b) * Two(a, c) + Two(b, c) * Two(a, b) + Two(c, b) * Two(a, c)

\* six_f3, and four_player: three times the chance of a against b, c and d
Four(a, b, c, d) ==
      Two(a, b) * Two(a, c) * (Two(c, d) + Two(b, d))
    + Two(a, c) * Two(a, d) * (Two(d, b) + Two(c, b))
    + Two(a, b) * Two(a, d) * (Two(d, c) + Two(b, c))

FiveF1(a, b, c, d, e) ==
    Two(a, b) * ( Two(a, c) * Three(c, d, e) + Two(a, d) * Three(d, e, c)
                + Two(a, e) * Three(e, c, d) + Two(b, c) * Three(a, d, e)
                + Two(b, d) * Three(a, c, e) + Two(b, e) * Three(a, c, d) )

Five(a, b, c, d, e) ==
    FiveF1(a, b, c, d, e) + FiveF1(a, c, d, e, b)
    + FiveF1(a, d, e, b, c) + FiveF1(a, e, b, c, d)

\* a is in the group of four
SixF1(a, b, c, d, e, f) ==
    Four(a, b, c, d) * (Two(e, f) * Two(a, e) + Two(f, e) * Two(a, f))

\* a is in the group of two
SixF2(a, b, c, d, e, f) ==
      Four(c, d, e, f) * Two(a, b) * Two(a, c)
    + Four(d, c, e, f) * Two(a, b) * Two(a, d)
    + Four(e, c, d, f) * Two(a, b) * Two(a, e)
    + Four(f, c, d, e) * Two(a, b) * Two(a, f)

Six(a, b, c, d, e, f) ==
      SixF1(a, b, c, d, e, f) + SixF1(a, b, c, e, d, f) + SixF1(a, b, e, d, c, f)
    + SixF1(a, e, c, d, b, f) + SixF1(a, b, c, f, d, e) + SixF1(a, b, f, d, c, e)
    + SixF1(a, f, c, d, b, e) + SixF1(a, e, f, b, c, d) + SixF1(a, e, f, c, b, d)
    + SixF1(a, e, f, d, b, c)
    + SixF2(a, b, c, d, e, f) + SixF2(a, c, b, d, e, f) + SixF2(a, d, b, c, e, f)
    + SixF2(a, e, b, c, d, f) + SixF2(a, f, b, c, d, e)

\* a beats b in the first round, and c joins their group of three or is beaten
\* by b, who is beaten by a
SevenF2(a, b, c, d, e, f, g) ==
    LET \* a meets x, who came out of the four: three ways, as the code writes them
        Out(x, y, z, w) == Two(a, x) * Four(x, y, z, w)
        \* a comes out of the four with y, z and w
        In(y, z, w) == Four(a, y, z, w)
        \* the same with the slip of line 405, where d's place in the third
        \* product is taken by a's own chance
        InE == Two(a, d) * Two(a, f) * (Two(f, g) + Two(d, g))
               + Two(a, f) * Two(a, g) * (Two(a, d) + Two(a, d))
               + Two(a, d) * Two(a, g) * (Two(g, f) + Two(d, f))
    IN  Two(a, b) *
        ( (Two(a, c) + Two(b, c)) * ( Out(d, e, f, g) + Out(e, d, f, g)
                                    + Out(f, e, d, g) + Out(g, e, f, d) )
        + Two(b, c) * ( (Two(b, d) + Two(c, d)) * In(e, f, g)
                      + (Two(b, e) + Two(c, e)) * InE
                      + (Two(b, f) + Two(c, f)) * In(e, d, g)
                      + (Two(b, g) + Two(c, g)) * In(e, f, d) ) )

SevenF1(a, b, c, d, e, f, g) ==
    SevenF2(a, b, c, d, e, f, g) + SevenF2(a, b, d, c, e, f, g)
    + SevenF2(a, b, e, d, c, f, g) + SevenF2(a, b, f, d, e, c, g)
    + SevenF2(a, b, g, d, e, f, c)

EightF3(a, b, c, d, e) ==
      (Two(b, c) * Two(d, e) + Two(b, e) * Two(d, c))
          * ((Two(a, b) - Two(a, d)) * Two(b, d) + Two(a, d))
    + (Two(b, d) * Two(c, e) + Two(b, e) * Two(c, d))
          * ((Two(a, b) - Two(a, c)) * Two(b, c) + Two(a, c))
    + (Two(c, b) * Two(d, e) + Two(d, b) * Two(c, e))
          * ((Two(a, c) - Two(a, d)) * Two(c, d) + Two(a, d))
    + (Two(c, d) * Two(e, b) + Two(c, b) * Two(e, d))
          * ((Two(a, c) - Two(a, e)) * Two(c, e) + Two(a, e))
    + (Two(d, c) * Two(e, b) + Two(d, b) * Two(e, c))
          * ((Two(a, d) - Two(a, e)) * Two(d, e) + Two(a, e))
    + (Two(b, d) * Two(e, c) + Two(b, c) * Two(e, d))
          * ((Two(a, e) - Two(a, b)) * Two(e, b) + Two(a, b))

\* b comes out of the other half, over one of five, and loses to a
EightF2(a, b, c, d, e, f, g) ==
    Two(a, b) * ( EightF3(a, d, e, f, g) * Two(b, c) + EightF3(a, c, e, f, g) * Two(b, d)
                + EightF3(a, c, d, f, g) * Two(b, e) + EightF3(a, c, d, e, g) * Two(b, f)
                + EightF3(a, c, d, e, f) * Two(b, g) )

EightF1(a, b, c, d, e, f, g) ==
    EightF2(a, b, c, d, e, f, g) + EightF2(a, c, b, d, e, f, g)
    + EightF2(a, d, b, c, e, f, g) + EightF2(a, e, b, c, d, f, g)
    + EightF2(a, f, b, c, d, e, g) + EightF2(a, g, b, c, d, e, f)

Eight(a, b, c, d, e, f, g, h) ==
      EightF1(a, c, d, e, f, g, h) * Two(a, b) + EightF1(a, b, d, e, f, g, h) * Two(a, c)
    + EightF1(a, b, c, e, f, g, h) * Two(a, d) + EightF1(a, b, c, d, f, g, h) * Two(a, e)
    + EightF1(a, b, c, d, e, g, h) * Two(a, f) + EightF1(a, b, c, d, e, f, h) * Two(a, g)
    + EightF1(a, b, c, d, e, f, g) * Two(a, h)

Seven(a, b, c, d, e, f, g) ==
    SevenF1(a, b, c, d, e, f, g) + SevenF1(a, c, b, d, e, f, g)
    + SevenF1(a, d, c, b, e, f, g) + SevenF1(a, e, c, d, b, f, g)
    + SevenF1(a, f, c, d, e, b, g) + SevenF1(a, g, c, d, e, f, b)

-----------------------------------------------------------------------------
\* What the code divides by.
Divisor == <<1, 1, 3, 3, 30, 45, 45, 315>>

\* The player looked at, in front of the others in their order.
Sorted(curr) == [i \in 1..count |-> IF i = 1 THEN curr ELSE IF i <= curr THEN i - 1 ELSE i]

Formula(s) ==
    CASE count = 2 -> Two(s[1], s[2])
      [] count = 3 -> Three(s[1], s[2], s[3])
      [] count = 4 -> Four(s[1], s[2], s[3], s[4])
      [] count = 5 -> Five(s[1], s[2], s[3], s[4], s[5])
      [] count = 6 -> Six(s[1], s[2], s[3], s[4], s[5], s[6])
      [] count = 7 -> Seven(s[1], s[2], s[3], s[4], s[5], s[6], s[7])
      [] count = 8 -> Eight(s[1], s[2], s[3], s[4], s[5], s[6], s[7], s[8])

Init ==
    /\ count \in Sizes
    /\ beats \in Outcomes(count)
    /\ prob = << >>

\* ladder_calc_info, one player at a time: the numerator of the chance.
CalcInfo ==
    /\ Len(prob) < count
    /\ prob' = Append(prob, Formula(Sorted(Len(prob) + 1)))
    /\ UNCHANGED <<count, beats>>

Next == CalcInfo

Spec == Init /\ [][Next]_vars

-----------------------------------------------------------------------------
(* The tournament the formulas stand for. The players are drawn into two     *)
(* groups, each group plays a tournament, and the two winners meet.          *)

\* The size of the first group.
Group == <<1, 1, 2, 2, 3, 4, 4, 4>>

\* The number of ways to draw the players.
Brackets == <<1, 1, 3, 3, 30, 45, 315, 315>>

RECURSIVE Wins(_, _)

\* In how many of the brackets of S its member a is the winner.
Wins(S, a) ==
    IF Cardinality(S) = 1 THEN 1
    ELSE LET n == Cardinality(S)
             mine == {T \in SUBSET S : a \in T /\ Cardinality(T) \in {Group[n], n - Group[n]}}
         IN  MapThenSumSet(
                 LAMBDA T : Wins(T, a) *
                     MapThenSumSet(LAMBDA b : Wins(S \ T, b) * Probability(a, b), S \ T),
                 mine)

\* Each chance the code computes, in its turn, is the player's share of the
\* brackets (ladder_calc.c:117-122, "as if they were in a tournament"), and when
\* all of them are known they add up to one.
ChanceOfTournament ==
    /\ prob # << >> =>
          prob[Len(prob)] * Brackets[count] = Wins(1..count, Len(prob)) * Divisor[count]
    /\ Len(prob) = count =>
          MapThenSumSet(LAMBDA i : prob[i], 1..count) = Divisor[count]

=============================================================================
