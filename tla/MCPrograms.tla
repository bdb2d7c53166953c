----------------------------- MODULE MCPrograms -----------------------------
(* Instances of Programs for TLC: roots a and b are interchangeable locals,  *)
(* p and q parameters.                                                       *)
EXTENDS Programs, TLC

CONSTANTS a, b, p, q

NoParams  == <<>>
OneParam  == <<p>>
TwoParams == <<p, q>>

LocalSymmetry == Permutations({a, b})

Family(elements, roots, length) ==
    [elements |-> elements, roots |-> roots, length |-> length]

\* Scopes: moves, branches, loops and returns, with a parameter.
ScopeFamilies ==
    {Family({"let", "move", "assign", "use", "take", "if", "elseif", "else",
             "while", "break", "return"}, {a, b}, 8)}

\* Deferred calls, with the exits that run them and with the loops they are in.
DeferFamilies ==
    {Family({"let", "take", "defer", "defer_take", "on_error", "return", "try", "if"},
            {a, b}, 7),
     Family({"let", "assign", "take", "borrow", "defer", "defer_take", "while", "for",
             "break", "if"}, {a}, 8)}

ConditionFamilies == {Family({"let", "while"}, {a}, 4)}
BreakFamilies     == {Family({"let", "while", "break"}, {a}, 5)}
=============================================================================
