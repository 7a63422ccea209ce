------------------------- MODULE MCPayPalBilling -------------------------
(***************************************************************************)
(* PayPalBilling with packs of three credits for two dollars. The          *)
(* histories are chosen so that every kind of event meets every other, the *)
(* snapshots and stages of one item come in numbers, and a dispute is      *)
(* about two payments, once with the claim on one in another currency.     *)
(***************************************************************************)
EXTENDS PayPalBilling, TLC

CONSTANTS p1, p2

Pay(parts, snapshots, reversed) ==
    [parts |-> parts, snapshots |-> snapshots, reversed |-> reversed]
Disp(of, claims, times, decided) ==
    [of |-> of, claims |-> claims, times |-> times, foreign |-> {}, decided |-> decided]
NoDispute == Disp(<<>>, <<>>, <<>>, "no")
Kept      == Pay(<<>>, FALSE, FALSE)

Small ==
    {[payment |-> [p \in {p1} |-> h[1]], dispute |-> h[2]] : h \in {
        <<Pay(<<1, 1>>, TRUE,  FALSE), NoDispute>>,
        <<Pay(<<1, 1>>, FALSE, FALSE), NoDispute>>,
        <<Pay(<<1>>,    FALSE, TRUE),  NoDispute>>,
        <<Kept, Disp(<<p1>>, <<1, 2>>, <<0, 0>>, "no")>>,
        <<Kept, Disp(<<p1>>, <<2>>,    <<0, 0>>, "seller")>>,
        <<Pay(<<1>>, FALSE, FALSE), Disp(<<p1>>, <<1>>, <<0>>, "no")>>}}
Full == Small \cup
    {[payment |-> [p \in {p1} |-> Kept], dispute |-> Disp(<<p1>>, <<1, 2>>, <<0, 0, 0>>, "seller")],
     [payment |-> [p \in {p1, p2} |-> Kept], dispute |-> Disp(<<p1, p2>>, <<2>>, <<0>>, "no")],
     [payment |-> [p \in {p1} |-> Kept],
      dispute |-> [Disp(<<p1>>, <<2>>, <<0, 0>>, "buyer") EXCEPT !.foreign = {p1}]],
     [payment |-> [p \in {p1, p2} |-> Kept],
      dispute |-> [Disp(<<p1, p2>>, <<2>>, <<0>>, "no") EXCEPT !.foreign = {p2}]]}

Symmetry == Permutations(Slots)
=============================================================================
