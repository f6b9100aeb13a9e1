---------------------------- MODULE MCCommandLog ----------------------------
(* The instance of CommandLog for TLC: two epochs of one channel and another *)
(* channel that competes for its URI, a collision on an event and a receipt, *)
(* and two signatures of one receipt.                                        *)
EXTENDS CommandLog, TLC

CONSTANTS c1, c2, u1, u2, e1, e2, b1, b2, r1, r2, s1, s2, p, q

Clients == Permutations({p, q})

Keys == {<<c1, 1>>, <<c1, 2>>, <<c2, 1>>}

Create(key, uri) == [kind |-> "channel_created", key |-> key, uri |-> uri]
Adding(key, event, body, receipt) ==
    [kind |-> "record_appended", key |-> key, event |-> event, body |-> body,
     receipt |-> receipt]
Attach(key, receipt, body, signature) ==
    [kind |-> "signature_attached", key |-> key, receipt |-> receipt, body |-> body,
     signature |-> signature]

Operations ==
    {Create(<<c1, 1>>, u1), Create(<<c1, 1>>, u2), Create(<<c1, 2>>, u1),
     Create(<<c2, 1>>, u1),
     Adding(<<c1, 1>>, e1, b1, r1), Adding(<<c1, 1>>, e1, b2, r2),
     Adding(<<c1, 1>>, e2, b1, r1), Adding(<<c1, 2>>, e1, b1, r2),
     Attach(<<c1, 1>>, r1, b1, s1), Attach(<<c1, 1>>, r1, b1, s2),
     Attach(<<c1, 2>>, r1, b1, s1)}
=============================================================================
