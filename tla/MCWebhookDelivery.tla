-------------------------- MODULE MCWebhookDelivery --------------------------
EXTENDS WebhookDelivery, TLC
CONSTANTS p1, p2, g1, q1, q2, i1, i2, i3, b1
MCHome == q1 :> p1 @@ q2 :> p2 @@ i1 :> p1 @@ i2 :> p1 @@ i3 :> p2 @@ b1 :> p2
MCMaxSends == g1 :> 3
=============================================================================
