---------------------------- MODULE MCMacAddress ----------------------------
(* MacAddress with the stores TLC looks at. *)
EXTENDS MacAddress, TLC

MCListed == <<"end0", "wlan0">>
MCSlot   == "end0" :> "lan" @@ "end1" :> "lan1"

Slots(ver, lan, lan1, wifi) ==
  [tag |-> TRUE, ver |-> ver, item |-> [lan |-> lan, lan1 |-> lan1, wifi |-> wifi]]
C(ver, lan, wifi) == Slots(ver, lan, IF lan = "absent" THEN "absent" ELSE "zero", wifi)
Untagged == [C(9, "former", "absent") EXCEPT !.tag = FALSE]

\* No store; one copy; the newest in front and behind; an untagged copy with a
\* higher version; the newest without an address, with an invented one and
\* with none but the radio's.
MCStores ==
  {<<>>,
   <<Slots(1, "label", "former", "absent")>>,
   <<C(2, "label", "absent"), C(1, "former", "absent"), Untagged>>,
   <<C(1, "former", "label"), C(3, "label", "absent"), C(2, "local", "former")>>,
   <<C(1, "former", "absent"), C(2, "absent", "absent")>>,
   <<C(1, "local", "zero"), C(2, "local", "absent")>>}

Bx(store, serial, chip, b0, b1) ==
  [store |-> store, serial |-> serial, chip |-> chip, boot |-> "end0" :> b0 @@ "end1" :> b1,
   named |-> {"end0", "end1"}]

\* Every store under a bootloader that invents both addresses; no address from
\* it; an assigned one; a radio with each source to fall back on, the last
\* beside a port under a name for which the script asks no item.
MCBoxes ==
  {Bx(s, TRUE, "seekwave", "boot", "boot") : s \in MCStores} \cup
  {Bx(<<C(1, "label", "absent")>>, TRUE, "aic", "none", "boot"),
   Bx(<<C(1, "absent", "label")>>, FALSE, "aic", "boot", "none"),
   Bx(<<>>, FALSE, "aic", "label", "label"),
   [Bx(<<C(1, "label", "absent")>>, TRUE, "aic with efuse", "boot", "label") EXCEPT !.named = {}]}
=============================================================================
