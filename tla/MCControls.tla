----------------------------- MODULE MCControls -----------------------------
(***************************************************************************)
(* Two twins at a time on a bus: pairs in which every twin occurs, those   *)
(* that talk to each other together, and the frames that concern them.     *)
(***************************************************************************)
EXTENDS Controls

Twelve == {"IKE", "BMBT", "TEL", "GT", "RAD", "NAV", "LCM", "PDC", "MID",
           "EWS", "RLS", "GM", "MFL", "CDC"}

\* A second object for the general module, with the same address.
AllDevices == Twelve \cup {"GM again"}
AddressOf  == [d \in AllDevices |-> IF d = "GM again" THEN "GM" ELSE d]

Pairs == { <<"IKE", "LCM">>, <<"NAV", "IKE">>, <<"GT", "BMBT">>,
           <<"TEL", "MFL">>, <<"RAD", "MID">>, <<"EWS", "PDC">>,
           <<"RLS", "GM">>, <<"CDC">> }

\* A second GM beside the first is refused, beside the CD changer it is not.
OnBus == UNION {{Range(p), Range(p) \cup {"GM again"}} : p \in Pairs}

Late == [on \in OnBus |-> IF on \cap {"CDC", "GM"} = {} THEN {} ELSE {"GM again"}]

Fragile == [on \in OnBus |-> on \cap {"EWS", "GM"}]

Groups == {"GLO", "LOC", "ANZV"}

SomeValues == {"OFF", "IKI"}
WrittenValues == {"OFF"}

Broken == {"ignition", "led", "midButton", "navDial"}

Said(src, dst, cmd, v, good) ==
  [src |-> src, dst |-> dst, cmd |-> cmd, val |-> v, ok |-> good]

\* The devices' own commands to everybody, some of them malformed, and
\* commands to each of them from the other one, or from a module without a
\* twin.  The cluster's own are left to the pair it is in with the LCM.
Near(devices) ==
  LET at == {AddressOf[d] : d \in devices}
      speakers == IF "NAV" \in at THEN {"NAV"} ELSE at IN
    UNION {{Said(a, "GLO", c, "IKI", TRUE) : c \in Outbound(a)} : a \in speakers}
    \cup UNION {{Said(b, a, c, "IKI", TRUE) :
                   b \in IF at = {a} THEN {"DIA"} ELSE at \ {a}, c \in Inbound(a)} :
                   a \in speakers}
    \cup {Said("IKE", "IKE", "ccmText", "IKI", TRUE)}
    \cup {Said(a, "GLO", c, "IKI", FALSE) :
            <<a, c>> \in {p \in at \X Broken : p[2] \in Outbound(p[1])}}
    \cup {Said("NAV", "IKE", "gpsTime", v, v = "IKI") : v \in SomeValues}
    \cup {Said("IKE", "GLO", c, "OFF", TRUE) :
            c \in {"ignition", "sensors"} \cap UNION {Outbound(a) : a \in at}}

NearOf == [on \in OnBus |-> Near(on)]

AllFrames == [src : STRING, dst : STRING, cmd : STRING, val : SomeValues,
              ok : BOOLEAN]

=============================================================================
