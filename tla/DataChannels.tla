---------------------------- MODULE DataChannels ----------------------------
(***************************************************************************)
(* ParseDataChannels (src/src/zakuro.cpp:53-206), and the operation of a   *)
(* scenario that sends a message (src/src/scenario_player.h:173-209): the  *)
(* channels that --sora-data-channels describes, and the sizes of what is  *)
(* sent on them.                                                           *)
(*                                                                         *)
(* Members of the description that are only passed on to Sora, and the     *)
(* time, the counter and the connection id in the header, are left out.    *)
(***************************************************************************)
EXTENDS BinaryPool

CONSTANTS
  MessageSizeMin,  \* MESSAGE_SIZE_MIN, the length of the header
  MessageSizeMax,  \* MESSAGE_SIZE_MAX
  GivenSizes,      \* that a description may give
  MaxChannels      \* bound: channels described

ASSUME MessageAssumption ==
  MessageSizeMin \in Nat /\ MessageSizeMax \in Nat /\ MessageSizeMin <= MessageSizeMax
ASSUME ChannelsAssumption == GivenSizes \subseteq Int /\ MaxChannels \in Nat

NotGiven == -1

\* form: "wrong" if a member is missing, is not of its type or not positive, and this is
\* tested for; "throws" if boost::json::value_to meets a member of another type, or a number
\* that is no int.
Description == [form : {"good", "wrong", "throws"}, sends : BOOLEAN,
                min : GivenSizes \union {NotGiven}, max : GivenSizes \union {NotGiven}]

VARIABLES
  described,  \* the descriptions
  parsed,     \* of them
  channels,   \* those that send
  parsing,    \* "parsing", "refused", "thrown" or "ready"
  sending     \* the channel on which a message is being sent, 0 for none

channelVars == <<described, parsed, channels, parsing, sending>>

dcVars == <<channelVars, poolVars>>

DcStart(ds) ==
  /\ described = ds
  /\ parsed = 0
  /\ channels = << >>
  /\ parsing = "parsing"
  /\ sending = 0
  /\ PoolInit

DcInit == \E n \in 0 .. MaxChannels : \E ds \in [1 .. n -> Description] : DcStart(ds)

-----------------------------------------------------------------------------
(* ParseDataChannels *)

InRange(s) == s = NotGiven \/ s \in MessageSizeMin .. MessageSizeMax

OrDefault(s) == IF s = NotGiven THEN MessageSizeMin ELSE s

Raised(min, max) == IF min > max THEN min ELSE max

Channel(d) == [min |-> OrDefault(d.min), max |-> Raised(OrDefault(d.min), OrDefault(d.max)),
               of |-> d]

\* return false
Refuses ==
  /\ parsing = "parsing" /\ parsed < Len(described)
  /\ LET d == described[parsed + 1]
     IN  d.form = "wrong" \/ ~InRange(d.min) \/ ~InRange(d.max)
  /\ parsing' = "refused"
  /\ UNCHANGED <<described, parsed, channels, sending, poolVars>>

\* value_to throws.  Of a description that would be refused as well, the member that is read
\* first decides.
Throws ==
  /\ parsing = "parsing" /\ parsed < Len(described)
  /\ described[parsed + 1].form = "throws"
  /\ parsing' = "thrown"
  /\ UNCHANGED <<described, parsed, channels, sending, poolVars>>

ParsesChannel ==
  /\ parsing = "parsing" /\ parsed < Len(described)
  /\ LET d == described[parsed + 1]
     IN  /\ d.form = "good" /\ InRange(d.min) /\ InRange(d.max)
         /\ channels' = IF d.sends THEN Append(channels, Channel(d)) ELSE channels
  /\ parsed' = parsed + 1
  /\ UNCHANGED <<described, parsing, sending, poolVars>>

HasParsed ==
  /\ parsing = "parsing" /\ parsed = Len(described)
  /\ parsing' = "ready"
  /\ UNCHANGED <<described, parsed, channels, sending, poolVars>>

-----------------------------------------------------------------------------
(* OP_SEND_DATA_CHANNEL_MESSAGE *)

\* The pool fills what the header leaves.
GetsPayload(c) ==
  /\ parsing = "ready" /\ sending = 0
  /\ sending' = c
  /\ Get(channels[c].min - MessageSizeMin, channels[c].max - MessageSizeMin)
  /\ UNCHANGED <<described, parsed, channels, parsing>>

CopiesPayload == Copies /\ UNCHANGED channelVars

\* The header is put in front, and the message is sent: what is sent is left out.
Sends ==
  /\ sending # 0 /\ Returns
  /\ sending' = 0
  /\ UNCHANGED <<described, parsed, channels, parsing>>

DcNext ==
  \/ Refuses \/ Throws \/ ParsesChannel \/ HasParsed
  \/ \E c \in DOMAIN channels : GetsPayload(c)
  \/ CopiesPayload \/ Sends

DcSpec == DcInit /\ [][DcNext]_dcVars

-----------------------------------------------------------------------------
(* Properties. *)

\* The bounds that a description means: what it gives, 48 for what it does not, and never
\* less for the one than for the other.
Least(d) == IF d.min = NotGiven THEN MessageSizeMin ELSE d.min
Most(d) == IF d.max \in Least(d) .. MessageSizeMax THEN d.max ELSE Least(d)

\* The channels are the descriptions in S, in their order.
InOrder(S) ==
  \E f \in [DOMAIN channels -> DOMAIN described] :
    /\ \A a, b \in DOMAIN channels : a < b => f[a] < f[b]
    /\ {f[a] : a \in DOMAIN channels} = S
    /\ \A a \in DOMAIN channels : channels[a].of = described[f[a]]

\* Every message on a channel is a header and a cut of the pool that goes round its end
\* without a gap, together within the sizes described for the channel, whatever else the
\* list describes; and the range of sizes given to the pool is never empty
\* (zakuro.cpp:121-157, scenario_player.h:174-176, binary_pool.h:24-42).
MessageIsCut ==
  /\ GetReturnsCut
  /\ \A c \in DOMAIN channels : channels[c].min <= channels[c].max
  /\ sending # 0 /\ size = 0 =>
       MessageSizeMin + Len(r) \in Least(channels[sending].of) .. Most(channels[sending].of)
  /\ parsing = "ready" =>
       /\ \A n \in 1 .. Len(described) : described[n].form = "good"
       /\ InOrder({n \in DOMAIN described : described[n].sends})
=============================================================================
