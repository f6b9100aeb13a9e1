--------------------------- MODULE TranscriptStore ---------------------------
(***************************************************************************)
(* What a relay store promises, as the in-memory adapter implements it     *)
(* (internal/relay/memory/store.go): every operation is one critical       *)
(* section of a mutex over three maps. Transcripts of one tenant only; the *)
(* bytes of a record are its body, and the unsigned receipt is determined  *)
(* by the receipt identifier and the body.                                 *)
(***************************************************************************)
EXTENDS Naturals, Sequences

CONSTANTS Key,        \* transcripts: <<channel identifier, epoch>>
          Uri, Event, Body, Receipt, Signature

VARIABLES transcripts,  \* created key -> [uri, records]
          channelURIs,  \* channel identifier -> uri
          events        \* <<channel identifier, event>> -> record

vars == <<transcripts, channelURIs, events>>

ChannelId(key) == key[1]

\* An unsigned record has an empty set of signatures.
Record == [key : Key, seq : Nat \ {0}, event : Event, body : Body,
           receipt : Receipt, signature : {{}} \cup {{s} : s \in Signature}]

NewRecord(key, event, body, receipt, seq) ==
    [key |-> key, seq |-> seq, event |-> event, body |-> body,
     receipt |-> receipt, signature |-> {}]

Put(f, x, v) == [y \in DOMAIN f \cup {x} |-> IF y = x THEN v ELSE f[y]]

Init ==
    /\ transcripts = << >>
    /\ channelURIs = << >>
    /\ events = << >>

CreateChannel(key, uri) ==
    /\ ChannelId(key) \in DOMAIN channelURIs => channelURIs[ChannelId(key)] = uri
    /\ key \notin DOMAIN transcripts
    /\ channelURIs' = Put(channelURIs, ChannelId(key), uri)
    /\ transcripts' = Put(transcripts, key, [uri |-> uri, records |-> << >>])
    /\ UNCHANGED events

AppendChecked(key, event, body, receipt) ==
    /\ key \in DOMAIN transcripts
    /\ <<ChannelId(key), event>> \notin DOMAIN events
    /\ LET record == NewRecord(key, event, body, receipt,
                               Len(transcripts[key].records) + 1)
       IN /\ transcripts' = [transcripts EXCEPT ![key].records = Append(@, record)]
          /\ events' = Put(events, <<ChannelId(key), event>>, record)
    /\ UNCHANGED channelURIs

\* The first record of the transcript with the receipt is the one signed.
AttachSignature(key, receipt, body, signature) ==
    /\ key \in DOMAIN transcripts
    /\ \E i \in DOMAIN transcripts[key].records :
        LET record == transcripts[key].records[i]
            signed == [record EXCEPT !.signature = {signature}]
        IN /\ record.receipt = receipt
           /\ \A j \in 1..i-1 : transcripts[key].records[j].receipt # receipt
           /\ record.body = body
           /\ record.signature = {}
           /\ transcripts' = [transcripts EXCEPT ![key].records[i] = signed]
           /\ events' = [events EXCEPT ![<<ChannelId(key), record.event>>] = signed]
    /\ UNCHANGED channelURIs

Next ==
    \/ \E key \in Key, uri \in Uri : CreateChannel(key, uri)
    \/ \E key \in Key, event \in Event, body \in Body, receipt \in Receipt :
           AppendChecked(key, event, body, receipt)
    \/ \E key \in Key, receipt \in Receipt, body \in Body, signature \in Signature :
           AttachSignature(key, receipt, body, signature)

Spec == Init /\ [][Next]_vars
=============================================================================
