----------------------------- MODULE CodecEntry -----------------------------
(***************************************************************************)
(* The entries of a codec string, their setters, the operations of a list  *)
(* of them (freeswitch-types/src/sdp/codec_string/) and their match with   *)
(* the implementations a switch has loaded (sdp/available.rs).             *)
(*                                                                         *)
(* A name, a module and a run of digits are one symbol each.  An optional  *)
(* value is a sequence of at most one element: <<>> is None and the Err of *)
(* a call that returns a Result, <<v>> is Some(v) and Ok(v).               *)
(***************************************************************************)
EXTENDS Symbols, Sublists

CONSTANTS MaxSwitchEntries,   \* CodecString::MAX_SWITCH_ENTRIES
          Numbers             \* the values a run of digits can have here, all of them u32

ASSUME CapAssumption == MaxSwitchEntries \in Nat

Comma == ","

Nothing == <<>>
Some(v) == <<v>>
UnwrapOr(option, default) == IF option = Nothing THEN default ELSE option[1]

(***************************************************************************)
(* Names, compared without case: <<lower case, the switch's spelling>>.    *)
(***************************************************************************)
CanonicalNames ==
    { <<"pcmu", "PCMU">>, <<"pcma", "PCMA">>, <<"g722", "G722">>, <<"gsm", "GSM">>,
      <<"lpc", "LPC">>, <<"dvi4", "DVI4">>, <<"g723", "G723">>, <<"g729", "G729">>,
      <<"opus", "opus">>, <<"ilbc", "iLBC">>, <<"amr", "AMR">>, <<"amr-wb", "AMR-WB">>,
      <<"silk", "SILK">>, <<"bv16", "BV16">>, <<"bv32", "BV32">>, <<"g7221", "G7221">>,
      <<"g726-16", "G726-16">>, <<"g726-24", "G726-24">>, <<"g726-32", "G726-32">>,
      <<"g726-40", "G726-40">>, <<"aal2-g726-16", "AAL2-G726-16">>,
      <<"aal2-g726-24", "AAL2-G726-24">>, <<"aal2-g726-32", "AAL2-G726-32">>,
      <<"aal2-g726-40", "AAL2-G726-40">>, <<"codec2", "CODEC2">>, <<"l16", "L16">>,
      <<"speex", "SPEEX">>, <<"vp8", "VP8">>, <<"vp9", "VP9">>, <<"h264", "H264">>,
      <<"h263", "H263">>, <<"h263-1998", "H263-1998">>, <<"b64", "b64">>,
      <<"i420", "I420">> }

\* Every other word that is written in two cases here.
OtherSpellings ==
    { <<"opus", "OPUS">>, <<"cn", "CN">>, <<"image", "IMAGE">>, <<"rtp/avp", "RTP/AVP">>,
      <<"a", "A">>, <<"sendonly", "SendOnly">> }

Lower(symbol) ==
    With({row \in CanonicalNames \cup OtherSpellings : row[2] = symbol}, LAMBDA rows :
         IF rows = {} THEN symbol ELSE (CHOOSE row \in rows : TRUE)[1])

LowerText(text) == Listed(LAMBDA i : Lower(text[i]), Len(text))

EqIgnoreCase(text, other) == LowerText(text) = LowerText(other)

CanonicalIananame(name) ==
    With({row \in CanonicalNames : <<row[1]>> = LowerText(name)}, LAMBDA rows :
         IF rows = {} THEN name ELSE <<(CHOOSE row \in rows : TRUE)[2]>>)

\* A name is one symbol: these are the ones with the prefixes h26 and vp.
DefaultRate(name) ==
    CASE LowerText(name) = <<"opus">> -> 48000
      [] LowerText(name) \in {<<"h261">>, <<"h263">>, <<"h264">>, <<"h263-1998">>} -> 90000
      [] LowerText(name) \in {<<"vp8">>, <<"vp9">>} -> 90000
      [] OTHER -> 8000

DefaultPtime(name) ==
    IF LowerText(name) \in {<<"ilbc">>, <<"isac">>, <<"g723">>} THEN 30 ELSE 20

(***************************************************************************)
(* One entry: its builders and setters.                                    *)
(***************************************************************************)
NewlineFree(text) == \A i \in DOMAIN text : text[i] \notin {"\n", "\r"}

CheckNameGrammar(text) ==
    \A i \in DOMAIN text :
        text[i] \notin {Comma, "@", "~", ".", Quote, BS, Space, "\t", "\n", "\f", "\r"}

ValidateName(name) == name # <<>> /\ NewlineFree(name) /\ CheckNameGrammar(name)

NewEntry(name) ==
    IF ~ValidateName(name) THEN Nothing
    ELSE Some([modname |-> Nothing, name |-> name, fmtp |-> Nothing, rate |-> Nothing,
               ptime |-> Nothing, bitrate |-> Nothing, channels |-> Nothing])

SetName(entry, name) ==
    IF ValidateName(name) THEN Some([entry EXCEPT !.name = name]) ELSE Nothing

SetModule(entry, modname) ==
    IF NewlineFree(modname) /\ CheckNameGrammar(modname)
      THEN Some([entry EXCEPT !.modname = Some(modname)]) ELSE Nothing

NormalizeFmtpTrailingSpace(fmtp) ==
    With({i \in DOMAIN fmtp : fmtp[i] # Space}, LAMBDA kept :
         SubSeq(fmtp, 1, IF kept = {} THEN 0 ELSE CHOOSE i \in kept : \A j \in kept : j <= i))

SetFmtp(entry, fmtp) ==
    With(NormalizeFmtpTrailingSpace(fmtp), LAMBDA kept :
         IF /\ NewlineFree(kept)
            /\ ~Contains(kept, "@")
            /\ Contains(kept, ".") => entry.modname # Nothing
           THEN Some([entry EXCEPT !.fmtp = Some(kept)]) ELSE Nothing)

ClearFmtp(entry) == [entry EXCEPT !.fmtp = Nothing]

\* Faulty variant: the prefix goes whatever the format parameters hold.
ClearModuleAnyway(entry) == Some([entry EXCEPT !.modname = Nothing])

ClearModule(entry) ==
    IF Contains(UnwrapOr(entry.fmtp, <<>>), ".") THEN Nothing
    ELSE Some([entry EXCEPT !.modname = Nothing])

\* Faulty variant: zero channels taken for the default, as the key of dedup() does.
SimplifyZeroChannels(entry) ==
    IF LowerText(entry.name) = <<"g722">> THEN entry
    ELSE [entry EXCEPT !.rate = IF @ = Some(DefaultRate(entry.name)) THEN Nothing ELSE @,
                       !.ptime = IF @ = Some(DefaultPtime(entry.name)) THEN Nothing ELSE @,
                       !.channels = IF @ \in {Some(0), Some(1)} THEN Nothing ELSE @]

Simplify(entry) ==
    IF LowerText(entry.name) = <<"g722">> THEN entry
    ELSE [entry EXCEPT !.rate = IF @ = Some(DefaultRate(entry.name)) THEN Nothing ELSE @,
                       !.ptime = IF @ = Some(DefaultPtime(entry.name)) THEN Nothing ELSE @,
                       !.channels = IF @ = Some(1) THEN Nothing ELSE @]

(***************************************************************************)
(* The list.                                                               *)
(***************************************************************************)
Push(list, entry) ==
    IF Len(list) >= MaxSwitchEntries THEN Nothing ELSE Some(Append(list, entry))

InsertAt(list, index, entry) ==
    SubSeq(list, 1, index) \o <<entry>> \o SubSeq(list, index + 1, Len(list))

\* An entry of qualified(): one that carries a qualifier or format parameters.
Qualified(entry) ==
    \E field \in {"rate", "ptime", "bitrate", "channels", "fmtp"} : entry[field] # Nothing

NormPtime(entry) ==
    IF entry.ptime \in {Nothing, Some(0)} THEN DefaultPtime(entry.name) ELSE entry.ptime[1]

NormRate(entry) ==
    IF entry.rate \in {Nothing, Some(0)} THEN DefaultRate(entry.name) ELSE entry.rate[1]

NormChannels(entry) ==
    IF entry.channels \in {Nothing, Some(0)} THEN 1 ELSE entry.channels[1]

DedupKey(entry) ==
    <<LowerText(entry.name), NormPtime(entry), NormRate(entry), NormChannels(entry),
      LowerText(UnwrapOr(entry.fmtp, <<>>))>>

\* Earlier originals, dropped ones included, are compared.
Dedup(list) ==
    Chosen(list, {x \in DOMAIN list :
                    \A y \in 1..(x - 1) : DedupKey(list[y]) # DedupKey(list[x])})

(***************************************************************************)
(* The implementations a switch has loaded: records of a name and of       *)
(* optional modname, media, rate, ptime, bitrate and channels.             *)
(***************************************************************************)
Nonzero(value) == IF value = Some(0) THEN Nothing ELSE value

\* Both sides say something, and not the same.
Disagree(wanted, loaded) == wanted # Nothing /\ loaded # Nothing /\ wanted # loaded

MatchesImplementation(entry, imp) ==
    /\ EqIgnoreCase(entry.name, imp.name)
    /\ entry.modname # Nothing /\ imp.modname # Nothing =>
         EqIgnoreCase(entry.modname[1], imp.modname[1])
    /\ imp.media = Some("video") \/
         /\ LowerText(entry.name) = <<"g722">> \/ ~Disagree(Nonzero(entry.rate), imp.rate)
         /\ ~Disagree(Nonzero(entry.ptime), imp.ptime)
         /\ ~Disagree(Nonzero(entry.bitrate), imp.bitrate)
         /\ ~Disagree(Nonzero(Some(UnwrapOr(entry.channels, 1))), imp.channels)

Available(entry, imps) == \E imp \in imps : MatchesImplementation(entry, imp)

RetainAvailable(list, imps) == Chosen(list, {k \in DOMAIN list : Available(list[k], imps)})
=============================================================================
