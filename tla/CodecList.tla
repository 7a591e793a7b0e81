----------------------------- MODULE CodecList ------------------------------
(***************************************************************************)
(* What a caller does with a codec string: takes the codecs of an offer or *)
(* reads a text, edits the entries, drops duplicates and what the switch   *)
(* has not loaded, and sends the text.  CodecString, CodecStringEntry and  *)
(* SdpCodecs have no locks and no tasks; what can go wrong is a sequence   *)
(* of legal calls.                                                         *)
(***************************************************************************)
EXTENDS SdpCodecs, CodecEdits

CONSTANTS Offers,   \* the sessions a caller can be offered
          Options,  \* the CodecStringOptions in use
          Texts     \* the codec strings that can be read

VARIABLE sdp   \* the offer being read, if any: its session and its codecs

vars == <<sdp, list, policy, vetted, edits>>

Init == sdp = Nothing /\ EditInit

(***************************************************************************)
(* Where a list comes from.                                                *)
(***************************************************************************)
TakeOffer ==
    /\ sdp = Nothing /\ list = <<>> /\ edits = 0
    /\ \E session \in Offers :
         sdp' = Some([session |-> session, codecs |-> FromSession(session)])
    /\ UNCHANGED <<list, policy, vetted, edits>>

\* audio_codec_string(), video_codec_string(); the caller is done with the offer.
FromOffer ==
    /\ sdp # Nothing
    /\ \E options \in Options, lenient \in BOOLEAN :
         \E built \in {AudioCodecString(sdp[1].codecs, options, lenient),
                       VideoCodecString(sdp[1].codecs, options, lenient)} :
           built.list # Nothing /\ Load(built.list[1])
    /\ sdp' = Nothing

ReadText ==
    /\ sdp = Nothing
    /\ \E text \in Texts, lenient \in BOOLEAN :
         \E read \in {ParseCodecString(text, lenient)} :
           read.list # Nothing /\ Load(read.list[1])
    /\ UNCHANGED sdp

EditList == sdp = Nothing /\ EditStep /\ UNCHANGED sdp

Next == TakeOffer \/ FromOffer \/ ReadText \/ EditList

Spec == Init /\ [][Next]_vars

(***************************************************************************)
(* Properties.                                                             *)
(***************************************************************************)
\* What the documentation of dedup() says: a bare name survives, to take the
\* deployment's own default at match time.
BareNameSurvives ==
    \A k \in DOMAIN list : ~Qualified(list[k]) =>
        \E entry \in {Dedup(list)[j] : j \in DOMAIN Dedup(list)} :
            EqIgnoreCase(entry.name, list[k].name) /\ ~Qualified(entry)

\* What the documentation of retain_available() says: the entries exposed to a
\* qualifier that matches no implementation of a loaded name are those of qualified().
OnlyQualifiedExposed ==
    \A k \in DOMAIN list, imps \in Tables :
        ~Qualified(list[k]) /\ list[k].modname = Nothing
            /\ (\E imp \in imps : EqIgnoreCase(list[k].name, imp.name))
          => Available(list[k], imps)

\* The payload types a section of an offer is read as, whatever as.
Payloads(section) ==
    [k \in DOMAIN section.entries |-> section.entries[k].payloadType] \o section.unmapped
      \o [k \in DOMAIN section.nonCodec |-> section.nonCodec[k].payloadType]

SameElements(s, t) ==
    \A x \in {s[k] : k \in DOMAIN s} \cup {t[k] : k \in DOMAIN t} :
        Len(SelectSeq(s, LAMBDA y : y = x)) = Len(SelectSeq(t, LAMBDA y : y = x))

\* A section on its own: every payload type it lists is an entry, unmapped or
\* set apart, unless the section is broken, which is warned about.
SectionAccounted(media, section, warnings) ==
    IF IsImage(media.media) THEN section.entries = <<[kind |-> "T38"]>>
    ELSE \/ ~ProtoHasRtp(media.proto) /\ Payloads(section) = <<>>
         \/ Contains(warnings, "malformed section") /\ Payloads(section) = <<>>
         \/ /\ \A k \in DOMAIN media.fmt : PayloadType(media.fmt[k]) # Nothing
            /\ SameElements(Payloads(section),
                            [k \in DOMAIN media.fmt |-> PayloadType(media.fmt[k])[1]])

\* A strict build gives what the lenient one does when that has nothing to warn
\* about, and every audio or T.38 entry of the lenient one is a name or a warning.
BuildAccounted(strict, lenient, count) ==
    /\ strict.list = IF lenient.warnings = <<>> THEN lenient.list ELSE Nothing
    /\ lenient.list # Nothing =>
         Len(lenient.list[1])
           + Len(SelectSeq(lenient.warnings, LAMBDA w : w = "name")) = count

\* Reading an offer (SdpCodecs::parse): a section is read as if it were alone,
\* a broken one included, and no payload type it lists goes unaccounted for,
\* into the codec string built from it included.
OfferAccounted ==
    \A offer \in {sdp[k] : k \in DOMAIN sdp} :
        /\ Len(offer.codecs.sections) = Len(offer.session.medias)
        /\ \A k \in DOMAIN offer.session.medias :
             \E alone \in {FromSession([offer.session EXCEPT !.medias = <<@[k]>>])} :
               /\ offer.codecs.sections[k] = alone.sections[1]
               /\ SectionAccounted(offer.session.medias[k], alone.sections[1], alone.warnings)
        /\ \A options \in Options :
             /\ BuildAccounted(AudioCodecString(offer.codecs, options, FALSE),
                               AudioCodecString(offer.codecs, options, TRUE),
                               Len(SelectSeq(Entries(offer.codecs), LAMBDA e :
                                               e.kind = "T38" \/ e.media = "audio")))
             /\ BuildAccounted(VideoCodecString(offer.codecs, options, FALSE),
                               VideoCodecString(offer.codecs, options, TRUE),
                               Len(SelectSeq(Entries(offer.codecs), LAMBDA e :
                                               e.kind # "T38" /\ e.media = "video")))
=============================================================================
