----------------------------- MODULE CodecEdits -----------------------------
(***************************************************************************)
(* The edits of a codec string: whatever a caller does to the list and to  *)
(* its entries once it has them.  Where the list comes from is left open   *)
(* here (Load) and is in CodecList.  Nothing here has locks or tasks; what *)
(* can go wrong is a sequence of legal calls.                              *)
(***************************************************************************)
EXTENDS CodecString

CONSTANTS Policies,         \* the lists a deployment adds to its own
          NewEntries,       \* the entries a caller pushes or inserts
          NewNames, NewModules, NewFmtps,  \* what an entry can be given
          Qualifiers,       \* <<field, value>>: the numeric qualifiers set
          Tables,           \* sets of loaded implementations
          MaxEdits,         \* bound on the edits of one list
          MaxEntries        \* bound on the entries of a list

VARIABLES list,     \* the entries of the CodecString
          policy,   \* another CodecString, the source of the bulk operations
          vetted,   \* the table and the names of the last retain_available(), if it still counts
          edits     \* how many edits the list has had

editVars == <<list, policy, vetted, edits>>

Fields == {"rate", "ptime", "bitrate", "channels"}

\* A text of a caller.  A NUL, which no setter refuses, would end the text for
\* the switch and for the split of a codec string: there is none here.
Text == {text \in Seq(STRING) : ~Contains(text, NUL)}
Option(S) == {option \in Seq(S) : Len(option) <= 1}

\* What the private fields of an entry hold, whichever setters filled them.
WellFormed(entry) ==
    /\ ValidateName(entry.name)
    /\ entry.modname # Nothing => CheckNameGrammar(entry.modname[1])
    /\ entry.fmtp # Nothing =>
         /\ NewlineFree(entry.fmtp[1]) /\ ~Contains(entry.fmtp[1], "@")
         /\ NormalizeFmtpTrailingSpace(entry.fmtp[1]) = entry.fmtp[1]
         /\ Contains(entry.fmtp[1], ".") => entry.modname # Nothing

Entry ==
    {entry \in [modname : Option(Text), name : Text, fmtp : Option(Text),
                rate : Option(Numbers), ptime : Option(Numbers), bitrate : Option(Numbers),
                channels : Option(Numbers)] : WellFormed(entry)}

ASSUME EntriesAssumption ==
    /\ Policies \subseteq Seq(Entry) /\ NewEntries \subseteq Entry
    /\ NewNames \subseteq Text /\ NewModules \subseteq Text /\ NewFmtps \subseteq Text
    /\ Qualifiers \subseteq Fields \X Numbers

EditInit ==
    /\ list = <<>>
    /\ policy \in Policies
    /\ vetted = Nothing
    /\ edits = 0

\* A list that is parsed or built replaces the one CodecString::new() gave.
Load(after) ==
    /\ list = <<>> /\ edits = 0
    /\ list' = after
    /\ vetted' = Nothing
    /\ edits' = 1
    /\ UNCHANGED policy

(***************************************************************************)
(* Edits of the list.  Any of them may bring an entry nobody matched.      *)
(***************************************************************************)
Edit(after) ==
    /\ edits < MaxEdits
    /\ Len(after) <= MaxEntries
    /\ list' = after
    /\ vetted' = Nothing
    /\ edits' = edits + 1

PushEntry ==
    /\ \E entry \in NewEntries :
         \E pushed \in {Push(list, entry)} : pushed # Nothing /\ Edit(pushed[1])
    /\ UNCHANGED policy

InsertEntry ==
    /\ \E entry \in NewEntries, index \in 0..Len(list) : Edit(InsertAt(list, index, entry))
    /\ UNCHANGED policy

RemoveEntry ==
    /\ \E index \in DOMAIN list : Edit(Chosen(list, DOMAIN list \ {index}))
    /\ UNCHANGED policy

ClearList == list # <<>> /\ Edit(<<>>) /\ UNCHANGED policy

Retain ==
    /\ \E kept \in SUBSET DOMAIN list : Edit(Chosen(list, kept))
    /\ UNCHANGED policy

ExtendFrom == Edit(list \o policy) /\ UNCHANGED policy

AppendList == Edit(list \o policy) /\ policy' = <<>>

(***************************************************************************)
(* Edits of one entry, through iter_mut().  A setter that fails leaves it  *)
(* as it was.                                                              *)
(***************************************************************************)
Becomes(k, result) ==
    /\ result # Nothing
    /\ Edit([list EXCEPT ![k] = result[1]])
    /\ UNCHANGED policy

SetEntryName ==
    \E k \in DOMAIN list, name \in NewNames : Becomes(k, SetName(list[k], name))

SetEntryModule ==
    \E k \in DOMAIN list, modname \in NewModules : Becomes(k, SetModule(list[k], modname))

SetEntryFmtp ==
    \E k \in DOMAIN list, fmtp \in NewFmtps : Becomes(k, SetFmtp(list[k], fmtp))

SetQualifier ==
    \E k \in DOMAIN list, q \in Qualifiers :
        Becomes(k, Some([list[k] EXCEPT ![q[1]] = Some(q[2])]))

\* An absent channel count asks for one channel, unlike the other qualifiers.
ClearChannels ==
    \E k \in DOMAIN list : Becomes(k, Some([list[k] EXCEPT !.channels = Nothing]))

(***************************************************************************)
(* Steps that only take away.  What matched an implementation still does.  *)
(***************************************************************************)
Narrow(after) ==
    /\ list' = after
    /\ UNCHANGED <<policy, vetted, edits>>

DedupList == Narrow(Dedup(list))

SimplifyEntry == \E k \in DOMAIN list : Narrow([list EXCEPT ![k] = Simplify(list[k])])

ClearQualifier ==
    \E k \in DOMAIN list, field \in Fields \ {"channels"} :
        Narrow([list EXCEPT ![k][field] = Nothing])

ClearEntryFmtp == \E k \in DOMAIN list : Narrow([list EXCEPT ![k] = ClearFmtp(list[k])])

ClearEntryModule ==
    \E k \in DOMAIN list :
        \E cleared \in {ClearModule(list[k])} :
            cleared # Nothing /\ Narrow([list EXCEPT ![k] = cleared[1]])

Names(entries) == {LowerText(entries[k].name) : k \in DOMAIN entries}

RetainAvailableEntries ==
    /\ \E imps \in Tables :
         \E kept \in {RetainAvailable(list, imps)} :
           /\ list' = kept
           /\ vetted' = Some([imps |-> imps, names |-> Names(kept)])
    /\ UNCHANGED <<policy, edits>>

EditStep ==
    \/ PushEntry \/ InsertEntry \/ RemoveEntry \/ ClearList \/ Retain \/ ExtendFrom \/ AppendList
    \/ SetEntryName \/ SetEntryModule \/ SetEntryFmtp \/ SetQualifier \/ ClearChannels
    \/ DedupList \/ SimplifyEntry \/ ClearQualifier \/ ClearEntryFmtp \/ ClearEntryModule
    \/ RetainAvailableEntries

\* The edits of a list that comes from anywhere.
EditNext == EditStep \/ \E after \in Seq(Entry) : Load(after)

EditSpec == EditInit /\ [][EditNext]_editVars

\* After retain_available(), any mix of dedup(), simplify() and clearing of
\* rate, ptime, bitrate, fmtp and module leaves every entry matched by an
\* implementation of that table, and loses no name.
VettedStays ==
    vetted # Nothing =>
        /\ \A k \in DOMAIN list : Available(list[k], vetted[1].imps)
        /\ Names(list) = vetted[1].names

\* Whatever sequence of setters and list operations made it, a list the switch
\* has room for is read back from its own text exactly as it is, strictly and
\* leniently, and so is each of its entries (Display and FromStr).  The bulk
\* operations do not check the cap, and a list past it is refused strictly and
\* warned about leniently.
ListArrives ==
    list \in Seq(Entry) /\
    With(ParseCodecString(CodecText(list), FALSE), LAMBDA strict :
    With(ParseCodecString(CodecText(list), TRUE), LAMBDA lenient :
         /\ lenient.list = Some(list)
         /\ strict.list = IF Len(list) <= MaxSwitchEntries THEN Some(list) ELSE Nothing
         /\ (lenient.warnings = 0) = (strict.list # Nothing)
         /\ \A k \in DOMAIN list : ParseOneEntry(EntryText(list[k])) = Some(list[k])))
=============================================================================
