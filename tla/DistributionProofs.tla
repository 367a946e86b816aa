-------------------------- MODULE DistributionProofs --------------------------
(***************************************************************************)
(* Proofs about Distribution.  TInv says how far each reader has come and  *)
(* of which type its variables are; PortableInv follows the loop over the  *)
(* members of either archive; WheelInv collects what the passes over a     *)
(* wheel have established; BuiltInv is about the directory and the         *)
(* manifest; SdistInv follows the raw scan of an sdist header by header,   *)
(* against the definition of the archives it is to accept; ReadInv follows *)
(* the passes over a wheel, against a condition on the file alone; and     *)
(* UploadInv is about a directory that was only uploaded from.             *)
(***************************************************************************)
EXTENDS Distribution, FiniteSetTheorems, WellFoundedInduction, TLAPS

\* A member as _validate_archive_members sees it, and one of the raw tar scan.
Member == [name : Names, size : Nat, csize : Int, file : BOOLEAN, dir : BOOLEAN]
RawMember == [name : Names, header : Headers, announced : BOOLEAN]

WheelRuns == {"search", "central", "locals", "members", "contents"}
SdistRuns == {"open", "scan", "bind", "members"}

TInv ==
    /\ TypeOK
    /\ IsWheel(wheel) /\ IsSdist(sdist)
    /\ candidate \in 0 .. Len(wheel.ends)
    /\ wpc \in {"central", "locals", "members", "contents", "accepted"} => candidate # 0
    /\ raw \in Seq(RawMember) /\ pending \in Names
    /\ wpc \in WheelRuns => pc = "wheel"
    /\ spc \in SdistRuns => pc = "sdist"
    /\ pc = "sdist" => wpc = "accepted"
    /\ pc \in {"wheel", "sdist", "digest"} => Listed

-----------------------------------------------------------------------------
(* Lemmas about the operators of the modules.                              *)

\* The key of a name is a key.
LEMMA KeyType ==
    ASSUME NEW name \in Names
    PROVE  Key(name) \in Keys
BY MembersAssumption DEF Key, Names, Keys

\* The payload of a member takes no negative number of blocks.
LEMMA PaddedType ==
    ASSUME NEW size \in Nat
    PROVE  Padded(size) \in Nat
BY SdistAssumption DEF Padded

LEMMA AfterType ==
    ASSUME NEW o \in Nat \ {0}, NEW header \in Headers
    PROVE  After(o, header) \in Nat \ {0}
<1>1. Padded(header.size) \in Nat
  BY PaddedType DEF Headers
<1> QED BY <1>1 DEF After

\* The end record of the raw scan and zipfile's are end records of the file.
LEMMA EndsType ==
    ASSUME IsWheel(wheel), candidate \in 0 .. Len(wheel.ends), candidate # 0
    PROVE  /\ End \in EndRecords /\ Dir \in Seq(Entries) /\ DirAt \in Nat
           /\ ZipEnd \in EndRecords /\ Infos \in Seq(Entries) /\ Shift \in Int
           /\ WheelList \in Seq(Member) /\ Len(WheelList) = Len(Infos)
<1>1. wheel.ends \in Seq(EndRecords)
  BY DEF IsWheel
<1>2. End \in EndRecords
  BY <1>1 DEF End
<1>3. Last \in EndRecords
  BY <1>1 DEF Last
<1>4. ZipEnd \in EndRecords
  <2> DEFINE exact == {i \in DOMAIN wheel.ends :
                        wheel.ends[i].at + EndSize = wheel.size /\ wheel.ends[i].comment = 0}
  <2>1. CASE exact = {}
    BY <2>1, <1>3 DEF ZipEnd
  <2>2. CASE exact # {}
    <3>1. (CHOOSE i \in exact : TRUE) \in DOMAIN wheel.ends
      BY <2>2
    <3> QED BY <3>1, <2>2, <1>1 DEF ZipEnd
  <2> QED BY <2>1, <2>2
<1>5. Dir \in Seq(Entries) /\ DirAt \in Nat /\ Infos \in Seq(Entries) /\ Shift \in Int
  BY <1>2, <1>4 DEF EndRecords, Dir, DirAt, Infos, Shift
<1>6. \A e \in Entries : WheelInfo(e) \in Member
  BY DEF Entries, WheelInfo, Member
<1>7. WheelList \in Seq(Member) /\ Len(WheelList) = Len(Infos)
  <2>1. \A i \in 1 .. Len(Infos) : WheelInfo(Infos[i]) \in Member
    BY <1>5, <1>6
  <2> QED BY <1>5, <2>1 DEF WheelList
<1> QED BY <1>2, <1>4, <1>5, <1>7

\* tarfile's list has a member for each of the raw scan.
LEMMA SdistListType ==
    ASSUME raw \in Seq(RawMember)
    PROVE  SdistList \in Seq(Member) /\ Len(SdistList) = Len(raw)
<1>1. \A m \in RawMember : TarInfo(m) \in Member
  <2> TAKE m \in RawMember
  <2>1. m.header \in Headers /\ m.name \in Names /\ m.announced \in BOOLEAN
    BY DEF RawMember
  <2>2. [m.name EXCEPT !.slash = FALSE] \in Names
    BY <2>1 DEF Names
  <2>3. m.header.size \in Nat /\ NoSize \in Int
    BY <2>1 DEF Headers, NoSize
  <2> QED BY <2>1, <2>2, <2>3 DEF TarInfo, Member
<1>2. \A i \in 1 .. Len(raw) : TarInfo(raw[i]) \in Member
  BY <1>1
<1> QED BY <1>2 DEF SdistList

\* Dividing lines of the members' loop: a member that is admitted keeps the totals
\* in their bounds.
LEMMA AdmitType ==
    ASSUME NEW member \in Member, NEW rules \in Rules, Admissible(member, rules),
           Admit(member, rules),
           place \in Nat \ {0}, total \in 0 .. MaxTotal, files \subseteq keys,
           found \subseteq 1 .. place - 1
    PROVE  /\ place' \in Nat \ {0} /\ total' \in 0 .. MaxTotal
           /\ files' \subseteq keys' /\ found' \subseteq 1 .. place' - 1
<1>1. member.size \in Nat /\ total + member.size <= MaxTotal /\ MaxTotal \in Nat
  BY MembersAssumption DEF Member, Admissible, WithinLimits
<1>2. place' = place + 1 /\ total' = total + member.size
  BY DEF Admit
<1>3. files' \subseteq keys'
  BY DEF Admit
<1>4. found' \subseteq found \cup {place}
  BY DEF Admit
<1> QED BY <1>1, <1>2, <1>3, <1>4

LEMMA StartType ==
    ASSUME StartMembers
    PROVE  /\ place' \in Nat \ {0} /\ total' \in 0 .. MaxTotal
           /\ files' \subseteq keys' /\ found' \subseteq 1 .. place' - 1
BY MembersAssumption DEF StartMembers

-----------------------------------------------------------------------------
(* Type correctness.                                                       *)

LEMMA InitTInv == Init => TInv
<1> SUFFICES ASSUME Init PROVE TInv
  OBVIOUS
<1> USE MembersAssumption
<1>1. PICK build \in Builds :
          wheel = build.wheel /\ sdist = build.sdist /\ changes = build.changes
  BY DEF Init
<1>2. IsWheel(wheel) /\ IsSdist(sdist) /\ changes \in Nat
  BY <1>1, DistributionAssumption
<1>3. Expected \subseteq FileNames /\ Built \in Files
  <2>1. "wheel" \in Bases /\ "sdist" \in Bases
    BY DistributionAssumption, Zenon
  <2> QED BY <2>1 DEF Expected, Plain, FileNames, Built, Files
<1>4. candidate \in 0 .. Len(wheel.ends)
  BY <1>2 DEF Init, WheelInit, IsWheel
<1>5. raw \in Seq(RawMember) /\ pending \in Names
  BY DEF Init, SdistInit, NoPath, Names
<1>6. TypeOK
  <2>1. DirectoryTypeOK
    BY <1>2, <1>3 DEF Init, DirectoryTypeOK
  <2>2. ReadersTypeOK
    BY <1>2, <1>4 DEF Init, WheelInit, SdistInit, ReadersTypeOK, IsWheel
  <2> QED BY <2>1, <2>2 DEF TypeOK
<1> QED BY <1>2, <1>4, <1>5, <1>6
        DEF TInv, Init, WheelInit, SdistInit, WheelRuns, SdistRuns

\* The raw passes over a wheel.
LEMMA WheelStepTInv ==
    ASSUME TInv, ScanWheel
    PROVE  TInv'
<1> USE DEF WheelRuns, SdistRuns, Goto
<1>1. /\ pc = "wheel" /\ UNCHANGED <<dvars, sdistVars>> /\ wheel' = wheel
      /\ IsWheel(wheel) /\ Len(wheel.ends) \in Nat
  BY DEF ScanWheel, TInv, WheelStep, WheelSearch, WheelCentral, WheelLocal, WheelBind,
         WheelMember, WheelContent, IsWheel
<1> DEFINE Good ==
      /\ wpc' \in WheelRuns \cup {"accepted", "rejected"}
      /\ candidate' \in 0 .. Len(wheel.ends)
      /\ wpc' \notin {"search", "rejected"} => candidate' # 0
      /\ entry' \in Nat \ {0}
      /\ place' \in Nat \ {0} /\ total' \in 0 .. MaxTotal
      /\ files' \subseteq keys' /\ found' \subseteq 1 .. place' - 1
<1>2. ASSUME Good PROVE TInv'
  <2>1. TypeOK'
    <3>1. DirectoryTypeOK'
      BY <1>1 DEF TInv, TypeOK, DirectoryTypeOK, dvars
    <3>2. ReadersTypeOK'
      <4>1. candidate' \in Nat
        BY <1>1, <1>2
      <4>2. /\ spc' = spc /\ offset' = offset /\ rawTotal' = rawTotal
            /\ rawFiles' = rawFiles /\ rawKeys' = rawKeys
            /\ pathFiles' = pathFiles /\ pathKeys' = pathKeys
        BY <1>1 DEF sdistVars, scan
      <4> QED BY <1>2, <4>1, <4>2 DEF TInv, TypeOK, ReadersTypeOK
    <3> QED BY <3>1, <3>2 DEF TypeOK
  <2>2. Listed'
    BY <1>1 DEF TInv, Listed, SidecarsMatch, Distributions, dvars
  <2> QED BY <1>1, <1>2, <2>1, <2>2 DEF TInv, dvars, sdistVars, scan
<1> SUFFICES Good
  BY <1>2
<1>3. /\ candidate \in 0 .. Len(wheel.ends) /\ entry \in Nat \ {0}
      /\ place \in Nat \ {0} /\ total \in 0 .. MaxTotal
      /\ files \subseteq keys /\ found \subseteq 1 .. place - 1
      /\ wpc \in {"central", "locals", "members", "contents", "accepted"} => candidate # 0
  BY DEF TInv, TypeOK, ReadersTypeOK
<1>4. CASE WheelSearch
  BY <1>1, <1>3, <1>4 DEF WheelSearch, Before, members
<1>5. CASE WheelCentral
  BY <1>3, <1>5 DEF WheelCentral, members
<1>6. CASE WheelLocal
  BY <1>3, <1>6 DEF WheelLocal, members
<1>7. CASE WheelBind
  <2>1. CASE wpc' = "members"
    BY <1>3, <1>7, <2>1, StartType DEF WheelBind
  <2>2. CASE wpc' # "members"
    BY <1>3, <1>7, <2>2 DEF WheelBind, members
  <2> QED BY <2>1, <2>2
<1>8. CASE WheelMember
  <2>1. CASE place <= Len(WheelList) /\ Admissible(WheelList[place], WheelRules)
    <3>1. WheelList \in Seq(Member)
      BY <1>1, <1>3, <1>8, EndsType DEF WheelMember
    <3>2. WheelList[place] \in Member
      BY <1>3, <2>1, <3>1
    <3>3. Admit(WheelList[place], WheelRules) /\ wpc' = wpc
      BY <1>8, <2>1 DEF WheelMember
    <3>4. /\ place' \in Nat \ {0} /\ total' \in 0 .. MaxTotal
          /\ files' \subseteq keys' /\ found' \subseteq 1 .. place' - 1
      BY <1>3, <2>1, <3>2, <3>3, AdmitType, WheelAssumption
    <3>5. wpc' = "members" /\ candidate' = candidate /\ candidate # 0 /\ entry' = 1
      BY <1>3, <1>8, <3>3 DEF WheelMember
    <3>6. wpc' \in WheelRuns /\ candidate' \in 0 .. Len(wheel.ends) /\ entry' \in Nat \ {0}
      BY <1>3, <3>5
    <3> QED BY <3>4, <3>5, <3>6
  <2>2. CASE ~(place <= Len(WheelList) /\ Admissible(WheelList[place], WheelRules))
    <3>1. wpc' \in {"contents", "rejected"} /\ UNCHANGED members
      BY <1>8, <2>2 DEF WheelMember
    <3>2. candidate' = candidate /\ candidate # 0 /\ entry' = 1
      BY <1>3, <1>8 DEF WheelMember
    <3> QED BY <1>3, <3>1, <3>2 DEF members
  <2> QED BY <2>1, <2>2
<1>9. CASE WheelContent
  BY <1>3, <1>9 DEF WheelContent, members
<1> QED BY <1>4, <1>5, <1>6, <1>7, <1>8, <1>9 DEF ScanWheel, WheelStep

\* The passes over an sdist.
LEMMA SdistStepTInv ==
    ASSUME TInv, ScanSdist
    PROVE  TInv'
<1> USE DEF WheelRuns, SdistRuns
<1>1. /\ pc = "sdist" /\ UNCHANGED <<dvars, wheelVars>> /\ sdist' = sdist
      /\ IsSdist(sdist) /\ Blocks \in Seq({Zero, Data} \cup Headers)
  BY DEF ScanSdist, TInv, SdistStep, SdistOpen, SdistEnd, SdistPax, SdistHeader,
         SdistRefuse, SdistBind, SdistMember, SdistClose, IsSdist, Blocks
<1> DEFINE Good ==
      /\ spc' \in SdistRuns \cup {"accepted", "rejected"}
      /\ raw' \in Seq(RawMember) /\ pending' \in Names
      /\ offset' \in Nat \ {0} /\ rawTotal' \in 0 .. MaxTotal
      /\ rawFiles' \subseteq rawKeys' /\ pathFiles' \subseteq pathKeys'
      /\ place' \in Nat \ {0} /\ total' \in 0 .. MaxTotal
      /\ files' \subseteq keys' /\ found' \subseteq 1 .. place' - 1
<1>2. ASSUME Good PROVE TInv'
  <2>1. TypeOK'
    <3>1. DirectoryTypeOK'
      BY <1>1 DEF TInv, TypeOK, DirectoryTypeOK, dvars
    <3>2. ReadersTypeOK'
      BY <1>1, <1>2 DEF TInv, TypeOK, ReadersTypeOK, wheelVars
    <3> QED BY <3>1, <3>2 DEF TypeOK
  <2>2. wpc = "accepted" /\ Listed'
    BY <1>1 DEF TInv, Listed, SidecarsMatch, Distributions, dvars
  <2> QED BY <1>1, <1>2, <2>1, <2>2 DEF TInv, dvars, wheelVars
<1> SUFFICES Good
  BY <1>2
<1>3. /\ offset \in Nat \ {0} /\ rawTotal \in 0 .. MaxTotal
      /\ rawFiles \subseteq rawKeys /\ pathFiles \subseteq pathKeys
      /\ raw \in Seq(RawMember) /\ pending \in Names
      /\ place \in Nat \ {0} /\ total \in 0 .. MaxTotal
      /\ files \subseteq keys /\ found \subseteq 1 .. place - 1
  BY DEF TInv, TypeOK, ReadersTypeOK
<1>4. CASE SdistOpen
  <2>1. <<>> \in Seq(RawMember) /\ NoPath \in Names /\ 0 \in 0 .. MaxTotal
    BY MembersAssumption DEF NoPath, Names
  <2> QED BY <1>3, <1>4, <2>1 DEF SdistOpen, members
<1>5. CASE SdistEnd
  BY <1>3, <1>5 DEF SdistEnd, scan, members
<1>6. CASE SdistPax
  <2>1. Blocks[offset] \in Headers /\ Blocks[offset].path \in Names
    BY <1>1, <1>3, <1>6 DEF SdistPax, Readable, Zero, Data, Headers
  <2>2. After(offset, Blocks[offset]) \in Nat \ {0}
    BY <1>3, <2>1, AfterType
  <2> QED BY <1>3, <1>6, <2>1, <2>2 DEF SdistPax, members
<1>7. CASE SdistHeader
  <2> DEFINE header == Blocks[offset]
  <2>1. header \in Headers
    BY <1>1, <1>3, <1>7 DEF SdistHeader, Readable, Zero, Data
  <2>2. After(offset, header) \in Nat \ {0}
    BY <1>3, <2>1, AfterType
  <2>3. FinalName(header) \in Names /\ header.size \in Nat
    BY <1>3, <2>1 DEF FinalName, Headers
  <2>4. [name |-> FinalName(header), header |-> header, announced |-> pending # NoPath]
          \in RawMember
    BY <2>1, <2>3 DEF RawMember
  <2>5. raw' \in Seq(RawMember)
    BY <1>3, <1>7, <2>4 DEF SdistHeader
  <2>6. rawTotal' \in 0 .. MaxTotal
    BY <1>3, <1>7, <2>3, MembersAssumption DEF SdistHeader, Acceptable
  <2>7. rawFiles' \subseteq rawKeys' /\ pathFiles' \subseteq pathKeys'
    BY <1>3, <1>7 DEF SdistHeader
  <2>8. NoPath \in Names
    BY DEF NoPath, Names
  <2> QED BY <1>3, <1>7, <2>2, <2>5, <2>6, <2>7, <2>8 DEF SdistHeader, members
<1>8. CASE SdistRefuse
  BY <1>3, <1>8 DEF SdistRefuse, scan, members
<1>9. CASE SdistBind
  <2>1. CASE spc' = "members"
    BY <1>3, <1>9, <2>1, StartType DEF SdistBind, scan
  <2>2. CASE spc' # "members"
    BY <1>3, <1>9, <2>2 DEF SdistBind, scan, members
  <2> QED BY <2>1, <2>2
<1>10. CASE SdistMember
  <2>1. CASE Admissible(SdistList[place], SdistRules)
    <3>1. SdistList[place] \in Member
      BY <1>3, <1>10, SdistListType DEF SdistMember
    <3>2. Admit(SdistList[place], SdistRules) /\ spc' = spc
      BY <1>10, <2>1 DEF SdistMember
    <3>3. /\ place' \in Nat \ {0} /\ total' \in 0 .. MaxTotal
          /\ files' \subseteq keys' /\ found' \subseteq 1 .. place' - 1
      BY <1>3, <2>1, <3>1, <3>2, AdmitType, SdistAssumption
    <3> QED BY <1>3, <1>10, <3>2, <3>3 DEF SdistMember, scan
  <2>2. CASE ~Admissible(SdistList[place], SdistRules)
    BY <1>3, <1>10, <2>2 DEF SdistMember, scan, members
  <2> QED BY <2>1, <2>2
<1>11. CASE SdistClose
  BY <1>3, <1>11 DEF SdistClose, scan, members
<1> QED BY <1>4, <1>5, <1>6, <1>7, <1>8, <1>9, <1>10, <1>11 DEF ScanSdist, SdistStep

\* With both distributions there, their digests are two editions.
LEMMA DigestsType ==
    ASSUME DirectoryTypeOK, Distributions = Expected
    PROVE  Digests \in [wheel : {1, 2}, sdist : {1, 2}]
<1>1. Plain("wheel") \in DOMAIN dist /\ Plain("sdist") \in DOMAIN dist
  BY DEF Distributions, Expected
<1>2. dist[Plain("wheel")].edition \in {1, 2} /\ dist[Plain("sdist")].edition \in {1, 2}
  BY <1>1 DEF DirectoryTypeOK, Files
<1> QED BY <1>2 DEF Digests

\* The steps of the commands that are none of a reader.
LEMMA CommandTInv ==
    ASSUME TInv, List \/ WheelDone \/ SdistDone \/ Settle \/ Verify \/ Begin
    PROVE  TInv'
<1> USE DEF WheelRuns, SdistRuns, Say
<1>1. /\ UNCHANGED <<dist, changes, touched, wheel, entry, sdist, scan, members>>
      /\ IsWheel(wheel) /\ Len(wheel.ends) \in Nat
  BY DEF List, WheelDone, SdistDone, Settle, Verify, Begin, sdistVars, wheelVars,
         TInv, IsWheel
<1>2. /\ DOMAIN dist \subseteq FileNames /\ \A name \in DOMAIN dist : dist[name] \in Files
      /\ wpc \in WheelRuns \cup {"idle", "accepted", "rejected"}
      /\ spc \in SdistRuns \cup {"idle", "accepted", "rejected"}
      /\ pc \in {"list", "wheel", "sdist", "digest", "verify", "idle"}
  BY DEF TInv, TypeOK, DirectoryTypeOK, ReadersTypeOK
<1>3. Listed <=> Listed'
  BY <1>1 DEF Listed, SidecarsMatch, Distributions
<1> DEFINE Control ==
      /\ wpc' \in WheelRuns \cup {"idle", "accepted", "rejected"}
      /\ spc' \in SdistRuns \cup {"idle", "accepted", "rejected"}
      /\ pc' \in {"list", "wheel", "sdist", "digest", "verify", "idle"}
      /\ wpc' \in WheelRuns => pc' = "wheel"
      /\ spc' \in SdistRuns => pc' = "sdist"
      /\ pc' = "sdist" => wpc' = "accepted"
      /\ pc' \in {"wheel", "sdist", "digest"} => Listed
      /\ candidate' \in 0 .. Len(wheel.ends)
      /\ wpc' \in {"central", "locals", "members", "contents", "accepted"} =>
            candidate' # 0
    Said ==
      /\ manifest' \in {NoManifest} \cup
            [state : {"intact", "altered"}, digests : [wheel : {1, 2}, sdist : {1, 2}]]
      /\ command' \in {"stage", "verify"}
      /\ result' \in {"none", "ok", "mismatch"}
<1>4. Control
  <2>1. CASE List
    BY <1>1, <1>2, <2>1 DEF List, TInv, sdistVars
  <2>2. CASE WheelDone
    BY <1>1, <1>2, <2>2 DEF WheelDone, TInv, wheelVars
  <2>3. CASE SdistDone
    BY <1>1, <1>2, <2>3 DEF SdistDone, TInv, wheelVars, sdistVars
  <2>4. CASE Settle
    BY <1>1, <1>2, <2>4 DEF Settle, Write, TInv, wheelVars, sdistVars
  <2>5. CASE Verify
    BY <1>1, <1>2, <2>5 DEF Verify, TInv, wheelVars, sdistVars
  <2>6. CASE Begin
    BY <1>1, <1>2, <2>6 DEF Begin, TInv, wheelVars, sdistVars
  <2> QED BY <2>1, <2>2, <2>3, <2>4, <2>5, <2>6
<1>5. Said
  <2>1. /\ manifest \in {NoManifest} \cup
              [state : {"intact", "altered"}, digests : [wheel : {1, 2}, sdist : {1, 2}]]
        /\ command \in {"stage", "verify"} /\ result \in {"none", "ok", "mismatch"}
    BY DEF TInv, TypeOK, DirectoryTypeOK
  <2>2. CASE Settle
    <3>1. Digests \in [wheel : {1, 2}, sdist : {1, 2}]
      BY <2>2, DigestsType DEF Settle, TInv, TypeOK, Listed
    <3>2. [state |-> "intact", digests |-> Digests] \in
            [state : {"intact", "altered"}, digests : [wheel : {1, 2}, sdist : {1, 2}]]
      BY <3>1
    <3> QED BY <2>1, <2>2, <3>2 DEF Settle, Write
  <2>3. CASE ~Settle
    BY <2>1, <2>3 DEF List, WheelDone, SdistDone, Verify, Begin
  <2> QED BY <2>2, <2>3
<1>6. DirectoryTypeOK'
  BY <1>1, <1>4, <1>5 DEF TInv, TypeOK, DirectoryTypeOK
<1>7. ReadersTypeOK'
  <2>1. candidate' \in Nat
    BY <1>1, <1>4
  <2> QED BY <1>1, <1>4, <2>1 DEF TInv, TypeOK, ReadersTypeOK, scan, members
<1> QED BY <1>1, <1>3, <1>4, <1>6, <1>7 DEF TInv, TypeOK, scan

LEMMA ChangeTInv ==
    ASSUME TInv, Change
    PROVE  TInv'
<1>1. /\ pc = "idle" /\ UNCHANGED <<command, pc, wheelVars, sdistVars, members>>
      /\ changes' \in Nat /\ result' = "none" /\ touched' \in BOOLEAN
  <2>1. changes \in Nat /\ touched \in BOOLEAN
    BY DEF TInv, TypeOK, DirectoryTypeOK
  <2>2. touched' \in BOOLEAN
    BY <2>1 DEF Change, Upload, Disturb, Damage
  <2> QED BY <2>1, <2>2 DEF Change
<1>2. /\ DOMAIN dist \subseteq FileNames /\ \A name \in DOMAIN dist : dist[name] \in Files
      /\ manifest \in {NoManifest} \cup
            [state : {"intact", "altered"}, digests : [wheel : {1, 2}, sdist : {1, 2}]]
  BY DEF TInv, TypeOK, DirectoryTypeOK
<1>3. ASSUME NEW name \in FileNames, NEW file \in Files
      PROVE  /\ DOMAIN Put(name, file) \subseteq FileNames
             /\ \A n \in DOMAIN Put(name, file) : Put(name, file)[n] \in Files
  BY <1>2, <1>3 DEF Put
<1>4. /\ DOMAIN dist' \subseteq FileNames /\ \A name \in DOMAIN dist' : dist'[name] \in Files
      /\ manifest' \in {NoManifest} \cup
            [state : {"intact", "altered"}, digests : [wheel : {1, 2}, sdist : {1, 2}]]
  <2>1. CASE Upload
    <3>1. PICK name \in Expected \cap DOMAIN dist : dist' = Put(Sidecar(name), Built)
      BY <2>1 DEF Upload
    <3>2. Sidecar(name) \in FileNames
      BY <1>2, <3>1 DEF Expected, Plain, Sidecar, FileNames
    <3>3. Built \in Files
      BY DEF Built, Files
    <3> QED BY <1>2, <1>3, <2>1, <3>1, <3>2, <3>3 DEF Upload
  <2>2. CASE Disturb
    BY <1>2, <1>3, <2>2 DEF Disturb
  <2>3. CASE Damage
    <3>1. manifest \in [state : {"intact", "altered"},
                        digests : [wheel : {1, 2}, sdist : {1, 2}]]
      BY <1>2, <2>3 DEF Damage
    <3>2. manifest' \in [state : {"intact", "altered"},
                         digests : [wheel : {1, 2}, sdist : {1, 2}]]
      BY <2>3, <3>1 DEF Damage
    <3> QED BY <1>2, <2>3, <3>2 DEF Damage
  <2> QED BY <2>1, <2>2, <2>3 DEF Change
<1>5. TypeOK'
  <2>1. DirectoryTypeOK'
    BY <1>1, <1>4 DEF TInv, TypeOK, DirectoryTypeOK
  <2>2. ReadersTypeOK'
    BY <1>1 DEF TInv, TypeOK, ReadersTypeOK, wheelVars, sdistVars, scan, members
  <2> QED BY <2>1, <2>2 DEF TypeOK
<1> QED BY <1>1, <1>5 DEF TInv, wheelVars, sdistVars, scan, WheelRuns, SdistRuns

LEMMA StepTInv == TInv /\ [Next]_vars => TInv'
<1> SUFFICES ASSUME TInv, [Next]_vars PROVE TInv'
  OBVIOUS
<1>1. CASE UNCHANGED vars
  <2>1. DirectoryTypeOK'
    BY <1>1 DEF TInv, TypeOK, DirectoryTypeOK, vars, dvars
  <2>2. ReadersTypeOK'
    BY <1>1 DEF TInv, TypeOK, ReadersTypeOK, vars, wheelVars, sdistVars, scan, members
  <2>3. Listed <=> Listed'
    BY <1>1 DEF Listed, SidecarsMatch, Distributions, vars, dvars
  <2> QED BY <1>1, <2>1, <2>2, <2>3
          DEF TInv, TypeOK, vars, dvars, wheelVars, sdistVars, scan
<1>2. CASE ScanWheel
  BY <1>2, WheelStepTInv
<1>3. CASE ScanSdist
  BY <1>3, SdistStepTInv
<1>4. CASE List \/ WheelDone \/ SdistDone \/ Settle \/ Verify \/ Begin
  BY <1>4, CommandTInv
<1>5. CASE Change
  BY <1>5, ChangeTInv
<1> QED BY <1>1, <1>2, <1>3, <1>4, <1>5 DEF Next, Command

LEMMA AlwaysTInv == Spec => []TInv
BY InitTInv, StepTInv, PTL DEF Spec

\* The directory, the manifest and what the readers have found keep their types,
\* and the sizes added up by _validate_archive_members and by the raw tar scan
\* never exceed ARCHIVE_MAX_TOTAL_SIZE, for archives of any length.
THEOREM TypeCorrect == Spec => []TypeOK
BY AlwaysTInv, PTL DEF TInv

-----------------------------------------------------------------------------
(* The members of an accepted archive.                                     *)

\* The loop over the members of a list, seen from before member p.
MembersUpTo(list, p, k, f) ==
    /\ k = {Key(list[i].name) : i \in 1 .. p - 1}
    /\ f = {Key(list[i].name) : i \in {j \in 1 .. p - 1 : list[j].file}}
    /\ \A i, j \in 1 .. p - 1 : i # j => Key(list[i].name) # Key(list[j].name)

PortableInv ==
    /\ wpc = "members" => place <= Len(WheelList) + 1 /\ MembersUpTo(WheelList, place, keys, files)
    /\ spc = "members" => place <= Len(SdistList) + 1 /\ MembersUpTo(SdistList, place, keys, files)
    /\ wpc \in {"contents", "accepted"} => Portable(WheelList)
    /\ spc = "accepted" => Portable(SdistList)

\* Before the first member nothing has been collected.
LEMMA NothingYet ==
    ASSUME NEW list
    PROVE  MembersUpTo(list, 1, {}, {})
BY DEF MembersUpTo

\* Admitting a member with a new key moves the loop on.
LEMMA OneMore ==
    ASSUME NEW list, NEW p \in Nat \ {0}, NEW k, NEW f,
           MembersUpTo(list, p, k, f), Key(list[p].name) \notin k
    PROVE  MembersUpTo(list, p + 1, k \cup {Key(list[p].name)},
                       IF list[p].file THEN f \cup {Key(list[p].name)} ELSE f)
<1>1. 1 .. (p + 1) - 1 = (1 .. p - 1) \cup {p}
  OBVIOUS
<1>2. k \cup {Key(list[p].name)} = {Key(list[i].name) : i \in 1 .. (p + 1) - 1}
  BY <1>1 DEF MembersUpTo
<1>3. (IF list[p].file THEN f \cup {Key(list[p].name)} ELSE f) =
        {Key(list[i].name) : i \in {j \in 1 .. (p + 1) - 1 : list[j].file}}
  <2>1. CASE list[p].file
    BY <1>1, <2>1 DEF MembersUpTo
  <2>2. CASE ~list[p].file
    BY <1>1, <2>2 DEF MembersUpTo
  <2> QED BY <2>1, <2>2
<1>4. \A i, j \in 1 .. (p + 1) - 1 : i # j => Key(list[i].name) # Key(list[j].name)
  BY <1>1 DEF MembersUpTo
<1> QED BY <1>2, <1>3, <1>4 DEF MembersUpTo

\* After the last member, a list without a member below a file is portable.
LEMMA AllSeen ==
    ASSUME NEW list \in Seq(Member), MembersUpTo(list, Len(list) + 1, keys, files),
           ~BelowFile(keys, files)
    PROVE  Portable(list)
<1>1. DOMAIN list = 1 .. (Len(list) + 1) - 1
  OBVIOUS
<1> SUFFICES ASSUME NEW i \in DOMAIN list, NEW j \in DOMAIN list, i # j
             PROVE  /\ Key(list[i].name) # Key(list[j].name)
                    /\ list[i].file => Key(list[i].name) \notin Ancestors(Key(list[j].name))
  BY DEF Portable
<1>2. Key(list[i].name) # Key(list[j].name) /\ Key(list[j].name) \in keys
  BY <1>1 DEF MembersUpTo
<1>3. list[i].file => Key(list[i].name) \in files
  BY <1>1 DEF MembersUpTo
<1>4. list[i].file => Key(list[i].name) \notin Ancestors(Key(list[j].name))
  BY <1>2, <1>3 DEF BelowFile
<1> QED BY <1>2, <1>4

\* zipfile's list is a matter of the file alone.
LEMMA SameWheel ==
    ASSUME wheel' = wheel
    PROVE  WheelList' = WheelList /\ Infos' = Infos /\ ZipEnd' = ZipEnd /\ Shift' = Shift
BY DEF WheelList, Infos, ZipEnd, Last, Shift

LEMMA SameRaw ==
    ASSUME raw' = raw
    PROVE  SdistList' = SdistList
BY DEF SdistList

LEMMA StepPortable ==
    ASSUME TInv, PortableInv, [Next]_vars
    PROVE  PortableInv'
<1>0. wheel' = wheel
  BY DEF Next, Command, List, ScanWheel, WheelDone, ScanSdist, SdistDone, Settle, Verify,
         Begin, Change, vars, wheelVars, WheelStep, WheelSearch, WheelCentral, WheelLocal,
         WheelBind, WheelMember, WheelContent
<1>1. WheelList' = WheelList
  BY <1>0, SameWheel
<1>2. CASE ScanWheel
  <2>1. /\ spc' = spc /\ SdistList' = SdistList /\ spc # "members" /\ pc = "wheel"
    BY <1>2, SameRaw DEF ScanWheel, TInv, SdistRuns, sdistVars, scan
  <2>2. candidate \in 0 .. Len(wheel.ends) /\ IsWheel(wheel) /\ place \in Nat \ {0}
        /\ (wpc \in {"members", "contents", "accepted"} => candidate # 0)
    BY DEF TInv, TypeOK, ReadersTypeOK
  <2>3. wpc \in {"members", "contents", "accepted"} => WheelList \in Seq(Member)
    BY <2>2, EndsType
  <2>4. CASE WheelBind
    <3>1. CASE wpc' = "members"
      <4>1. place' = 1 /\ keys' = {} /\ files' = {}
        BY <2>4, <3>1 DEF WheelBind, StartMembers, Goto
      <4>2. WheelList \in Seq(Member)
        BY <2>2, <2>4, EndsType DEF WheelBind, TInv
      <4> QED BY <1>1, <2>1, <3>1, <4>1, <4>2, NothingYet DEF PortableInv, Portable
    <3>2. CASE wpc' = "rejected"
      BY <1>1, <2>1, <3>2 DEF PortableInv, Portable
    <3> QED BY <2>4, <3>1, <3>2 DEF WheelBind, Goto
  <2>5. CASE WheelMember
    <3>1. MembersUpTo(WheelList, place, keys, files) /\ place <= Len(WheelList) + 1
          /\ WheelList \in Seq(Member)
      BY <2>3, <2>5 DEF WheelMember, PortableInv
    <3>2. CASE place <= Len(WheelList) /\ Admissible(WheelList[place], WheelRules)
      <4>1. Admit(WheelList[place], WheelRules) /\ wpc' = "members"
        BY <2>5, <3>2 DEF WheelMember
      <4>2. Key(WheelList[place].name) \notin keys
        BY <3>2 DEF Admissible
      <4>3. /\ place' = place + 1 /\ keys' = keys \cup {Key(WheelList[place].name)}
            /\ files' = IF WheelList[place].file
                         THEN files \cup {Key(WheelList[place].name)} ELSE files
        BY <4>1 DEF Admit
      <4>4. MembersUpTo(WheelList, place', keys', files')
        BY <2>2, <3>1, <4>2, <4>3, OneMore
      <4>5. place' <= Len(WheelList) + 1
        BY <2>2, <3>1, <3>2, <4>3
      <4> QED BY <1>1, <2>1, <4>1, <4>4, <4>5 DEF PortableInv, Portable
    <3>3. CASE wpc' = "contents"
      <4>1. place > Len(WheelList) /\ ~BelowFile(keys, files)
        BY <2>2, <2>5, <3>1, <3>3 DEF WheelMember, Goto, Complete
      <4>2. place = Len(WheelList) + 1
        BY <2>2, <3>1, <4>1
      <4>3. Portable(WheelList)
        BY <3>1, <4>1, <4>2, AllSeen
      <4>4. Portable(WheelList)'
        BY <1>1, <4>3 DEF Portable
      <4> QED BY <1>1, <2>1, <3>3, <4>4 DEF PortableInv, Portable
    <3>4. CASE wpc' = "rejected"
      BY <1>1, <2>1, <3>4 DEF PortableInv, Portable
    <3> QED BY <2>5, <3>2, <3>3, <3>4 DEF WheelMember, Goto
  <2>6. CASE WheelContent
    <3>1. Portable(WheelList)
      BY <2>6 DEF WheelContent, PortableInv
    <3>2. wpc' # "members"
      BY <2>6 DEF WheelContent, Goto
    <3> QED BY <1>1, <2>1, <3>1, <3>2 DEF PortableInv, Portable
  <2>7. CASE WheelSearch \/ WheelCentral \/ WheelLocal
    <3>1. wpc' \notin {"members", "contents", "accepted"}
      BY <2>7 DEF WheelSearch, WheelCentral, WheelLocal, Goto
    <3> QED BY <1>1, <2>1, <3>1 DEF PortableInv, Portable
  <2> QED BY <1>2, <2>4, <2>5, <2>6, <2>7 DEF ScanWheel, WheelStep
<1>3. CASE ScanSdist
  <2>1. wpc' = wpc /\ wpc = "accepted" /\ Portable(WheelList)
    BY <1>3 DEF ScanSdist, TInv, wheelVars, PortableInv
  <2>2. raw \in Seq(RawMember) /\ place \in Nat \ {0}
    BY DEF TInv, TypeOK, ReadersTypeOK
  <2>3. SdistList \in Seq(Member)
    BY <2>2, SdistListType
  <2>4. CASE SdistBind
    <3>1. SdistList' = SdistList
      BY <2>4, SameRaw DEF SdistBind, scan
    <3>2. CASE spc' = "members"
      <4>1. place' = 1 /\ keys' = {} /\ files' = {}
        BY <2>4, <3>2 DEF SdistBind, StartMembers
      <4> QED BY <1>1, <2>1, <2>3, <3>1, <3>2, <4>1, NothingYet DEF PortableInv, Portable
    <3>3. CASE spc' = "rejected"
      BY <1>1, <2>1, <3>3 DEF PortableInv, Portable
    <3> QED BY <2>4, <3>2, <3>3 DEF SdistBind
  <2>5. CASE SdistMember
    <3>1. MembersUpTo(SdistList, place, keys, files) /\ place <= Len(SdistList)
      BY <2>5 DEF SdistMember, PortableInv
    <3>2. SdistList' = SdistList
      BY <2>5, SameRaw DEF SdistMember, scan
    <3>3. CASE Admissible(SdistList[place], SdistRules)
      <4>1. Admit(SdistList[place], SdistRules) /\ spc' = "members"
        BY <2>5, <3>3 DEF SdistMember
      <4>2. Key(SdistList[place].name) \notin keys
        BY <3>3 DEF Admissible
      <4>3. /\ place' = place + 1 /\ keys' = keys \cup {Key(SdistList[place].name)}
            /\ files' = IF SdistList[place].file
                         THEN files \cup {Key(SdistList[place].name)} ELSE files
        BY <4>1 DEF Admit
      <4>4. MembersUpTo(SdistList, place', keys', files')
        BY <2>2, <3>1, <4>2, <4>3, OneMore
      <4>5. place' <= Len(SdistList) + 1
        BY <2>2, <2>3, <3>1, <4>3
      <4> QED BY <1>1, <2>1, <3>2, <4>1, <4>4, <4>5 DEF PortableInv, Portable
    <3>4. CASE ~Admissible(SdistList[place], SdistRules)
      <4>1. spc' = "rejected"
        BY <2>5, <3>4 DEF SdistMember
      <4> QED BY <1>1, <2>1, <4>1 DEF PortableInv, Portable
    <3> QED BY <3>3, <3>4
  <2>6. CASE SdistClose
    <3>1. SdistList' = SdistList
      BY <2>6, SameRaw DEF SdistClose, scan
    <3>2. CASE spc' = "accepted"
      <4>1. /\ MembersUpTo(SdistList, place, keys, files) /\ place <= Len(SdistList) + 1
            /\ place > Len(SdistList) /\ ~BelowFile(keys, files)
        BY <2>6, <3>2 DEF SdistClose, PortableInv, Complete
      <4>2. place = Len(SdistList) + 1
        BY <2>2, <2>3, <4>1
      <4>3. Portable(SdistList)
        BY <2>3, <4>1, <4>2, AllSeen
      <4> QED BY <1>1, <2>1, <3>1, <3>2, <4>3 DEF PortableInv, Portable
    <3>3. CASE spc' = "rejected"
      BY <1>1, <2>1, <3>3 DEF PortableInv, Portable
    <3> QED BY <2>6, <3>2, <3>3 DEF SdistClose
  <2>7. CASE SdistOpen \/ SdistEnd \/ SdistPax \/ SdistHeader \/ SdistRefuse
    <3>1. spc' \notin {"members", "accepted"}
      BY <2>7 DEF SdistOpen, SdistEnd, SdistPax, SdistHeader, SdistRefuse
    <3> QED BY <1>1, <2>1, <3>1 DEF PortableInv, Portable
  <2> QED BY <1>3, <2>4, <2>5, <2>6, <2>7 DEF ScanSdist, SdistStep
<1>4. CASE ~ScanWheel /\ ~ScanSdist
  <2>1. UNCHANGED <<raw, place, keys, files>>
    BY <1>4 DEF Next, Command, List, WheelDone, SdistDone, Settle, Verify, Begin, Change,
                vars, sdistVars, scan, members
  <2>2. wpc' \in {wpc, "search"} /\ spc' \in {spc, "open"}
    BY <1>4 DEF Next, Command, List, WheelDone, SdistDone, Settle, Verify, Begin, Change,
                vars, wheelVars, sdistVars
  <2>3. SdistList' = SdistList
    BY <2>1, SameRaw
  <2> QED BY <1>1, <2>1, <2>2, <2>3 DEF PortableInv, MembersUpTo, Portable
<1> QED BY <1>2, <1>3, <1>4

LEMMA AlwaysPortable == Spec => []PortableInv
<1>1. Init => PortableInv
  BY DEF Init, WheelInit, SdistInit, PortableInv
<1>2. TInv /\ PortableInv /\ [Next]_vars => PortableInv'
  BY StepPortable
<1> QED BY <1>1, <1>2, AlwaysTInv, PTL DEF Spec

\* Archives that _validate_wheel_metadata or _validate_sdist_metadata accepts have
\* no two members with one portable name and none below a regular file, whatever
\* their number, depth and order.
THEOREM AcceptedUnpacksAnywhere == Spec => []AcceptedIsPortable
<1>1. PortableInv => AcceptedIsPortable
  BY DEF PortableInv, AcceptedIsPortable
<1> QED BY <1>1, AlwaysPortable, PTL

-----------------------------------------------------------------------------
(* What the passes over a wheel establish one after the other.             *)

NameAgrees(e) == HasLocal(e.offset) /\ Local(e.offset).name = e.name
EntryAgrees(i) ==
    /\ LocalAgrees(Dir[i], Infos[i])
    /\ WheelList[i].file => Inflates(Dir[i], Infos[i])

Bindings ==
    /\ Len(Infos) = Len(Dir)
    /\ \A i \in DOMAIN Dir :
          Infos[i].name = Dir[i].name /\ Infos[i].offset + Shift = Dir[i].offset

WheelInv ==
    /\ wpc \in {"locals", "members", "contents", "accepted"} => OffsetsApart
    /\ wpc = "locals" => \A i \in DOMAIN Dir : i < entry => NameAgrees(Dir[i])
    /\ wpc \in {"members", "contents", "accepted"} =>
          Bindings /\ \A i \in DOMAIN Dir : NameAgrees(Dir[i])
    /\ wpc = "contents" => \A i \in DOMAIN Dir : i < entry => EntryAgrees(i)
    /\ wpc = "accepted" => \A i \in DOMAIN Dir : EntryAgrees(i)

\* Everything of WheelInv but the position is about the file and the candidate.
LEMMA SameCandidate ==
    ASSUME wheel' = wheel, candidate' = candidate
    PROVE  /\ OffsetsApart' = OffsetsApart /\ Bindings' = Bindings /\ Dir' = Dir
           /\ DirAt' = DirAt
           /\ \A i \in DOMAIN Dir : NameAgrees(Dir[i])' = NameAgrees(Dir[i])
           /\ \A i \in DOMAIN Dir : EntryAgrees(i)' = EntryAgrees(i)
<1>1. /\ End' = End /\ Dir' = Dir /\ DirAt' = DirAt /\ Offsets' = Offsets
  BY DEF End, Dir, DirAt, Offsets
<1>2. WheelList' = WheelList /\ Infos' = Infos /\ Shift' = Shift
  BY SameWheel
<1>3. OffsetsApart' = OffsetsApart
  BY <1>1 DEF OffsetsApart
<1>4. Bindings' = Bindings
  BY <1>1, <1>2 DEF Bindings
<1>5. \A i \in DOMAIN Dir : NameAgrees(Dir[i])' = NameAgrees(Dir[i])
  BY <1>1 DEF NameAgrees, Local, HasLocal
<1>6. \A i \in DOMAIN Dir : EntryAgrees(i)' = EntryAgrees(i)
  BY <1>1, <1>2 DEF EntryAgrees, LocalAgrees, Local, PayloadAt, RecordEnd, BlankHeader,
                    DescriptorAgrees, Inflates, Sizes
<1> QED BY <1>1, <1>3, <1>4, <1>5, <1>6

LEMMA StepWheelInv ==
    ASSUME TInv, WheelInv, [Next]_vars
    PROVE  WheelInv'
<1>0. wheel' = wheel
  BY DEF Next, Command, List, ScanWheel, WheelDone, ScanSdist, SdistDone, Settle, Verify,
         Begin, Change, vars, wheelVars, WheelStep, WheelSearch, WheelCentral, WheelLocal,
         WheelBind, WheelMember, WheelContent
<1>1. /\ candidate \in 0 .. Len(wheel.ends) /\ IsWheel(wheel) /\ entry \in Nat \ {0}
      /\ wpc \in {"central", "locals", "members", "contents", "accepted"} => candidate # 0
  BY DEF TInv, TypeOK, ReadersTypeOK
<1>2. CASE ScanWheel
  <2>1. CASE WheelSearch
    <3>1. wpc' \in {"search", "central", "rejected"}
      BY <2>1 DEF WheelSearch, Goto
    <3> QED BY <3>1 DEF WheelInv
  <2>2. CASE WheelCentral
    <3>1. candidate' = candidate /\ wpc' \in {"central", "locals", "rejected"}
      BY <2>2 DEF WheelCentral, Goto
    <3>2. wpc' = "locals" => OffsetsApart /\ entry' = 1
      BY <2>2 DEF WheelCentral, Goto
    <3>3. Dir \in Seq(Entries)
      BY <1>1, <2>2, EndsType DEF WheelCentral
    <3>4. \A i \in DOMAIN Dir : ~(i < 1)
      BY <3>3
    <3> QED BY <1>0, <3>1, <3>2, <3>4, SameCandidate DEF WheelInv
  <2>3. CASE WheelLocal
    <3>1. candidate' = candidate /\ wpc' \in {"locals", "rejected"} /\ wpc = "locals"
      BY <2>3 DEF WheelLocal, Goto
    <3>2. wpc' = "locals" => NameAgrees(Dir[entry]) /\ entry' = entry + 1
      BY <2>3 DEF WheelLocal, Goto, NameAgrees
    <3>3. Dir \in Seq(Entries)
      BY <1>1, <3>1, EndsType
    <3>4. wpc' = "locals" => \A i \in DOMAIN Dir : i < entry' => NameAgrees(Dir[i])
      BY <1>1, <3>1, <3>2, <3>3 DEF WheelInv
    <3>5. OffsetsApart
      BY <3>1 DEF WheelInv
    <3> QED BY <1>0, <3>1, <3>4, <3>5, SameCandidate DEF WheelInv
  <2>4. CASE WheelBind
    <3>1. candidate' = candidate /\ wpc' \in {"members", "rejected"} /\ wpc = "locals"
      BY <2>4 DEF WheelBind, Goto
    <3>2. wpc' = "members" => Bindings
      BY <2>4 DEF WheelBind, Goto, Bindings
    <3>3. Dir \in Seq(Entries)
      BY <1>1, <3>1, EndsType
    <3>4. OffsetsApart /\ \A i \in DOMAIN Dir : NameAgrees(Dir[i])
      BY <1>1, <2>4, <3>1, <3>3 DEF WheelInv, WheelBind
    <3> QED BY <1>0, <3>1, <3>2, <3>4, SameCandidate DEF WheelInv
  <2>5. CASE WheelMember
    <3>1. /\ candidate' = candidate /\ wpc' \in {"members", "contents", "rejected"}
          /\ wpc = "members" /\ entry' = 1
      BY <2>5 DEF WheelMember, Goto
    <3>2. Dir \in Seq(Entries)
      BY <1>1, <3>1, EndsType
    <3>3. \A i \in DOMAIN Dir : ~(i < 1)
      BY <3>2
    <3>4. OffsetsApart /\ Bindings /\ \A i \in DOMAIN Dir : NameAgrees(Dir[i])
      BY <3>1 DEF WheelInv
    <3> QED BY <1>0, <3>1, <3>3, <3>4, SameCandidate DEF WheelInv
  <2>6. CASE WheelContent
    <3>1. /\ candidate' = candidate /\ wpc' \in {"contents", "accepted", "rejected"}
          /\ wpc = "contents"
      BY <2>6 DEF WheelContent, Goto
    <3>2. /\ Dir \in Seq(Entries) /\ Len(WheelList) = Len(Infos)
          /\ Infos \in Seq(Entries) /\ WheelList \in Seq(Member)
      BY <1>1, <3>1, EndsType
    <3>3. OffsetsApart /\ Bindings /\ \A i \in DOMAIN Dir : NameAgrees(Dir[i])
      BY <3>1 DEF WheelInv
    <3>4. Len(WheelList) = Len(Dir)
      BY <3>2, <3>3 DEF Bindings
    <3>5. wpc' = "contents" => \A i \in DOMAIN Dir : i < entry' => EntryAgrees(i)
      <4>1. wpc' = "contents" => EntryAgrees(entry) /\ entry' = entry + 1
        BY <2>6 DEF WheelContent, Goto, EntryAgrees
      <4> QED BY <1>1, <3>1, <3>2, <4>1 DEF WheelInv
    <3>6. wpc' = "accepted" => \A i \in DOMAIN Dir : EntryAgrees(i)
      <4>1. wpc' = "accepted" => entry > Len(WheelList)
        BY <1>1, <2>6, <3>2 DEF WheelContent, Goto
      <4> QED BY <1>1, <3>1, <3>2, <3>4, <4>1 DEF WheelInv
    <3> QED BY <1>0, <3>1, <3>3, <3>5, <3>6, SameCandidate DEF WheelInv
  <2> QED BY <1>2, <2>1, <2>2, <2>3, <2>4, <2>5, <2>6 DEF ScanWheel, WheelStep
<1>3. CASE ~ScanWheel
  <2>1. entry' = entry /\ (wpc' = "search" \/ (wpc' = wpc /\ candidate' = candidate))
    BY <1>3 DEF Next, Command, List, WheelDone, ScanSdist, SdistDone, Settle, Verify,
                Begin, Change, vars, wheelVars
  <2>2. CASE wpc' = "search"
    BY <2>2 DEF WheelInv
  <2>3. CASE wpc' = wpc /\ candidate' = candidate
    BY <1>0, <2>1, <2>3, SameCandidate DEF WheelInv
  <2> QED BY <2>1, <2>2, <2>3
<1> QED BY <1>2, <1>3

LEMMA AlwaysWheelInv == Spec => []WheelInv
<1>1. Init => WheelInv
  BY DEF Init, WheelInit, WheelInv
<1>2. TInv /\ WheelInv /\ [Next]_vars => WheelInv'
  BY StepWheelInv
<1> QED BY <1>1, <1>2, AlwaysTInv, PTL DEF Spec

\* A record that agrees ends where the next one begins, or before.
LEMMA RecordFits ==
    ASSUME TInv, wpc = "accepted", NEW i \in DOMAIN Dir, OffsetsApart, Bindings,
           HasLocal(Dir[i].offset), EntryAgrees(i)
    PROVE  \E end \in RecordEnd(Dir[i].offset) : \A o \in Extent(i) : o < end
<1>1. /\ Dir \in Seq(Entries) /\ Infos \in Seq(Entries) /\ DirAt \in Nat
  BY EndsType DEF TInv
<1> DEFINE e == Dir[i]  l == Local(e.offset)  info == Infos[i]
<1>2. e \in Entries /\ info \in Entries /\ l \in Locals
  BY <1>1 DEF TInv, IsWheel, HasLocal, Local, Bindings
<1>3. PICK end \in RecordEnd(e.offset) :
          /\ PayloadAt(e) + info.csize <= end
          /\ l.deferred => DescriptorAgrees(e, Values(info), end - (PayloadAt(e) + info.csize),
                                            l.extra = "zip64")
  BY DEF EntryAgrees, LocalAgrees
<1>4. PayloadAt(e) \in Nat /\ info.csize \in Nat /\ e.offset \in Nat
  BY <1>2 DEF Entries, Locals, PayloadAt
<1>5. end \in Nat
  <2>1. end \in Offsets \/ end = DirAt
    BY <1>3 DEF RecordEnd
  <2>2. \A j \in DOMAIN Dir : Dir[j].offset \in Nat
    <3>1. \A j \in DOMAIN Dir : Dir[j] \in Entries
      BY <1>1
    <3> QED BY <3>1 DEF Entries
  <2> QED BY <1>1, <2>1, <2>2 DEF Offsets
<1>6. DescriptorLength(l.extra = "zip64", l.descriptor.signed) \in Nat
  BY DEF DescriptorLength
<1>7. CASE l.deferred
  <2>1. end - (PayloadAt(e) + info.csize) =
          DescriptorLength(l.extra = "zip64", l.descriptor.signed)
    BY <1>3, <1>7 DEF DescriptorAgrees
  <2> QED BY <1>3, <1>4, <1>5, <1>6, <1>7, <2>1 DEF Extent
<1>8. CASE ~l.deferred
  BY <1>3, <1>4, <1>5, <1>8 DEF Extent
<1> QED BY <1>7, <1>8

\* In an accepted wheel every member has its own bytes before the central
\* directory: no two share one, whatever the order and number of the entries.
THEOREM MembersApart == Spec => []ExtentsDisjoint
<1>1. TInv /\ WheelInv => ExtentsDisjoint
  <2> SUFFICES ASSUME TInv, WheelInv, wpc = "accepted"
               PROVE  \A i \in DOMAIN Dir :
                         /\ \A o \in Extent(i) : o < DirAt
                         /\ \A j \in DOMAIN Dir \ {i} : Extent(i) \cap Extent(j) = {}
    BY DEF ExtentsDisjoint
  <2>1. /\ OffsetsApart /\ Bindings
        /\ \A i \in DOMAIN Dir : EntryAgrees(i) /\ HasLocal(Dir[i].offset)
    BY DEF WheelInv, NameAgrees
  <2>2. Dir \in Seq(Entries) /\ Infos \in Seq(Entries) /\ DirAt \in Nat
    BY EndsType DEF TInv
  <2>3. \A i \in DOMAIN Dir :
           /\ Dir[i].offset \in Nat /\ Dir[i].offset < DirAt
           /\ \A o \in Extent(i) : o \in Int /\ Dir[i].offset <= o
    <3>1. ASSUME NEW i \in DOMAIN Dir
          PROVE  /\ Dir[i].offset \in Nat /\ PayloadAt(Dir[i]) \in Nat
                 /\ Infos[i].csize \in Nat
      <4>1. Dir[i] \in Entries /\ Infos[i] \in Entries
        BY <2>1, <2>2 DEF Bindings
      <4>2. Local(Dir[i].offset) \in Locals
        BY <2>1 DEF TInv, IsWheel, HasLocal, Local
      <4> QED BY <4>1, <4>2 DEF Entries, Locals, PayloadAt
    <3>2. \A i \in DOMAIN Dir : Dir[i].offset < DirAt
      BY <2>1 DEF OffsetsApart, Offsets
    <3>3. ASSUME NEW i \in DOMAIN Dir, NEW o \in Extent(i)
          PROVE  o \in Int /\ Dir[i].offset <= o
      BY <3>1 DEF Extent, DescriptorLength
    <3> QED BY <3>1, <3>2, <3>3
  <2>4. ASSUME NEW i \in DOMAIN Dir
        PROVE  /\ \A o \in Extent(i) : o < DirAt
               /\ \A j \in DOMAIN Dir : Dir[j].offset > Dir[i].offset =>
                     \A o \in Extent(i) : o < Dir[j].offset
    <3>1. PICK end \in RecordEnd(Dir[i].offset) : \A o \in Extent(i) : o < end
      BY <2>1, RecordFits
    <3>2. end \in Int /\ end <= DirAt
      <4>1. end = DirAt \/ \E j \in DOMAIN Dir : end = Dir[j].offset
        BY <3>1 DEF RecordEnd, Offsets
      <4> QED BY <2>2, <2>3, <4>1
    <3>3. \A j \in DOMAIN Dir : Dir[j].offset > Dir[i].offset => end <= Dir[j].offset
      BY <3>1 DEF RecordEnd, Offsets
    <3> QED BY <2>2, <2>3, <3>1, <3>2, <3>3
  <2>5. ASSUME NEW i \in DOMAIN Dir, NEW j \in DOMAIN Dir \ {i}
        PROVE  Extent(i) \cap Extent(j) = {}
    <3>1. Dir[i].offset # Dir[j].offset
      BY <2>1 DEF OffsetsApart
    <3>2. CASE Dir[i].offset < Dir[j].offset
      BY <2>3, <2>4, <3>2
    <3>3. CASE Dir[j].offset < Dir[i].offset
      BY <2>3, <2>4, <3>3
    <3> QED BY <2>3, <3>1, <3>2, <3>3
  <2> QED BY <2>4, <2>5
<1> QED BY <1>1, AlwaysTInv, AlwaysWheelInv, PTL

\* In an accepted wheel the local headers with their zip64 fields and descriptors
\* tell a streaming reader what zipfile reads in the directory, and the payloads
\* have the checksums that both announce.
THEOREM ReadersSeeTheSame == Spec => []ReadersAgree
<1>1. TInv /\ WheelInv => ReadersAgree
  <2> SUFFICES ASSUME TInv, WheelInv, wpc = "accepted"
               PROVE  ReadersAgree
    BY DEF ReadersAgree
  <2>1. /\ Bindings
        /\ \A i \in DOMAIN Dir : EntryAgrees(i) /\ NameAgrees(Dir[i])
    BY DEF WheelInv
  <2>2. ASSUME NEW i \in DOMAIN Dir
        PROVE  LET l == Local(Infos[i].offset + Shift)
               IN  /\ l.name = Infos[i].name
                   /\ Streamed(l) = Values(Infos[i])
                   /\ WheelList[i].file => l.data.crc = Infos[i].crc
    <3> DEFINE there == Local(Dir[i].offset)
    <3>1. Infos[i].offset + Shift = Dir[i].offset /\ there.name = Infos[i].name
      BY <2>1 DEF Bindings, NameAgrees
    <3>2. LocalAgrees(Dir[i], Infos[i])
      BY <2>1 DEF EntryAgrees
    <3>3. Streamed(there) = Values(Infos[i])
      <4>1. ASSUME there.deferred PROVE Streamed(there) = Values(Infos[i])
        BY <3>2, <4>1 DEF LocalAgrees, DescriptorAgrees, Streamed
      <4>2. ASSUME ~there.deferred PROVE Streamed(there) = Values(Infos[i])
        <5>1. /\ there.crc = Infos[i].crc
              /\ Sizes(there) = [csize |-> Infos[i].csize, size |-> Infos[i].size]
          BY <3>2, <4>2 DEF LocalAgrees
        <5> QED BY <4>2, <5>1 DEF Streamed, Values
      <4> QED BY <4>1, <4>2
    <3>4. WheelList[i].file => there.data.crc = Infos[i].crc
      BY <2>1 DEF EntryAgrees, Inflates
    <3> QED BY <3>1, <3>3, <3>4
  <2> QED BY <2>1, <2>2 DEF ReadersAgree, Bindings
<1> QED BY <1>1, AlwaysTInv, AlwaysWheelInv, PTL

-----------------------------------------------------------------------------
(* The directory and the manifest.                                         *)

Original == [name \in Expected |-> Built]

BuiltInv ==
    /\ manifest = NoManifest /\ pc # "idle" => dist = Original
    /\ manifest = NoManifest => command = "stage"
    /\ manifest # NoManifest => manifest.digests = [wheel |-> 1, sdist |-> 1]
    /\ VerifiedIsBuilt

\* A listing of two regular files with the digests of the build has what was built.
LEMMA ListedIsBuilt ==
    ASSUME DirectoryTypeOK, Listed, Digests = [wheel |-> 1, sdist |-> 1]
    PROVE  /\ \A name \in Expected : name \in DOMAIN dist /\ dist[name] = Built
           /\ \A name \in DOMAIN dist : name.base \in {"wheel", "sdist"} /\ name.suffixes <= 1
<1>1. ASSUME NEW name \in Expected
      PROVE  name \in DOMAIN dist /\ dist[name] = Built
  <2>1. name \in DOMAIN dist
    BY DEF Listed, Distributions
  <2>2. dist[name] \in Files /\ dist[name].kind = "file"
    BY <2>1 DEF Listed, DirectoryTypeOK
  <2>3. dist[Plain("wheel")].edition = 1 /\ dist[Plain("sdist")].edition = 1
    BY DEF Digests
  <2>4. dist[name].edition = 1
    BY <2>3 DEF Expected
  <2> QED BY <2>1, <2>2, <2>4 DEF Files, Built
<1>2. ASSUME NEW name \in DOMAIN dist
      PROVE  name.base \in {"wheel", "sdist"} /\ name.suffixes <= 1
  <2>1. name \in FileNames
    BY DEF DirectoryTypeOK
  <2>2. CASE name \in Distributions
    BY <2>2 DEF Listed, Expected, Plain
  <2>3. CASE name \notin Distributions
    <3>1. [name EXCEPT !.suffixes = @ - 1] \in Expected
      BY <2>3 DEF Listed, SidecarsMatch
    <3>2. name.base \in {"wheel", "sdist"} /\ name.suffixes - 1 = 0
      BY <2>1, <3>1 DEF Expected, Plain, FileNames
    <3> QED BY <2>1, <3>2 DEF FileNames
  <2> QED BY <2>2, <2>3
<1> QED BY <1>1, <1>2

LEMMA StepBuilt ==
    ASSUME TInv, BuiltInv, [Next]_vars
    PROVE  BuiltInv'
<1>1. CASE Change
  <2>1. pc' = "idle" /\ result' = "none" /\ command' = command
    BY <1>1 DEF Change
  <2>2. manifest' = NoManifest => manifest = NoManifest
    BY <1>1 DEF Change, Upload, Disturb, Damage, NoManifest
  <2>3. manifest' # NoManifest => manifest'.digests = [wheel |-> 1, sdist |-> 1]
    <3>1. CASE Damage
      <4>1. manifest \in [state : {"intact", "altered"},
                          digests : [wheel : {1, 2}, sdist : {1, 2}]]
        BY <3>1 DEF Damage, TInv, TypeOK, DirectoryTypeOK
      <4> QED BY <3>1, <4>1 DEF Damage, BuiltInv
    <3>2. CASE manifest' = manifest
      BY <3>2 DEF BuiltInv
    <3> QED BY <1>1, <3>1, <3>2 DEF Change, Upload, Disturb
  <2> QED BY <2>1, <2>2, <2>3 DEF BuiltInv, VerifiedIsBuilt
<1>2. CASE Settle
  <2>1. /\ pc = "digest" /\ dist' = dist /\ command' = command /\ pc' = "idle"
        /\ Listed /\ DirectoryTypeOK
    BY <1>2 DEF Settle, Write, Say, TInv, TypeOK
  <2>2. CASE command = "stage"
    <3>1. manifest = NoManifest => Digests = [wheel |-> 1, sdist |-> 1]
      <4>1. Plain("wheel") \in Expected /\ Plain("sdist") \in Expected
        BY DEF Expected
      <4> QED BY <2>1, <4>1 DEF BuiltInv, Original, Digests, Built
    <3>2. [state |-> "intact", digests |-> Digests] # NoManifest
      BY DEF NoManifest
    <3>3. Write
      BY <1>2, <2>2 DEF Settle
    <3> QED BY <2>1, <2>2, <3>1, <3>2, <3>3 DEF Write, BuiltInv, VerifiedIsBuilt
  <2>3. CASE command = "verify"
    <3>1. manifest' = manifest /\ manifest # NoManifest
      BY <1>2, <2>3 DEF Settle, BuiltInv
    <3>2. result' = "ok" => Digests = [wheel |-> 1, sdist |-> 1]
      BY <1>2, <2>3, <3>1 DEF Settle, Say, BuiltInv
    <3>3. VerifiedIsBuilt'
      BY <2>1, <3>2, ListedIsBuilt DEF VerifiedIsBuilt
    <3> QED BY <2>1, <3>1, <3>3 DEF BuiltInv
  <2> QED BY <1>2, <2>2, <2>3 DEF Settle
<1>3. CASE Begin
  BY <1>3 DEF Begin, BuiltInv, VerifiedIsBuilt
<1>4. CASE List \/ WheelDone \/ SdistDone \/ Verify
  <2>1. UNCHANGED <<dist, manifest, command>> /\ pc # "idle"
    BY <1>4 DEF List, WheelDone, SdistDone, Verify
  <2>2. result' \in {result, "mismatch"}
    BY <1>4 DEF List, WheelDone, SdistDone, Verify, Say
  <2> QED BY <2>1, <2>2 DEF BuiltInv, VerifiedIsBuilt
<1>5. CASE ScanWheel \/ ScanSdist \/ UNCHANGED vars
  <2>1. UNCHANGED dvars
    BY <1>5 DEF ScanWheel, ScanSdist, vars
  <2> QED BY <2>1 DEF dvars, BuiltInv, VerifiedIsBuilt
<1> QED BY <1>1, <1>2, <1>3, <1>4, <1>5 DEF Next, Command

LEMMA AlwaysBuilt == Spec => []BuiltInv
<1>1. Init => BuiltInv
  BY DEF Init, BuiltInv, VerifiedIsBuilt, Original
<1>2. TInv /\ BuiltInv /\ [Next]_vars => BuiltInv'
  BY StepBuilt
<1> QED BY <1>1, <1>2, AlwaysTInv, PTL DEF Spec

\* verify-manifest succeeds only where the wheel and the sdist are the regular
\* files that were built, beside nothing but attestations of theirs, however often
\* the directory was changed and the build job repeated.
THEOREM OnlyTheBuilt == Spec => []VerifiedIsBuilt
<1>1. BuiltInv => VerifiedIsBuilt
  BY DEF BuiltInv
<1> QED BY <1>1, AlwaysBuilt, PTL

-----------------------------------------------------------------------------
(* Blocks and bytes.                                                       *)

LEMMA Product ==
    ASSUME NEW a \in Int, NEW b \in Int, NEW c \in Nat \ {0}
    PROVE  /\ a * c \in Int
           /\ (a + b) * c = a * c + b * c
           /\ (a - b) * c = a * c - b * c
           /\ a <= b <=> a * c <= b * c
           /\ a < b <=> a * c < b * c
<1>1. a * c \in Int /\ b * c \in Int
  OBVIOUS
<1>2. (a + b) * c = a * c + b * c
  OBVIOUS
<1>3. (a - b) * c = a * c - b * c
  OBVIOUS
<1>4. a <= b => a * c <= b * c
  OBVIOUS
<1>5. a < b => a * c < b * c
  OBVIOUS
<1> QED BY <1>1, <1>2, <1>3, <1>4, <1>5

LEMMA Quotient ==
    ASSUME NEW a \in Nat, NEW c \in Nat \ {0}
    PROVE  /\ a \div c \in Nat
           /\ (a \div c) * c <= a
           /\ a < (a \div c) * c + c
OBVIOUS

\* A whole number fits a quotient when its product fits the dividend.
LEMMA FitsQuotient ==
    ASSUME NEW a \in Nat, NEW c \in Nat \ {0}, NEW b \in Int
    PROVE  b * c <= a <=> b <= a \div c
<1> DEFINE q == a \div c
<1>1. q \in Nat /\ q * c <= a /\ a < q * c + c
  BY Quotient
<1> HIDE DEF q
<1>2. q * c \in Int /\ (q + 1) * c = q * c + 1 * c /\ 1 * c = c
  BY <1>1, Product
<1>3. b * c \in Int
  BY Product
<1>4. b <= q => b * c <= q * c
  BY <1>1, Product
<1>5. b * c < (q + 1) * c => b < q + 1
  BY <1>1, Product
<1> QED BY <1>1, <1>2, <1>3, <1>4, <1>5 DEF q

\* The padding of a payload, computed by rounding, ends where the definition that
\* compares bytes says.
LEMMA BeyondIsAfter ==
    ASSUME NEW o \in Nat \ {0}, Blocks[o].size \in Nat
    PROVE  FirstBeyond(o) = After(o, Blocks[o])
<1> DEFINE size == Blocks[o].size
           p == Padded(size)
           Right(q) == /\ (q - o - 1) * BlockSize >= size
                       /\ (q - o - 1) * BlockSize - BlockSize < size
<1> USE SdistAssumption
<1>1. size + BlockSize - 1 \in Nat /\ p = (size + BlockSize - 1) \div BlockSize
  BY DEF Padded
<1>2. /\ p \in Nat /\ p * BlockSize <= size + BlockSize - 1
      /\ size + BlockSize - 1 < p * BlockSize + BlockSize
  BY <1>1, Quotient
<1>3. size \in Nat
  OBVIOUS
<1> HIDE DEF p, size
<1>4. p * BlockSize \in Int /\ (p - 1) * BlockSize = p * BlockSize - 1 * BlockSize
  BY <1>2, Product
<1>5. p * BlockSize >= size /\ (p - 1) * BlockSize < size
  BY <1>2, <1>3, <1>4
<1>6. p <= size
  <2>1. size <= size * BlockSize
    BY <1>3
  <2>2. (p - 1) * BlockSize < size * BlockSize
    BY <1>2, <1>3, <1>4, <1>5, <2>1
  <2>3. p - 1 < size
    BY <1>2, <1>3, <2>2, Product
  <2> QED BY <1>2, <1>3, <2>3
<1>7. After(o, Blocks[o]) = o + 1 + p
  BY DEF After, p, size
<1>8. After(o, Blocks[o]) \in (o + 1) .. (o + 1 + size) /\ Right(o + 1 + p)
  BY <1>2, <1>3, <1>4, <1>5, <1>6, <1>7
<1>9. ASSUME NEW q \in (o + 1) .. (o + 1 + size), Right(q)
      PROVE  q = o + 1 + p
  <2> DEFINE r == q - o - 1
  <2>1. r \in Int /\ r * BlockSize \in Int
    BY <1>3, <1>9, Product
  <2>2. r * BlockSize >= size /\ r * BlockSize - BlockSize < size
    BY <1>9
  <2> HIDE DEF r
  <2>3. (r - 1) * BlockSize = r * BlockSize - 1 * BlockSize /\ 1 * BlockSize = BlockSize
    BY <2>1, Product
  <2>4. (r - 1) * BlockSize < p * BlockSize
    BY <1>3, <1>4, <1>5, <2>1, <2>2, <2>3
  <2>5. (p - 1) * BlockSize < r * BlockSize
    BY <1>2, <1>3, <1>4, <1>5, <2>1, <2>2
  <2>6. r - 1 < p
    BY <1>2, <2>1, <2>4, Product
  <2>7. p - 1 < r
    BY <1>2, <2>1, <2>5, Product
  <2>8. r = p
    BY <1>2, <2>1, <2>6, <2>7
  <2> QED BY <1>2, <1>3, <2>8 DEF r
<1>10. FirstBeyond(o) = CHOOSE q \in (o + 1) .. (o + 1 + size) : Right(q)
  BY DEF FirstBeyond, size
<1> HIDE DEF Right
<1> QED BY <1>7, <1>8, <1>9, <1>10

-----------------------------------------------------------------------------
(* The two functions that WellFormed computes along the stream.            *)

\* A set of numbers that is not empty has a least one.
LEMMA Least ==
    ASSUME NEW U \in SUBSET Nat, U # {}
    PROVE  \E x \in U : \A y \in U : x <= y
<1>1. IsWellFoundedOn(OpToRel(<, Nat), Nat)  BY NatLessThanWellFounded
<1>2. PICK x \in U : \A y \in U : ~ (<<y, x>> \in OpToRel(<, Nat))  BY <1>1, WFMin
<1>3. \A y \in U : ~ (y < x)  BY <1>2 DEF OpToRel
<1> QED  BY <1>3

\* The recursion of HeaderBlock has a solution: otherwise take the shortest prefix
\* without one and extend that of its predecessor.
LEMMA HeaderBlockIs ==
    ASSUME Len(Blocks) \in Nat
    PROVE  /\ HeaderBlock[0] = 1
           /\ \A k \in 1 .. Len(Blocks) : HeaderBlock[k] = FirstBeyond(HeaderBlock[k - 1])
<1> DEFINE L == Len(Blocks)
           Solves(m, g) ==
              g = [k \in 0 .. m |-> IF k = 0 THEN 1 ELSE FirstBeyond(g[k - 1])]
           Without == {m \in 0 .. L : ~ \E g : Solves(m, g)}
<1>1. \E g : Solves(L, g)
  <2> SUFFICES ASSUME Without # {} PROVE FALSE
    OBVIOUS
  <2>1. PICK m \in Without : \A n \in Without : m <= n
    <3>1. Without \in SUBSET Nat
      OBVIOUS
    <3> HIDE DEF Without
    <3> QED BY <3>1, Least
  <2>2. CASE m = 0
    <3>1. Solves(0, [k \in 0 .. 0 |-> 1])
      OBVIOUS
    <3> QED BY <2>1, <2>2, <3>1
  <2>3. CASE m # 0
    <3>1. m - 1 \in 0 .. L /\ m - 1 \notin Without
      BY <2>1, <2>3
    <3>2. PICK g : Solves(m - 1, g)
      BY <3>1
    <3> DEFINE h == [k \in 0 .. m |-> IF k = m THEN FirstBeyond(g[m - 1]) ELSE g[k]]
    <3>3. ASSUME NEW k \in 0 .. m
          PROVE  h[k] = IF k = 0 THEN 1 ELSE FirstBeyond(h[k - 1])
      <4>1. CASE k = m
        BY <2>1, <2>3, <4>1
      <4>2. CASE k # m
        <5>1. k \in 0 .. m - 1 /\ h[k] = g[k] /\ (k # 0 => h[k - 1] = g[k - 1])
          BY <2>1, <4>2
        <5>2. g[k] = IF k = 0 THEN 1 ELSE FirstBeyond(g[k - 1])
          BY <3>2, <5>1
        <5> QED BY <5>1, <5>2
      <4> QED BY <4>1, <4>2
    <3>4. Solves(m, h)
      <4>1. h = [k \in 0 .. m |-> h[k]]
        OBVIOUS
      <4> HIDE DEF h
      <4> QED BY <3>3, <4>1
    <3> QED BY <2>1, <3>4
  <2> QED BY <2>2, <2>3
<1>2. Solves(L, HeaderBlock)
  BY <1>1 DEF HeaderBlock
<1>3. \A k \in 0 .. L : HeaderBlock[k] = IF k = 0 THEN 1 ELSE FirstBeyond(HeaderBlock[k - 1])
  <2> DEFINE H == HeaderBlock
  <2> HIDE DEF H
  <2>1. H = [k \in 0 .. L |-> IF k = 0 THEN 1 ELSE FirstBeyond(H[k - 1])]
    BY <1>2 DEF H
  <2>2. \A k \in 0 .. L : H[k] = IF k = 0 THEN 1 ELSE FirstBeyond(H[k - 1])
    BY <2>1
  <2> QED BY <2>2 DEF H
<1> QED BY <1>3

LEMMA BytesIs ==
    ASSUME Len(Blocks) \in Nat
    PROVE  /\ Bytes[0] = 0
           /\ \A k \in 1 .. Len(Blocks) :
                 Bytes[k] = Bytes[k - 1] + (IF IsPax(k - 1) THEN 0 ELSE HeaderOf(k - 1).size)
<1> DEFINE L == Len(Blocks)
           More(k) == IF IsPax(k) THEN 0 ELSE HeaderOf(k).size
           Solves(m, g) == g = [k \in 0 .. m |-> IF k = 0 THEN 0 ELSE g[k - 1] + More(k - 1)]
           Without == {m \in 0 .. L : ~ \E g : Solves(m, g)}
<1>1. \E g : Solves(L, g)
  <2> SUFFICES ASSUME Without # {} PROVE FALSE
    OBVIOUS
  <2>1. PICK m \in Without : \A n \in Without : m <= n
    <3>1. Without \in SUBSET Nat
      OBVIOUS
    <3> HIDE DEF Without
    <3> QED BY <3>1, Least
  <2> HIDE DEF More
  <2>2. CASE m = 0
    <3>1. Solves(0, [k \in 0 .. 0 |-> 0])
      OBVIOUS
    <3> QED BY <2>1, <2>2, <3>1
  <2>3. CASE m # 0
    <3>1. m - 1 \in 0 .. L /\ m - 1 \notin Without
      BY <2>1, <2>3
    <3>2. PICK g : Solves(m - 1, g)
      BY <3>1
    <3> DEFINE h == [k \in 0 .. m |-> IF k = m THEN g[m - 1] + More(m - 1) ELSE g[k]]
    <3>3. ASSUME NEW k \in 0 .. m
          PROVE  h[k] = IF k = 0 THEN 0 ELSE h[k - 1] + More(k - 1)
      <4>1. CASE k = m
        BY <2>1, <2>3, <4>1
      <4>2. CASE k # m
        <5>1. k \in 0 .. m - 1 /\ h[k] = g[k] /\ (k # 0 => h[k - 1] = g[k - 1])
          BY <2>1, <4>2
        <5>2. g[k] = IF k = 0 THEN 0 ELSE g[k - 1] + More(k - 1)
          BY <3>2, <5>1
        <5> QED BY <5>1, <5>2
      <4> QED BY <4>1, <4>2
    <3>4. Solves(m, h)
      <4>1. h = [k \in 0 .. m |-> h[k]]
        OBVIOUS
      <4> HIDE DEF h
      <4> QED BY <3>3, <4>1
    <3> QED BY <2>1, <3>4
  <2> QED BY <2>2, <2>3
<1>2. Solves(L, Bytes)
  BY <1>1 DEF Bytes
<1>3. \A k \in 0 .. L : Bytes[k] = IF k = 0 THEN 0 ELSE Bytes[k - 1] + More(k - 1)
  <2> DEFINE B == Bytes
  <2> HIDE DEF B, More
  <2>1. B = [k \in 0 .. L |-> IF k = 0 THEN 0 ELSE B[k - 1] + More(k - 1)]
    BY <1>2 DEF B
  <2>2. \A k \in 0 .. L : B[k] = IF k = 0 THEN 0 ELSE B[k - 1] + More(k - 1)
    BY <2>1
  <2> QED BY <2>2 DEF B
<1> QED BY <1>3

LEMMA SameStream ==
    ASSUME sdist' = sdist
    PROVE  HeaderBlock' = HeaderBlock /\ Bytes' = Bytes /\ Blocks' = Blocks
<1>1. Blocks' = Blocks
  BY DEF Blocks
<1>2. HeaderBlock' = HeaderBlock
  BY <1>1 DEF HeaderBlock, FirstBeyond
<1>3. Bytes' = Bytes
  BY <1>1, <1>2 DEF Bytes, HeaderOf, IsPax
<1> QED BY <1>1, <1>2, <1>3

-----------------------------------------------------------------------------
(* What the raw scan knows after n headers.                                *)

\* It stands at block o after n proper headers, with path p pending and t bytes of
\* members.
Read(n, o, p, t) ==
    /\ n \in 0 .. Len(Blocks) /\ o = HeaderBlock[n] /\ o \in n + 1 .. Len(Blocks) + 1
    /\ \A k \in 0 .. n - 1 :
          /\ HeaderBlock[k] \in 1 .. Len(Blocks) /\ HeaderOf(k) \in Headers
          /\ ProperHeader(k)
          /\ IsPax(k) => Safe(HeaderOf(k).path) /\ (k + 1 < n => ~IsPax(k + 1))
          /\ ~IsPax(k) => ProperMember(k)
    /\ p = IF n > 0 /\ IsPax(n - 1) THEN HeaderOf(n - 1).path ELSE NoPath
    /\ t = Bytes[n] /\ \A k \in 0 .. n : Bytes[k] \in 0 .. t

\* The names it has collected, none twice.
Collected(own, pk, rk, pf, rf) ==
    /\ pk = {Key(NameOf(k)) : k \in own}
    /\ rk = {Key(HeaderOf(k).name) : k \in own}
    /\ pf = {Key(NameOf(k)) : k \in {q \in own : IsFile(HeaderOf(q).type)}}
    /\ rf = {Key(HeaderOf(k).name) : k \in {q \in own : IsFile(HeaderOf(q).type)}}
    /\ \A k, q \in own : k # q =>
          /\ Key(NameOf(k)) # Key(NameOf(q))
          /\ Key(HeaderOf(k).name) # Key(HeaderOf(q).name)

\* The list r of members: member i is that of header at[i], and the sizes add up.
Listing(n, at, r) ==
    /\ IsFiniteSet(Own(n)) /\ Cardinality(Own(n)) = Len(r)
    /\ at \in [1 .. Len(r) + 1 -> 0 .. n] /\ at[Len(r) + 1] = n
    /\ \A i \in 1 .. Len(r) :
          /\ at[i] \in Own(n)
          /\ r[i].name = NameOf(at[i]) /\ r[i].header = HeaderOf(at[i])
          /\ r[i].announced <=> Announced(at[i])
    /\ \A i, j \in 1 .. Len(r) : i # j => at[i] # at[j]
    /\ \A k \in Own(n) : \E i \in 1 .. Len(r) : at[i] = k
    /\ Bytes[at[1]] = 0
    /\ \A i \in 1 .. Len(r) : Bytes[at[i + 1]] = Bytes[at[i]] + HeaderOf(at[i]).size

\* They are about the file, so they stay true while the file is the same.
LEMMA SameHeaders ==
    ASSUME sdist' = sdist
    PROVE  /\ Blocks' = Blocks /\ HeaderBlock' = HeaderBlock /\ Bytes' = Bytes
           /\ \A k : HeaderOf(k)' = HeaderOf(k)
           /\ \A k : IsPax(k)' = IsPax(k)
           /\ \A k : Announced(k)' = Announced(k)
           /\ \A k : NameOf(k)' = NameOf(k)
           /\ \A n : Own(n)' = Own(n)
<1>1. HeaderBlock' = HeaderBlock /\ Bytes' = Bytes /\ Blocks' = Blocks
  BY SameStream
<1>2. \A k : HeaderOf(k)' = HeaderOf(k)
  BY <1>1 DEF HeaderOf
<1>3. \A k : IsPax(k)' = IsPax(k)
  BY <1>2 DEF IsPax
<1>4. \A k : Announced(k)' = Announced(k)
  BY <1>3 DEF Announced
<1>5. \A k : NameOf(k)' = NameOf(k)
  BY <1>2, <1>4 DEF NameOf
<1>6. \A n : Own(n)' = Own(n)
  BY <1>3 DEF Own
<1> QED BY <1>1, <1>2, <1>3, <1>4, <1>5, <1>6

LEMMA SameRead ==
    ASSUME sdist' = sdist, NEW n
    PROVE  Read(n, offset, pending, rawTotal)' <=> Read(n, offset', pending', rawTotal')
<1>1. \A k : ProperHeader(k)' <=> ProperHeader(k)
  BY SameHeaders DEF ProperHeader
<1>2. \A k : ProperMember(k)' <=> ProperMember(k)
  BY SameHeaders DEF ProperMember
<1> QED BY <1>1, <1>2, SameHeaders DEF Read

LEMMA SameCollected ==
    ASSUME sdist' = sdist, NEW n
    PROVE  Collected(Own(n), pathKeys, rawKeys, pathFiles, rawFiles)' <=>
           Collected(Own(n), pathKeys', rawKeys', pathFiles', rawFiles')
BY SameHeaders DEF Collected

LEMMA SameListing ==
    ASSUME sdist' = sdist, NEW n, NEW at
    PROVE  Listing(n, at, raw)' <=> Listing(n, at, raw')
<1>1. Own(n)' = Own(n) /\ Bytes' = Bytes
  BY SameHeaders
<1>2. \A k : HeaderOf(k)' = HeaderOf(k) /\ NameOf(k)' = NameOf(k) /\ Announced(k)' = Announced(k)
  BY SameHeaders
<1> QED BY <1>1, <1>2, Zenon DEF Listing

LEMMA SameVerdict ==
    ASSUME sdist' = sdist
    PROVE  WellFormed' <=> WellFormed
<1>1. FileSound' <=> FileSound
  BY SameHeaders DEF FileSound
<1>2. \A n : EndsAfter(n)' <=> EndsAfter(n)
  BY SameHeaders DEF EndsAfter
<1>3. \A k : ProperHeader(k)' <=> ProperHeader(k)
  BY SameHeaders DEF ProperHeader
<1>4. \A k, n : ProperPax(k, n)' <=> ProperPax(k, n)
  BY SameHeaders DEF ProperPax
<1>5. \A k : ProperMember(k)' <=> ProperMember(k)
  BY SameHeaders DEF ProperMember
<1>6. \A k : IsMetadata(k)' <=> IsMetadata(k)
  BY SameHeaders DEF IsMetadata
<1>7. \A n : StreamSound(n)' <=> StreamSound(n)
  BY <1>2, <1>3, <1>4, <1>5, <1>6, SameHeaders DEF StreamSound
<1> QED BY <1>1, <1>7, SameHeaders DEF WellFormed

LEMMA BlocksType ==
    ASSUME IsSdist(sdist)
    PROVE  /\ Len(Blocks) \in Nat
           /\ \A o \in 1 .. Len(Blocks) : Blocks[o] \in {Zero, Data} \cup Headers
           /\ \A o \in 1 .. Len(Blocks) : Blocks[o].kind = "header" => Blocks[o] \in Headers
<1>1. Blocks \in Seq({Zero, Data} \cup Headers)
  BY DEF IsSdist, Blocks
<1>2. Len(Blocks) \in Nat /\ \A o \in 1 .. Len(Blocks) : Blocks[o] \in {Zero, Data} \cup Headers
  BY <1>1
<1>3. Zero.kind # "header" /\ Data.kind # "header"
  BY DEF Zero, Data
<1> QED BY <1>2, <1>3

\* One header on.
LEMMA OneHeaderOn ==
    ASSUME IsSdist(sdist), NEW n, NEW o, NEW p, NEW t, Read(n, o, p, t),
           o <= Len(Blocks), Blocks[o] \in Headers, After(o, Blocks[o]) <= Len(Blocks) + 1
    PROVE  /\ n \in Nat /\ n + 1 \in 0 .. Len(Blocks) /\ (n + 1) - 1 = n
           /\ HeaderOf(n) = Blocks[o] /\ HeaderBlock[n] \in 1 .. Len(Blocks)
           /\ HeaderBlock[n + 1] = After(o, Blocks[o])
           /\ After(o, Blocks[o]) \in (n + 1) + 1 .. Len(Blocks) + 1
           /\ Bytes[n + 1] = t + (IF IsPax(n) THEN 0 ELSE Blocks[o].size)
           /\ Blocks[o].size \in Nat
           /\ \A k \in 0 .. (n + 1) - 1 : k = n \/ k \in 0 .. n - 1
           /\ \A k \in 0 .. n + 1 : k = n + 1 \/ k \in 0 .. n
<1>1. Len(Blocks) \in Nat
  BY BlocksType
<1>2. n \in 0 .. Len(Blocks) /\ o = HeaderBlock[n] /\ o \in n + 1 .. Len(Blocks) + 1 /\ t = Bytes[n]
  BY DEF Read
<1>3. n \in Nat /\ n + 1 \in 1 .. Len(Blocks) /\ (n + 1) - 1 = n /\ o \in Nat \ {0}
  BY <1>1, <1>2
<1>4. Blocks[o].size \in Nat /\ Padded(Blocks[o].size) \in Nat
  BY PaddedType DEF Headers
<1>5. HeaderBlock[n + 1] = FirstBeyond(HeaderBlock[n])
  BY <1>1, <1>3, HeaderBlockIs
<1>6. HeaderBlock[n + 1] = After(o, Blocks[o])
  BY <1>2, <1>3, <1>4, <1>5, BeyondIsAfter
<1>7. After(o, Blocks[o]) \in (n + 1) + 1 .. Len(Blocks) + 1
  BY <1>1, <1>2, <1>3, <1>4 DEF After
<1>8. HeaderOf(n) = Blocks[o]
  BY <1>2 DEF HeaderOf
<1>9. Bytes[n + 1] = Bytes[n] + (IF IsPax(n) THEN 0 ELSE HeaderOf(n).size)
  BY <1>1, <1>3, BytesIs
<1> QED BY <1>1, <1>2, <1>3, <1>4, <1>6, <1>7, <1>8, <1>9

LEMMA OwnNext ==
    ASSUME NEW n \in Nat
    PROVE  /\ IsPax(n) => Own(n + 1) = Own(n)
           /\ ~IsPax(n) => Own(n + 1) = Own(n) \cup {n}
           /\ n \notin Own(n) /\ \A k \in Own(n) : k \in 0 .. n - 1 /\ ~IsPax(k)
           /\ Own(0) = {}
<1>1. 0 .. (n + 1) - 1 = (0 .. n - 1) \cup {n} /\ n \notin 0 .. n - 1 /\ 0 .. 0 - 1 = {}
  OBVIOUS
<1> QED BY <1>1 DEF Own

\* A header that announces a path.
LEMMA ReadPax ==
    ASSUME IsSdist(sdist), NEW n, NEW o, NEW t, Read(n, o, NoPath, t),
           o <= Len(Blocks), Blocks[o] \in Headers, After(o, Blocks[o]) <= Len(Blocks) + 1,
           Blocks[o].size <= MaxMember, Blocks[o].proper, Blocks[o].type = "pax",
           Safe(Blocks[o].path)
    PROVE  Read(n + 1, After(o, Blocks[o]), Blocks[o].path, t)
<1> DEFINE h == Blocks[o]
<1>1. /\ n \in Nat /\ n + 1 \in 0 .. Len(Blocks) /\ (n + 1) - 1 = n
      /\ HeaderOf(n) = h /\ HeaderBlock[n] \in 1 .. Len(Blocks)
      /\ HeaderBlock[n + 1] = After(o, h)
      /\ After(o, h) \in (n + 1) + 1 .. Len(Blocks) + 1
      /\ Bytes[n + 1] = t + (IF IsPax(n) THEN 0 ELSE h.size)
      /\ \A k \in 0 .. (n + 1) - 1 : k = n \/ k \in 0 .. n - 1
      /\ \A k \in 0 .. n + 1 : k = n + 1 \/ k \in 0 .. n
  BY OneHeaderOn
<1>2. IsPax(n) /\ n + 1 > 0
  BY <1>1 DEF IsPax
<1>3. t \in Nat /\ Bytes[n + 1] = t /\ t = Bytes[n] /\ \A k \in 0 .. n : Bytes[k] \in 0 .. t
  <2>1. t = Bytes[n] /\ (\A k \in 0 .. n : Bytes[k] \in 0 .. t) /\ n \in 0 .. n
    BY <1>1 DEF Read
  <2>2. t \in Nat
    BY <2>1
  <2> QED BY <1>1, <1>2, <2>1, <2>2
<1>4. \A k \in 0 .. n + 1 : Bytes[k] \in 0 .. t
  BY <1>1, <1>3
<1>5. \A k \in 0 .. n - 1 : IsPax(k) => k + 1 < n
  <2> SUFFICES ASSUME NEW k \in 0 .. n - 1, IsPax(k), ~(k + 1 < n) PROVE FALSE
    OBVIOUS
  <2>1. k = n - 1 /\ n > 0
    BY <1>1
  <2>2. HeaderOf(k).path = NoPath /\ Safe(HeaderOf(k).path)
    BY <2>1 DEF Read
  <2> QED BY <2>2 DEF Safe, NoPath
<1>6. ProperHeader(n)
  BY <1>1 DEF ProperHeader
<1>7. \A k \in 0 .. (n + 1) - 1 :
          /\ HeaderBlock[k] \in 1 .. Len(Blocks) /\ HeaderOf(k) \in Headers
          /\ ProperHeader(k)
          /\ IsPax(k) => Safe(HeaderOf(k).path) /\ (k + 1 < n + 1 => ~IsPax(k + 1))
          /\ ~IsPax(k) => ProperMember(k)
  <2> TAKE k \in 0 .. (n + 1) - 1
  <2>1. CASE k = n
    BY <1>1, <1>2, <1>6, <2>1
  <2>2. CASE k \in 0 .. n - 1
    BY <1>5, <2>2 DEF Read
  <2> QED BY <1>1, <2>1, <2>2
<1> QED BY <1>1, <1>2, <1>3, <1>4, <1>7 DEF Read

\* A header of a member.
LEMMA ReadMember ==
    ASSUME IsSdist(sdist), NEW n, NEW o, NEW p, NEW t, Read(n, o, p, t),
           o <= Len(Blocks), Blocks[o] \in Headers, After(o, Blocks[o]) <= Len(Blocks) + 1,
           Blocks[o].size <= MaxMember, Blocks[o].proper,
           Blocks[o].type \in {"old", "file", "dir"},
           Blocks[o].type = "dir" => Blocks[o].size = 0,
           Safe(Blocks[o].name), Safe(IF p = NoPath THEN Blocks[o].name ELSE p),
           p \notin {NoPath, Blocks[o].name} => Blocks[o].cut
    PROVE  /\ Read(n + 1, After(o, Blocks[o]), NoPath, t + Blocks[o].size)
           /\ NameOf(n) = (IF p = NoPath THEN Blocks[o].name ELSE p)
           /\ Announced(n) <=> p # NoPath
<1> DEFINE h == Blocks[o]
<1>1. /\ n \in Nat /\ n + 1 \in 0 .. Len(Blocks) /\ (n + 1) - 1 = n
      /\ HeaderOf(n) = h /\ HeaderBlock[n] \in 1 .. Len(Blocks)
      /\ HeaderBlock[n + 1] = After(o, h) /\ h.size \in Nat
      /\ After(o, h) \in (n + 1) + 1 .. Len(Blocks) + 1
      /\ Bytes[n + 1] = t + (IF IsPax(n) THEN 0 ELSE h.size)
      /\ \A k \in 0 .. (n + 1) - 1 : k = n \/ k \in 0 .. n - 1
      /\ \A k \in 0 .. n + 1 : k = n + 1 \/ k \in 0 .. n
  BY OneHeaderOn
<1>2. ~IsPax(n)
  BY <1>1 DEF IsPax
<1>3. /\ NameOf(n) = (IF p = NoPath THEN h.name ELSE p)
      /\ Announced(n) <=> p # NoPath
  <2>1. p = IF n > 0 /\ IsPax(n - 1) THEN HeaderOf(n - 1).path ELSE NoPath
    BY DEF Read
  <2>2. CASE n > 0 /\ IsPax(n - 1)
    <3>1. n - 1 \in 0 .. n - 1
      BY <1>1, <2>2
    <3>2. Safe(HeaderOf(n - 1).path)
      BY <2>2, <3>1 DEF Read
    <3>3. p # NoPath
      BY <2>1, <2>2, <3>2 DEF Safe, NoPath
    <3> QED BY <2>1, <2>2, <3>3 DEF NameOf, Announced
  <2>3. CASE ~(n > 0 /\ IsPax(n - 1))
    BY <1>1, <2>1, <2>3 DEF NameOf, Announced
  <2> QED BY <2>2, <2>3
<1>4. ProperHeader(n) /\ ProperMember(n)
  BY <1>1, <1>3 DEF ProperHeader, ProperMember
<1>5. \A k \in 0 .. n + 1 : Bytes[k] \in 0 .. t + h.size
  <2>1. t = Bytes[n] /\ (\A k \in 0 .. n : Bytes[k] \in 0 .. t) /\ n \in 0 .. n
    BY <1>1 DEF Read
  <2>2. t \in Nat /\ h.size \in Nat
    BY <1>1, <2>1
  <2>3. Bytes[n + 1] = t + h.size
    BY <1>1, <1>2
  <2> HIDE DEF h
  <2>4. Bytes[n + 1] \in 0 .. t + h.size /\ \A k \in 0 .. n : Bytes[k] \in 0 .. t + h.size
    BY <2>1, <2>2, <2>3
  <2> QED BY <1>1, <2>4
<1>6. \A k \in 0 .. (n + 1) - 1 :
          /\ HeaderBlock[k] \in 1 .. Len(Blocks) /\ HeaderOf(k) \in Headers
          /\ ProperHeader(k)
          /\ IsPax(k) => Safe(HeaderOf(k).path) /\ (k + 1 < n + 1 => ~IsPax(k + 1))
          /\ ~IsPax(k) => ProperMember(k)
  <2> TAKE k \in 0 .. (n + 1) - 1
  <2>1. CASE k = n
    BY <1>1, <1>2, <1>4, <2>1
  <2>2. CASE k \in 0 .. n - 1
    <3>1. k + 1 < n + 1 => k + 1 < n \/ k + 1 = n
      BY <1>1, <2>2
    <3> QED BY <1>2, <2>2, <3>1 DEF Read
  <2> QED BY <1>1, <2>1, <2>2
<1>7. Bytes[n + 1] = t + h.size
  BY <1>1, <1>2
<1>8. NoPath = IF n + 1 > 0 /\ IsPax((n + 1) - 1) THEN HeaderOf((n + 1) - 1).path ELSE NoPath
  BY <1>1, <1>2
<1> QED BY <1>1, <1>3, <1>5, <1>6, <1>7, <1>8 DEF Read

\* A new member's names are collected.
LEMMA CollectMember ==
    ASSUME NEW n, NEW own, NEW pk, NEW rk, NEW pf, NEW rf, Collected(own, pk, rk, pf, rf),
           n \notin own, Key(NameOf(n)) \notin pk, Key(HeaderOf(n).name) \notin rk
    PROVE  Collected(own \cup {n}, pk \cup {Key(NameOf(n))}, rk \cup {Key(HeaderOf(n).name)},
                     pf \cup (IF IsFile(HeaderOf(n).type) THEN {Key(NameOf(n))} ELSE {}),
                     rf \cup (IF IsFile(HeaderOf(n).type) THEN {Key(HeaderOf(n).name)} ELSE {}))
<1>1. \A k \in own : Key(NameOf(k)) \in pk /\ Key(HeaderOf(k).name) \in rk
  BY DEF Collected
<1>2. \A k, q \in own \cup {n} : k # q =>
          /\ Key(NameOf(k)) # Key(NameOf(q))
          /\ Key(HeaderOf(k).name) # Key(HeaderOf(q).name)
  BY <1>1 DEF Collected
<1>3. /\ pk \cup {Key(NameOf(n))} = {Key(NameOf(k)) : k \in own \cup {n}}
      /\ rk \cup {Key(HeaderOf(n).name)} = {Key(HeaderOf(k).name) : k \in own \cup {n}}
  BY DEF Collected
<1>4. CASE IsFile(HeaderOf(n).type)
  <2>1. {q \in own \cup {n} : IsFile(HeaderOf(q).type)} =
          {q \in own : IsFile(HeaderOf(q).type)} \cup {n}
    BY <1>4
  <2> QED BY <1>2, <1>3, <1>4, <2>1 DEF Collected
<1>5. CASE ~IsFile(HeaderOf(n).type)
  <2>1. {q \in own \cup {n} : IsFile(HeaderOf(q).type)} =
          {q \in own : IsFile(HeaderOf(q).type)}
    BY <1>5
  <2> QED BY <1>2, <1>3, <1>5, <2>1 DEF Collected
<1> QED BY <1>4, <1>5

\* The list is the same after a PAX header, but ends one header later.
LEMMA ListPax ==
    ASSUME NEW n \in Nat, NEW at, NEW r \in Seq(RawMember), Listing(n, at, r),
           IsPax(n), Bytes[n + 1] = Bytes[n]
    PROVE  \E to : Listing(n + 1, to, r)
<1> DEFINE m == Len(r)
           to == [at EXCEPT ![m + 1] = n + 1]
<1>1. m \in Nat /\ Own(n + 1) = Own(n)
  BY OwnNext
<1>2. at \in [1 .. m + 1 -> 0 .. n] /\ at[m + 1] = n
  BY DEF Listing
<1>3. /\ to \in [1 .. m + 1 -> 0 .. n + 1] /\ to[m + 1] = n + 1
      /\ \A i \in 1 .. m : to[i] = at[i]
      /\ Bytes[to[m + 1]] = Bytes[at[m + 1]]
  BY <1>1, <1>2
<1>4. \A i \in 1 .. m + 1 : Bytes[to[i]] = Bytes[at[i]]
  BY <1>1, <1>3
<1> HIDE DEF to
<1>5. Bytes[to[1]] = 0
  BY <1>1, <1>4 DEF Listing
<1>6. \A i \in 1 .. m : Bytes[to[i + 1]] = Bytes[to[i]] + HeaderOf(to[i]).size
  <2> SUFFICES ASSUME NEW i \in 1 .. m
               PROVE  Bytes[to[i + 1]] = Bytes[to[i]] + HeaderOf(to[i]).size
    OBVIOUS
  <2>1. i \in 1 .. m + 1 /\ i + 1 \in 1 .. m + 1
    BY <1>1
  <2> QED BY <1>3, <1>4, <2>1 DEF Listing
<1>7. \A i, j \in 1 .. m : i # j => to[i] # to[j]
  BY <1>3 DEF Listing
<1>8. \A i \in 1 .. m :
          /\ to[i] \in Own(n + 1)
          /\ r[i].name = NameOf(to[i]) /\ r[i].header = HeaderOf(to[i])
          /\ r[i].announced <=> Announced(to[i])
  BY <1>1, <1>3 DEF Listing
<1>9. \A k \in Own(n + 1) : \E i \in 1 .. m : to[i] = k
  BY <1>1, <1>3 DEF Listing
<1>10. IsFiniteSet(Own(n + 1)) /\ Cardinality(Own(n + 1)) = m
  BY <1>1 DEF Listing
<1> QED BY <1>3, <1>5, <1>6, <1>7, <1>8, <1>9, <1>10 DEF Listing

\* A header of a member puts it at the end of the list.
LEMMA ListMember ==
    ASSUME NEW n \in Nat, NEW at, NEW r \in Seq(RawMember), Listing(n, at, r),
           NEW e \in RawMember, ~IsPax(n), Bytes[n + 1] = Bytes[n] + HeaderOf(n).size,
           e.name = NameOf(n), e.header = HeaderOf(n), e.announced <=> Announced(n)
    PROVE  \E to : Listing(n + 1, to, Append(r, e))
<1> DEFINE m == Len(r)
           to == [i \in 1 .. (m + 1) + 1 |-> IF i <= m + 1 THEN at[i] ELSE n + 1]
           s == Append(r, e)
<1>1. /\ m \in Nat /\ Own(n + 1) = Own(n) \cup {n} /\ n \notin Own(n)
      /\ \A k \in Own(n) : k \in 0 .. n - 1
  BY OwnNext
<1>2. Len(s) = m + 1 /\ s[m + 1] = e /\ \A i \in 1 .. m : s[i] = r[i]
  OBVIOUS
<1>3. at \in [1 .. m + 1 -> 0 .. n] /\ at[m + 1] = n
  BY DEF Listing
<1>4. /\ to \in [1 .. (m + 1) + 1 -> 0 .. n + 1] /\ to[(m + 1) + 1] = n + 1
      /\ \A i \in 1 .. m + 1 : to[i] = at[i]
      /\ to[m + 1] = n
  BY <1>1, <1>3
<1>5. \A i \in 1 .. m + 1 : i \in 1 .. m \/ i = m + 1
  BY <1>1
<1> HIDE DEF to, s
<1>6. Bytes[to[1]] = 0
  BY <1>1, <1>4 DEF Listing
<1>7. \A i \in 1 .. m + 1 : Bytes[to[i + 1]] = Bytes[to[i]] + HeaderOf(to[i]).size
  <2> SUFFICES ASSUME NEW i \in 1 .. m + 1
               PROVE  Bytes[to[i + 1]] = Bytes[to[i]] + HeaderOf(to[i]).size
    OBVIOUS
  <2>1. CASE i = m + 1
    BY <1>4, <2>1
  <2>2. CASE i \in 1 .. m
    <3>1. i \in 1 .. m + 1 /\ i + 1 \in 1 .. m + 1
      BY <1>1, <2>2
    <3> QED BY <1>4, <2>2, <3>1 DEF Listing
  <2> QED BY <1>5, <2>1, <2>2
<1>8. \A i \in 1 .. m : to[i] \in Own(n) /\ to[i] # n
  BY <1>1, <1>4 DEF Listing
<1>9. \A i, j \in 1 .. m + 1 : i # j => to[i] # to[j]
  <2> SUFFICES ASSUME NEW i \in 1 .. m + 1, NEW j \in 1 .. m + 1, i # j PROVE to[i] # to[j]
    OBVIOUS
  <2>1. CASE i = m + 1 \/ j = m + 1
    BY <1>4, <1>5, <1>8, <2>1
  <2>2. CASE i \in 1 .. m /\ j \in 1 .. m
    BY <1>4, <2>2 DEF Listing
  <2> QED BY <1>5, <2>1, <2>2
<1>10. \A i \in 1 .. m + 1 :
          /\ to[i] \in Own(n + 1)
          /\ s[i].name = NameOf(to[i]) /\ s[i].header = HeaderOf(to[i])
          /\ s[i].announced <=> Announced(to[i])
  <2> TAKE i \in 1 .. m + 1
  <2>1. CASE i = m + 1
    BY <1>1, <1>2, <1>4, <2>1
  <2>2. CASE i \in 1 .. m
    BY <1>1, <1>2, <1>4, <2>2 DEF Listing
  <2> QED BY <1>5, <2>1, <2>2
<1>11. \A k \in Own(n + 1) : \E i \in 1 .. m + 1 : to[i] = k
  <2> SUFFICES ASSUME NEW k \in Own(n + 1) PROVE \E i \in 1 .. m + 1 : to[i] = k
    OBVIOUS
  <2>1. CASE k = n
    BY <1>1, <1>4, <2>1
  <2>2. CASE k \in Own(n)
    BY <1>1, <1>4, <2>2 DEF Listing
  <2> QED BY <1>1, <2>1, <2>2
<1>12. IsFiniteSet(Own(n + 1)) /\ Cardinality(Own(n + 1)) = m + 1
  <2>1. IsFiniteSet(Own(n)) /\ Cardinality(Own(n)) = m
    BY DEF Listing
  <2>2. Cardinality(Own(n) \cup {n}) = Cardinality(Own(n)) + 1 /\ IsFiniteSet(Own(n) \cup {n})
    BY <1>1, <2>1, FS_AddElement, Zenon
  <2> QED BY <1>1, <2>1, <2>2
<1>13. Listing(n + 1, to, s)
  BY <1>2, <1>4, <1>6, <1>7, <1>9, <1>10, <1>11, <1>12 DEF Listing
<1> QED BY <1>13 DEF s

LEMMA ListNothing ==
    ASSUME IsSdist(sdist)
    PROVE  /\ Len(Blocks) >= 1 => Read(0, 1, NoPath, 0)
           /\ Collected(Own(0), {}, {}, {}, {}) /\ Listing(0, [i \in 1 .. 1 |-> 0], <<>>)
<1>1. Len(Blocks) \in Nat /\ HeaderBlock[0] = 1 /\ Bytes[0] = 0 /\ Own(0) = {}
  BY BlocksType, HeaderBlockIs, BytesIs, OwnNext
<1>2. Len(Blocks) >= 1 => Read(0, 1, NoPath, 0)
  BY <1>1 DEF Read
<1>3. Collected(Own(0), {}, {}, {}, {})
  BY <1>1 DEF Collected
<1>4. Listing(0, [i \in 1 .. 1 |-> 0], <<>>)
  <2>1. IsFiniteSet(Own(0)) /\ Cardinality(Own(0)) = 0
    BY <1>1, FS_EmptySet
  <2>2. Len(<<>>) = 0 /\ 1 .. Len(<<>>) = {} /\ 0 \in 0 .. 0
    OBVIOUS
  <2> DEFINE at == [i \in 1 .. 1 |-> 0]
  <2>3. at \in [1 .. Len(<<>>) + 1 -> 0 .. 0] /\ at[Len(<<>>) + 1] = 0 /\ at[1] = 0
    BY <2>2
  <2> HIDE DEF at
  <2> QED BY <1>1, <2>1, <2>2, <2>3 DEF Listing
<1> QED BY <1>2, <1>3, <1>4

\* A scan within a stream of m headers has not read more than m, and either stands
\* at its end or at a header whose payload it has room for.
LEMMA Shorter ==
    ASSUME IsSdist(sdist), NEW n, NEW o, NEW p, NEW t, Read(n, o, p, t),
           NEW m \in 1 .. Len(Blocks), EndsAfter(m)
    PROVE  \/ n = m /\ o < Len(Blocks) /\ \A q \in o .. Len(Blocks) : Blocks[q] = Zero
           \/ /\ n < m /\ n \in 0 .. m - 1 /\ o \in 1 .. Len(Blocks) /\ Blocks[o] \in Headers
              /\ HeaderOf(n) = Blocks[o] /\ After(o, Blocks[o]) <= Len(Blocks) + 1
<1>1. /\ Len(Blocks) \in Nat /\ m \in Nat /\ n \in 0 .. Len(Blocks) /\ o = HeaderBlock[n]
      /\ o \in n + 1 .. Len(Blocks) + 1
      /\ \A k \in 0 .. n - 1 : HeaderOf(k) \in Headers
  BY BlocksType DEF Read
<1>2. /\ \A k \in 0 .. m - 1 : HeaderBlock[k] <= Len(Blocks) /\ HeaderOf(k).kind = "header"
      /\ HeaderBlock[m] < Len(Blocks)
      /\ \A q \in HeaderBlock[m] .. Len(Blocks) : Blocks[q] = Zero
  BY DEF EndsAfter
<1>3. CASE n = m
  BY <1>1, <1>2, <1>3
<1>4. CASE n < m
  <2>1. n \in 0 .. m - 1 /\ o \in 1 .. Len(Blocks) /\ HeaderOf(n) = Blocks[o]
    BY <1>1, <1>2, <1>4 DEF HeaderOf
  <2>2. Blocks[o] \in Headers
    BY <1>2, <2>1, BlocksType
  <2>3. Blocks[o].size \in Nat
    BY <2>2 DEF Headers
  <2>4. n + 1 \in 1 .. Len(Blocks) /\ (n + 1) - 1 = n
    BY <1>1, <1>4
  <2>5. HeaderBlock[n + 1] = After(o, Blocks[o])
    BY <1>1, <2>1, <2>3, <2>4, HeaderBlockIs, BeyondIsAfter
  <2>6. After(o, Blocks[o]) \in Nat
    BY <2>1, <2>2, AfterType
  <2>7. CASE n + 1 = m
    BY <1>1, <1>2, <1>4, <2>1, <2>2, <2>5, <2>6, <2>7
  <2>8. CASE n + 1 # m
    <3>1. n + 1 \in 0 .. m - 1
      BY <1>1, <1>4, <2>8
    <3> QED BY <1>1, <1>2, <1>4, <2>1, <2>2, <2>5, <2>6, <3>1
  <2> QED BY <2>7, <2>8
<1>5. CASE n > m
  <2>1. m \in 0 .. n - 1 /\ HeaderOf(m).kind = "header"
    BY <1>1, <1>5 DEF Headers
  <2>2. HeaderBlock[m] \in 1 .. Len(Blocks)
    BY <2>1 DEF Read
  <2>3. HeaderOf(m) = Zero
    BY <1>1, <1>2, <2>2 DEF HeaderOf
  <2> QED BY <2>1, <2>3 DEF Zero
<1> QED BY <1>1, <1>3, <1>4, <1>5

-----------------------------------------------------------------------------
(* The scan comes to the verdict of WellFormed.                            *)

\* The loop over the members, in terms of the headers they come from.
Walked(at) ==
    /\ total = Bytes[at[place]]
    /\ found = {i \in 1 .. place - 1 : IsMetadata(at[i])}
    /\ \A i \in 1 .. Len(raw) :
          ~(HeaderOf(at[i]).type = "old" /\ HeaderOf(at[i]).name.slash)
    /\ \A i \in 1 .. place - 1 : Head(NameOf(at[i]).parts) = SdistRules.root

SdistInv ==
    /\ spc \in {"scan", "bind", "members"} =>
          /\ FileSound /\ Len(raw) <= MaxMembers
          /\ spc # "scan" => EndsHere /\ Topology
          /\ \E n \in 0 .. Len(Blocks) : \E at \in [1 .. Len(raw) + 1 -> 0 .. n] :
                /\ Read(n, offset, pending, rawTotal)
                /\ Collected(Own(n), pathKeys, rawKeys, pathFiles, rawFiles)
                /\ Listing(n, at, raw)
                /\ spc = "members" => Walked(at)
    /\ SdistVerdictIsExact

LEMMA GoesOn ==
    ASSUME sdist' = sdist, FileSound, spc' \in {"scan", "bind", "members"},
           Len(raw') <= MaxMembers,
           spc' # "scan" => EndsHere' /\ Topology',
           NEW n, NEW at,
           Read(n, offset', pending', rawTotal'),
           Collected(Own(n), pathKeys', rawKeys', pathFiles', rawFiles'),
           Listing(n, at, raw'),
           spc' = "members" => Walked(at)'
    PROVE  SdistInv'
<1>1. FileSound' /\ Len(raw)' <= MaxMembers
  BY SameHeaders DEF FileSound
<1>2. n \in 0 .. Len(Blocks)' /\ at \in [1 .. Len(raw') + 1 -> 0 .. n]
  BY SameHeaders DEF Read, Listing
<1>3. /\ Read(n, offset, pending, rawTotal)'
      /\ Collected(Own(n), pathKeys, rawKeys, pathFiles, rawFiles)'
      /\ Listing(n, at, raw)'
  BY SameRead, SameCollected, SameListing
<1>4. SdistVerdictIsExact'
  BY DEF SdistVerdictIsExact
<1> QED BY <1>1, <1>2, <1>3, <1>4 DEF SdistInv

LEMMA Ends ==
    ASSUME sdist' = sdist, \/ spc' = "accepted" /\ WellFormed
                           \/ spc' = "rejected" /\ ~WellFormed
    PROVE  SdistInv'
BY SameVerdict DEF SdistInv, SdistVerdictIsExact

\* The two ways to limit the size of the stream.
LEMMA RoomIsRoom ==
    ASSUME IsSdist(sdist)
    PROVE  Len(Blocks) * BlockSize <= MaxTotal + (MaxMembers + 2) * BlockSize <=>
           Len(Blocks) <= MaxTotal \div BlockSize + MaxMembers + 2
<1> USE MembersAssumption, SdistAssumption
<1> DEFINE room == MaxMembers + 2
           l == Len(Blocks)
<1>1. l \in Nat /\ room \in Nat /\ MaxTotal \div BlockSize \in Nat
  BY BlocksType, Quotient
<1>2. MaxTotal \div BlockSize + MaxMembers + 2 = MaxTotal \div BlockSize + room
  BY <1>1
<1> HIDE DEF room, l
<1>3. (l - room) * BlockSize = l * BlockSize - room * BlockSize
  BY <1>1, Product
<1>4. (l - room) * BlockSize <= MaxTotal <=> l - room <= MaxTotal \div BlockSize
  BY <1>1, FitsQuotient
<1>5. l * BlockSize \in Int /\ room * BlockSize \in Int
  BY <1>1, Product
<1>6. l * BlockSize <= MaxTotal + room * BlockSize <=> l <= MaxTotal \div BlockSize + room
  BY <1>1, <1>3, <1>4, <1>5
<1> QED BY <1>2, <1>6 DEF room, l

LEMMA InvOpen ==
    ASSUME TInv, SdistInv, SdistOpen
    PROVE  SdistInv'
<1>1. sdist' = sdist /\ IsSdist(sdist) /\ Len(Blocks) \in Nat
  BY BlocksType DEF SdistOpen, TInv
<1>2. CASE spc' = "scan"
  <2>1. FileSound /\ Len(Blocks) >= 2
    BY <1>1, <1>2, RoomIsRoom DEF SdistOpen, FileSound
  <2>2. /\ offset' = 1 /\ pending' = NoPath /\ raw' = <<>> /\ rawTotal' = 0
        /\ rawKeys' = {} /\ rawFiles' = {} /\ pathKeys' = {} /\ pathFiles' = {}
    BY DEF SdistOpen
  <2>3. /\ Read(0, offset', pending', rawTotal')
        /\ Collected(Own(0), pathKeys', rawKeys', pathFiles', rawFiles')
        /\ Listing(0, [i \in 1 .. 1 |-> 0], raw')
    BY <1>1, <2>1, <2>2, ListNothing
  <2>4. Len(raw') <= MaxMembers
    BY <2>2, MembersAssumption
  <2> QED BY <1>1, <1>2, <2>1, <2>3, <2>4, GoesOn
<1>3. CASE spc' = "rejected"
  <2>1. ASSUME WellFormed PROVE FALSE
    <3>1. PICK n \in 1 .. Len(Blocks) : EndsAfter(n)
      BY <2>1 DEF WellFormed, StreamSound
    <3>2. Len(Blocks) >= 2
      <4>1. Read(0, 1, NoPath, 0)
        BY <1>1, <3>1, ListNothing
      <4>2. CASE 0 = n
        BY <1>1, <3>1, <4>2
      <4>3. HeaderBlock[n] < Len(Blocks)
        BY <3>1 DEF EndsAfter
      <4>4. 1 < Len(Blocks)
        <5>1. 1 <= Len(Blocks) /\ n >= 1
          BY <1>1, <3>1
        <5>2. After(1, Blocks[1]) <= Len(Blocks) + 1 /\ HeaderOf(0) = Blocks[1]
              /\ Blocks[1] \in Headers
          BY <1>1, <3>1, <4>1, <5>1, Shorter
        <5>3. HeaderBlock[0 + 1] = After(1, Blocks[1])
              /\ After(1, Blocks[1]) \in (0 + 1) + 1 .. Len(Blocks) + 1
          BY <1>1, <4>1, <5>1, <5>2, OneHeaderOn
        <5>4. CASE n = 1
          BY <1>1, <4>3, <5>3, <5>4
        <5>5. CASE n > 1
          BY <1>1, <3>1, <5>5
        <5> QED BY <1>1, <3>1, <5>1, <5>4, <5>5
      <4> QED BY <1>1, <4>4
    <3>3. spc' = "scan"
      BY <1>1, <2>1, <3>2, RoomIsRoom DEF SdistOpen, WellFormed, FileSound
    <3> QED BY <1>3, <3>3
  <2> QED BY <1>1, <1>3, <2>1, Ends
<1> QED BY <1>2, <1>3 DEF SdistOpen

\* No name lies below itself.
LEMMA NotBelowItself ==
    ASSUME NEW key \in Keys
    PROVE  key \notin Ancestors(key)
<1> SUFFICES ASSUME NEW n \in 1 .. Len(key) - 1, key = SubSeq(key, 1, n)
             PROVE  FALSE
  BY DEF Ancestors
<1>1. key \in Seq(Parts) /\ Len(key) \in Nat
  BY DEF Keys
<1>2. Len(SubSeq(key, 1, n)) = n
  BY <1>1
<1> QED BY <1>1, <1>2

LEMMA NamesAre ==
    ASSUME NEW n, NEW o, NEW p, NEW t, Read(n, o, p, t), IsSdist(sdist), NEW k \in Own(n)
    PROVE  /\ HeaderOf(k) \in Headers /\ NameOf(k) \in Names /\ HeaderOf(k).name \in Names
           /\ Key(NameOf(k)) \in Keys /\ Key(HeaderOf(k).name) \in Keys
           /\ k \in 0 .. n - 1 /\ n \in Nat /\ ~IsPax(k)
<1>1. n \in Nat /\ \A j \in 0 .. n - 1 : HeaderOf(j) \in Headers
  BY BlocksType DEF Read
<1>2. k \in 0 .. n - 1 /\ ~IsPax(k)
  BY DEF Own
<1>3. HeaderOf(k) \in Headers /\ HeaderOf(k).name \in Names
  BY <1>1, <1>2 DEF Headers
<1>4. NameOf(k) \in Names
  <2>1. CASE Announced(k)
    <3>1. k - 1 \in 0 .. n - 1
      BY <1>1, <1>2, <2>1 DEF Announced
    <3> QED BY <1>1, <2>1, <3>1 DEF NameOf, Headers
  <2>2. CASE ~Announced(k)
    BY <1>3, <2>2 DEF NameOf
  <2> QED BY <2>1, <2>2
<1> QED BY <1>1, <1>2, <1>3, <1>4, KeyType

\* Members that exclude no other are those of which none lies below a file.
LEMMA TopologyIs ==
    ASSUME IsSdist(sdist), NEW n, NEW o, NEW p, NEW t, Read(n, o, p, t),
           NEW pk, NEW rk, NEW pf, NEW rf, Collected(Own(n), pk, rk, pf, rf)
    PROVE  (~BelowFile(pk, pf) /\ ~BelowFile(rk, rf)) <=>
           \A k \in Own(n) : \A q \in Own(n) \ {k} :
              LET file == IsFile(HeaderOf(k).type)
              IN  /\ ~Clash(NameOf(k), NameOf(q), file)
                  /\ ~Clash(HeaderOf(k).name, HeaderOf(q).name, file)
<1> DEFINE File(k) == IsFile(HeaderOf(k).type)
<1>1. \A k \in Own(n) :
          /\ Key(NameOf(k)) \notin Ancestors(Key(NameOf(k)))
          /\ Key(HeaderOf(k).name) \notin Ancestors(Key(HeaderOf(k).name))
  BY NamesAre, NotBelowItself
<1>2. BelowFile(pk, pf) <=> \E k, q \in Own(n) :
          k # q /\ File(k) /\ Key(NameOf(k)) \in Ancestors(Key(NameOf(q)))
  BY <1>1 DEF Collected, BelowFile
<1>3. BelowFile(rk, rf) <=> \E k, q \in Own(n) :
          k # q /\ File(k) /\ Key(HeaderOf(k).name) \in Ancestors(Key(HeaderOf(q).name))
  BY <1>1 DEF Collected, BelowFile
<1>4. \A k, q \in Own(n) : k # q =>
          /\ Key(NameOf(k)) # Key(NameOf(q))
          /\ Key(HeaderOf(k).name) # Key(HeaderOf(q).name)
  BY DEF Collected
<1> HIDE DEF File
<1>5. \A k \in Own(n) : \A q \in Own(n) \ {k} :
          /\ Clash(NameOf(k), NameOf(q), File(k)) <=>
               File(k) /\ Key(NameOf(k)) \in Ancestors(Key(NameOf(q)))
          /\ Clash(HeaderOf(k).name, HeaderOf(q).name, File(k)) <=>
               File(k) /\ Key(HeaderOf(k).name) \in Ancestors(Key(HeaderOf(q).name))
  BY <1>4 DEF Clash
<1>6. (~BelowFile(pk, pf) /\ ~BelowFile(rk, rf)) <=>
      \A k \in Own(n) : \A q \in Own(n) \ {k} :
         /\ ~Clash(NameOf(k), NameOf(q), File(k))
         /\ ~Clash(HeaderOf(k).name, HeaderOf(q).name, File(k))
  BY <1>2, <1>3, <1>5
<1> QED BY <1>6 DEF File

LEMMA InvEnd ==
    ASSUME TInv, SdistInv, SdistEnd
    PROVE  SdistInv'
<1>1. /\ sdist' = sdist /\ IsSdist(sdist) /\ UNCHANGED scan /\ spc = "scan"
      /\ raw \in Seq(RawMember)
  BY DEF SdistEnd, TInv
<1>2. PICK n, at :
          /\ Read(n, offset, pending, rawTotal)
          /\ Collected(Own(n), pathKeys, rawKeys, pathFiles, rawFiles)
          /\ Listing(n, at, raw)
  BY <1>1 DEF SdistInv
<1>3. FileSound /\ Len(raw) <= MaxMembers
  BY <1>1 DEF SdistInv
<1>4. /\ offset' = offset /\ pending' = pending /\ raw' = raw /\ rawTotal' = rawTotal
      /\ pathKeys' = pathKeys /\ rawKeys' = rawKeys
      /\ pathFiles' = pathFiles /\ rawFiles' = rawFiles
  BY <1>1 DEF scan
<1>5. CASE EndsHere /\ Topology
  <2>1. spc' = "bind"
    BY <1>5 DEF SdistEnd
  <2>2. EndsHere' /\ Topology'
    BY <1>1, <1>4, <1>5, SameStream DEF EndsHere, Topology
  <2>3. /\ Read(n, offset', pending', rawTotal')
        /\ Collected(Own(n), pathKeys', rawKeys', pathFiles', rawFiles')
        /\ Listing(n, at, raw') /\ Len(raw') <= MaxMembers
    BY <1>2, <1>3, <1>4
  <2> QED BY <1>1, <1>3, <2>1, <2>2, <2>3, GoesOn
<1>6. CASE ~(EndsHere /\ Topology)
  <2>1. ASSUME WellFormed PROVE FALSE
    <3>1. PICK m \in 1 .. Len(Blocks) : StreamSound(m)
      BY <2>1 DEF WellFormed
    <3>2. EndsAfter(m)
      BY <3>1 DEF StreamSound
    <3>3. ~(offset \in 1 .. Len(Blocks) /\ Blocks[offset] \in Headers)
      BY DEF SdistEnd, Zero, Headers
    <3>4. n = m /\ EndsHere
      BY <1>1, <1>2, <3>2, <3>3, Shorter DEF EndsHere
    <3>5. pending = NoPath
      <4>1. ASSUME n > 0, IsPax(n - 1) PROVE FALSE
        <5>1. n \in Nat /\ n - 1 \in 0 .. n - 1 /\ (n - 1) + 1 = n
          BY <3>4, <4>1
        <5>2. n \in Own(n)
          BY <3>1, <3>4, <4>1, <5>1 DEF StreamSound, ProperPax
        <5> QED BY <5>1, <5>2, OwnNext
      <4> QED BY <1>2, <4>1 DEF Read
    <3>6. raw # <<>>
      <4>1. PICK k \in Own(n) : TRUE
        BY <3>1, <3>4 DEF StreamSound
      <4>2. \E i \in 1 .. Len(raw) : at[i] = k
        BY <1>2, <4>1 DEF Listing
      <4> QED BY <4>2
    <3>7. ~BelowFile(pathKeys, pathFiles) /\ ~BelowFile(rawKeys, rawFiles)
      BY <1>1, <1>2, <3>1, <3>4, TopologyIs DEF StreamSound
    <3> QED BY <1>6, <3>4, <3>5, <3>6, <3>7 DEF Topology
  <2>2. spc' = "rejected"
    BY <1>6 DEF SdistEnd
  <2> QED BY <1>1, <2>1, <2>2, Ends
<1> QED BY <1>5, <1>6

\* The state of the scan and what it stands for.
LEMMA Scanning ==
    ASSUME TInv, SdistInv, spc = "scan"
    PROVE  /\ IsSdist(sdist) /\ raw \in Seq(RawMember) /\ Len(raw) \in Nat
           /\ FileSound /\ Len(raw) <= MaxMembers
           /\ offset \in Nat \ {0} /\ rawTotal \in 0 .. MaxTotal /\ pending \in Names
           /\ \E n, at :
                 /\ Read(n, offset, pending, rawTotal)
                 /\ Collected(Own(n), pathKeys, rawKeys, pathFiles, rawFiles)
                 /\ Listing(n, at, raw)
BY DEF TInv, TypeOK, ReadersTypeOK, SdistInv

\* Headers from o on that are sound are readable.
LEMMA SoundIsReadable ==
    ASSUME IsSdist(sdist), NEW n, NEW o, NEW p, NEW t, Read(n, o, p, t),
           NEW at, NEW r \in Seq(RawMember), Listing(n, at, r),
           NEW m \in 1 .. Len(Blocks), StreamSound(m), n < m
    PROVE  /\ Len(r) < MaxMembers
           /\ o \in 1 .. Len(Blocks) /\ Blocks[o] \in Headers /\ HeaderOf(n) = Blocks[o]
           /\ After(o, Blocks[o]) <= Len(Blocks) + 1
           /\ Blocks[o].size <= MaxMember /\ Blocks[o].proper
           /\ n \in 0 .. m - 1
           /\ IsPax(n) => Safe(Blocks[o].path) /\ n + 1 < m /\ ~IsPax(n + 1)
           /\ ~IsPax(n) => n \in Own(m)
<1>1. EndsAfter(m)
  BY DEF StreamSound
<1>2. m \in Nat /\ n \in Nat /\ Len(Blocks) \in Nat
  BY BlocksType DEF Read
<1>3. /\ n \in 0 .. m - 1 /\ o \in 1 .. Len(Blocks) /\ Blocks[o] \in Headers
      /\ HeaderOf(n) = Blocks[o] /\ After(o, Blocks[o]) <= Len(Blocks) + 1
  BY <1>1, <1>2, Shorter
<1>4. ProperHeader(n) /\ (IsPax(n) => ProperPax(n, m))
  BY <1>3 DEF StreamSound
<1>5. IsPax(n) => Safe(Blocks[o].path) /\ n + 1 < m /\ ~IsPax(n + 1) /\ n + 1 \in Own(m)
  BY <1>2, <1>3, <1>4 DEF ProperPax, Own
<1>6. ~IsPax(n) => n \in Own(m)
  BY <1>3 DEF Own
<1>7. Len(r) < MaxMembers
  <2>1. PICK k \in Own(m) : k \notin Own(n)
    <3>1. n \notin Own(n) /\ n + 1 \notin Own(n)
      BY <1>2 DEF Own
    <3> QED BY <1>5, <1>6, <3>1
  <2>2. Own(n) \subseteq Own(m)
    BY <1>2, <1>3 DEF Own
  <2>3. IsFiniteSet(Own(m))
    <3>1. IsFiniteSet(0 .. m - 1)
      BY <1>2, FS_Interval
    <3>2. Own(m) \in SUBSET (0 .. m - 1)
      BY DEF Own
    <3> QED BY <3>1, <3>2, FS_Subset, Zenon
  <2>4. IsFiniteSet(Own(n)) /\ Cardinality(Own(n)) = Len(r)
    BY DEF Listing
  <2>5. /\ IsFiniteSet(Own(n) \cup {k})
        /\ Cardinality(Own(n) \cup {k}) = Cardinality(Own(n)) + 1
    BY <2>1, <2>4, FS_AddElement, Zenon
  <2>6. Cardinality(Own(n) \cup {k}) <= Cardinality(Own(m))
    <3>1. Own(n) \cup {k} \in SUBSET Own(m)
      BY <2>1, <2>2
    <3> QED BY <2>3, <3>1, FS_Subset, Zenon
  <2>7. Cardinality(Own(m)) <= MaxMembers
    BY DEF StreamSound
  <2>8. Cardinality(Own(m)) \in Nat /\ Len(r) \in Nat /\ MaxMembers \in Nat
    BY <2>3, FS_CardinalityType, MembersAssumption
  <2> QED BY <2>4, <2>5, <2>6, <2>7, <2>8
<1> QED BY <1>3, <1>4, <1>5, <1>6, <1>7 DEF ProperHeader

LEMMA InvPax ==
    ASSUME TInv, SdistInv, SdistPax
    PROVE  SdistInv'
<1> DEFINE h == Blocks[offset]
<1>1. sdist' = sdist /\ spc = "scan" /\ raw' = raw /\ rawTotal' = rawTotal
      /\ pathKeys' = pathKeys /\ rawKeys' = rawKeys
      /\ pathFiles' = pathFiles /\ rawFiles' = rawFiles
  BY DEF SdistPax
<1>2. PICK n, at :
          /\ Read(n, offset, pending, rawTotal)
          /\ Collected(Own(n), pathKeys, rawKeys, pathFiles, rawFiles)
          /\ Listing(n, at, raw)
  BY <1>1, Scanning
<1>3. /\ IsSdist(sdist) /\ raw \in Seq(RawMember) /\ FileSound /\ Len(raw) <= MaxMembers
      /\ offset \in Nat \ {0}
  BY <1>1, Scanning
<1>4. /\ offset \in 1 .. Len(Blocks) /\ h \in Headers /\ h.type = "pax"
      /\ After(offset, h) <= Len(Blocks) + 1 /\ h.size <= MaxMember
  BY <1>3, BlocksType DEF SdistPax, Readable
<1>5. n \in Nat /\ HeaderOf(n) = h /\ IsPax(n) /\ Bytes[n + 1] = rawTotal + 0
      /\ rawTotal = Bytes[n] /\ rawTotal \in Nat
  <2>1. n \in Nat /\ HeaderOf(n) = h
        /\ Bytes[n + 1] = rawTotal + (IF IsPax(n) THEN 0 ELSE h.size)
    BY <1>2, <1>3, <1>4, OneHeaderOn
  <2>2. IsPax(n)
    BY <1>4, <2>1 DEF IsPax
  <2>3. rawTotal \in Nat
    BY <1>1, Scanning
  <2> QED BY <1>2, <2>1, <2>2, <2>3 DEF Read
<1>6. CASE Announces(h)
  <2>1. /\ pending = NoPath /\ h.proper /\ Safe(h.path)
        /\ pending' = h.path /\ offset' = After(offset, h) /\ spc' = "scan"
    BY <1>1, <1>6 DEF SdistPax, Announces
  <2>2. Read(n + 1, offset', pending', rawTotal')
    BY <1>1, <1>2, <1>3, <1>4, <2>1, ReadPax
  <2>3. Own(n + 1) = Own(n)
    BY <1>5, OwnNext
  <2>4. PICK to : Listing(n + 1, to, raw)
    BY <1>2, <1>3, <1>5, ListPax
  <2>5. Collected(Own(n + 1), pathKeys', rawKeys', pathFiles', rawFiles')
    BY <1>1, <1>2, <2>3
  <2>6. Listing(n + 1, to, raw') /\ Len(raw') <= MaxMembers
    BY <1>1, <1>3, <2>4
  <2> QED BY <1>1, <1>3, <2>1, <2>2, <2>5, <2>6, GoesOn
<1>7. CASE ~Announces(h)
  <2>1. ASSUME WellFormed PROVE FALSE
    <3>1. PICK m \in 1 .. Len(Blocks) : StreamSound(m)
      BY <2>1 DEF WellFormed
    <3>2. EndsAfter(m)
      BY <3>1 DEF StreamSound
    <3>3. n < m
      <4>1. h # Zero
        BY <1>4 DEF Headers, Zero
      <4> QED BY <1>2, <1>3, <1>4, <3>2, <4>1, Shorter
    <3>4. Safe(h.path) /\ h.proper
      BY <1>2, <1>3, <1>5, <3>1, <3>3, SoundIsReadable
    <3>5. pending = NoPath
      <4>1. ASSUME n > 0, IsPax(n - 1) PROVE FALSE
        <5>1. n - 1 \in 0 .. m - 1 /\ (n - 1) + 1 = n
          BY <1>5, <3>3, <4>1
        <5>2. n \in Own(m)
          BY <3>1, <4>1, <5>1 DEF StreamSound, ProperPax
        <5> QED BY <1>5, <5>2 DEF Own
      <4> QED BY <1>2, <4>1 DEF Read
    <3> QED BY <1>7, <3>4, <3>5 DEF Announces, Safe, NoPath
  <2>2. spc' = "rejected"
    BY <1>7 DEF SdistPax
  <2> QED BY <1>1, <2>1, <2>2, Ends
<1> QED BY <1>6, <1>7

\* Along a stream the bytes of the members only grow: otherwise take the last header
\* before which there were more of them than in the end.
LEMMA BytesGrow ==
    ASSUME IsSdist(sdist), NEW m \in 1 .. Len(Blocks), StreamSound(m)
    PROVE  \A k \in 0 .. m : Bytes[k] \in Nat /\ Bytes[k] <= Bytes[m]
<1>1. Len(Blocks) \in Nat /\ m \in Nat /\ EndsAfter(m)
  BY BlocksType DEF StreamSound
<1>2. \A k \in 0 .. m : HeaderBlock[k] \in Nat \ {0}
  <2> DEFINE Bad == {k \in 0 .. m : HeaderBlock[k] \notin Nat \ {0}}
  <2> SUFFICES ASSUME Bad # {} PROVE FALSE
    OBVIOUS
  <2>1. PICK k \in Bad : \A j \in Bad : k <= j
    <3>1. Bad \in SUBSET Nat
      BY <1>1
    <3> HIDE DEF Bad
    <3> QED BY <3>1, Least
  <2>2. k # 0 /\ k \in 1 .. m
    BY <1>1, <2>1, HeaderBlockIs
  <2>3. k - 1 \in 0 .. m - 1 /\ k - 1 \notin Bad
    BY <1>1, <2>1, <2>2
  <2>4. HeaderBlock[k - 1] \in 1 .. Len(Blocks) /\ HeaderOf(k - 1).kind = "header"
    BY <1>1, <2>3 DEF EndsAfter
  <2>5. HeaderOf(k - 1) \in Headers
    BY <2>4, BlocksType DEF HeaderOf
  <2>6. HeaderBlock[k] = After(HeaderBlock[k - 1], HeaderOf(k - 1))
    <3>1. HeaderOf(k - 1).size \in Nat
      BY <2>5 DEF Headers
    <3> QED BY <1>1, <2>2, <2>4, <3>1, HeaderBlockIs, BeyondIsAfter DEF HeaderOf
  <2>7. HeaderBlock[k] \in Nat \ {0}
    BY <2>4, <2>5, <2>6, AfterType
  <2> QED BY <2>1, <2>7
<1>3. \A k \in 0 .. m - 1 : HeaderOf(k).size \in Nat
  <2> TAKE k \in 0 .. m - 1
  <2>1. HeaderBlock[k] \in 1 .. Len(Blocks) /\ HeaderOf(k).kind = "header"
    BY <1>1, <1>2 DEF EndsAfter
  <2>2. HeaderOf(k) \in Headers
    BY <2>1, BlocksType DEF HeaderOf
  <2> QED BY <2>2 DEF Headers
<1>4. \A k \in 1 .. m :
          /\ k - 1 \in 0 .. m - 1
          /\ Bytes[k] \in {Bytes[k - 1] + 0, Bytes[k - 1] + HeaderOf(k - 1).size}
  <2> TAKE k \in 1 .. m
  <2>1. k \in 1 .. Len(Blocks) /\ k - 1 \in 0 .. m - 1
    BY <1>1
  <2>2. Bytes[k] = Bytes[k - 1] + (IF IsPax(k - 1) THEN 0 ELSE HeaderOf(k - 1).size)
    BY <1>1, <2>1, BytesIs
  <2> QED BY <2>1, <2>2
<1>5. \A k \in 0 .. m : Bytes[k] \in Nat
  <2> DEFINE Bad == {k \in 0 .. m : Bytes[k] \notin Nat}
  <2> SUFFICES ASSUME Bad # {} PROVE FALSE
    OBVIOUS
  <2>1. PICK k \in Bad : \A j \in Bad : k <= j
    <3>1. Bad \in SUBSET Nat
      BY <1>1
    <3> HIDE DEF Bad
    <3> QED BY <3>1, Least
  <2>2. k \in 1 .. m
    BY <1>1, <2>1, BytesIs
  <2>3. k - 1 \in 0 .. m - 1 /\ Bytes[k - 1] \in Nat
    BY <1>1, <2>1, <2>2
  <2>4. HeaderOf(k - 1).size \in Nat
    BY <1>3, <2>3
  <2>5. Bytes[k] \in {Bytes[k - 1] + 0, Bytes[k - 1] + HeaderOf(k - 1).size}
    BY <1>4, <2>2
  <2>6. Bytes[k] \in Nat
    BY <2>3, <2>4, <2>5
  <2> QED BY <2>1, <2>6
<1>6. \A k \in 0 .. m : Bytes[k] <= Bytes[m]
  <2> DEFINE Bad == {j \in 0 .. m : ~(Bytes[m - j] <= Bytes[m])}
  <2>1. ASSUME Bad # {} PROVE FALSE
    <3>1. PICK j \in Bad : \A i \in Bad : j <= i
      <4>1. Bad \in SUBSET Nat
        BY <1>1
      <4> HIDE DEF Bad
      <4> QED BY <2>1, <4>1, Least
    <3>2. j # 0 /\ j \in 1 .. m
      BY <1>1, <1>5, <3>1
    <3>3. j - 1 \in 0 .. m /\ j - 1 \notin Bad /\ m - (j - 1) = (m - j) + 1
      BY <1>1, <3>1, <3>2
    <3>4. (m - j) + 1 \in 1 .. m /\ m - j \in 0 .. m - 1 /\ ((m - j) + 1) - 1 = m - j
      BY <1>1, <3>2
    <3>5. Bytes[(m - j) + 1] <= Bytes[m]
      BY <3>3
    <3>6. Bytes[m - j] <= Bytes[(m - j) + 1]
      <4>1. Bytes[m - j] \in Nat /\ HeaderOf(m - j).size \in Nat
        BY <1>1, <1>3, <1>5, <3>4
      <4> QED BY <1>4, <3>4, <4>1
    <3>7. Bytes[m - j] <= Bytes[m]
      <4>1. Bytes[m - j] \in Nat /\ Bytes[(m - j) + 1] \in Nat /\ Bytes[m] \in Nat
        BY <1>1, <1>5, <3>4
      <4> QED BY <3>5, <3>6, <4>1
    <3> QED BY <3>1, <3>7
  <2> SUFFICES ASSUME NEW k \in 0 .. m PROVE Bytes[k] <= Bytes[m]
    OBVIOUS
  <2>2. m - k \in 0 .. m /\ m - (m - k) = k
    BY <1>1
  <2>3. m - k \notin Bad
    BY <2>1
  <2> QED BY <2>2, <2>3
<1> QED BY <1>5, <1>6

LEMMA InvHeader ==
    ASSUME TInv, SdistInv, SdistHeader
    PROVE  SdistInv'
<1> DEFINE h == Blocks[offset]
           name == FinalName(h)
           e == [name |-> name, header |-> h, announced |-> pending # NoPath]
<1>1. /\ sdist' = sdist /\ spc = "scan" /\ spc' = "scan" /\ pending' = NoPath
      /\ h.type # "pax" /\ Readable(h) /\ Acceptable(h) /\ offset <= Len(Blocks)
  BY DEF SdistHeader
<1>2. PICK n, at :
          /\ Read(n, offset, pending, rawTotal)
          /\ Collected(Own(n), pathKeys, rawKeys, pathFiles, rawFiles)
          /\ Listing(n, at, raw)
  BY <1>1, Scanning
<1>3. /\ IsSdist(sdist) /\ raw \in Seq(RawMember) /\ Len(raw) \in Nat /\ FileSound
      /\ offset \in Nat \ {0} /\ pending \in Names /\ rawTotal \in 0 .. MaxTotal
  BY <1>1, Scanning
<1>4. /\ offset \in 1 .. Len(Blocks) /\ h \in Headers
      /\ After(offset, h) <= Len(Blocks) + 1 /\ h.size <= MaxMember
  BY <1>1, <1>3, BlocksType DEF Readable
<1>5. Len(raw) + 1 <= MaxMembers
  BY <1>1, <1>3, MembersAssumption DEF Readable
<1>6. /\ h.proper /\ h.type \in {"old", "file", "dir"} /\ (h.type = "dir" => h.size = 0)
      /\ Safe(h.name) /\ Safe(IF pending = NoPath THEN h.name ELSE pending)
      /\ pending \notin {NoPath, h.name} => h.cut
      /\ name = (IF pending = NoPath THEN h.name ELSE pending)
      /\ Key(name) \notin pathKeys /\ Key(h.name) \notin rawKeys
  BY <1>1, <1>4 DEF Acceptable, FinalName, Headers
<1>7. /\ Read(n + 1, After(offset, h), NoPath, rawTotal + h.size)
      /\ NameOf(n) = name /\ (Announced(n) <=> pending # NoPath)
  BY <1>2, <1>3, <1>4, <1>6, ReadMember
<1>8. /\ n \in Nat /\ HeaderOf(n) = h /\ ~IsPax(n)
      /\ Bytes[n + 1] = Bytes[n] + HeaderOf(n).size
  <2>1. n \in Nat /\ HeaderOf(n) = h
        /\ Bytes[n + 1] = rawTotal + (IF IsPax(n) THEN 0 ELSE h.size)
    BY <1>2, <1>3, <1>4, OneHeaderOn
  <2>2. ~IsPax(n) /\ rawTotal = Bytes[n]
    BY <1>1, <1>2, <2>1 DEF IsPax, Read
  <2> QED BY <2>1, <2>2
<1>9. name \in Names
  BY <1>3, <1>4 DEF FinalName, Headers
<1>10. e \in RawMember /\ e.name = NameOf(n) /\ e.header = HeaderOf(n)
       /\ (e.announced <=> Announced(n))
  BY <1>4, <1>7, <1>8, <1>9 DEF RawMember
<1>11. /\ offset' = After(offset, h) /\ rawTotal' = rawTotal + h.size
       /\ pathKeys' = pathKeys \cup {Key(name)}
       /\ rawKeys' = rawKeys \cup {Key(h.name)}
       /\ pathFiles' = pathFiles \cup (IF IsFile(h.type) THEN {Key(name)} ELSE {})
       /\ rawFiles' = rawFiles \cup (IF IsFile(h.type) THEN {Key(h.name)} ELSE {})
       /\ raw' = Append(raw, e)
  BY DEF SdistHeader
<1> HIDE DEF e, name, h
<1>12. PICK to : Listing(n + 1, to, Append(raw, e))
  BY <1>2, <1>3, <1>8, <1>10, ListMember
<1>13. n \notin Own(n) /\ Own(n + 1) = Own(n) \cup {n}
  BY <1>8, OwnNext
<1>14. Collected(Own(n + 1), pathKeys', rawKeys', pathFiles', rawFiles')
  BY <1>2, <1>6, <1>7, <1>8, <1>11, <1>13, CollectMember
<1>15. Read(n + 1, offset', pending', rawTotal')
  BY <1>1, <1>7, <1>11
<1>16. Listing(n + 1, to, raw') /\ Len(raw') <= MaxMembers
  BY <1>3, <1>5, <1>10, <1>11, <1>12
<1> QED BY <1>1, <1>3, <1>14, <1>15, <1>16, GoesOn

LEMMA InvRefuse ==
    ASSUME TInv, SdistInv, SdistRefuse
    PROVE  SdistInv'
<1> DEFINE h == Blocks[offset]
           name == FinalName(h)
<1>1. /\ sdist' = sdist /\ spc = "scan" /\ spc' = "rejected"
      /\ offset <= Len(Blocks) /\ h # Zero
  BY DEF SdistRefuse
<1>2. PICK n, at :
          /\ Read(n, offset, pending, rawTotal)
          /\ Collected(Own(n), pathKeys, rawKeys, pathFiles, rawFiles)
          /\ Listing(n, at, raw)
  BY <1>1, Scanning
<1>3. /\ IsSdist(sdist) /\ raw \in Seq(RawMember) /\ offset \in Nat \ {0}
      /\ Len(Blocks) \in Nat
  BY <1>1, Scanning, BlocksType
<1>4. ASSUME WellFormed PROVE FALSE
  <2>1. PICK m \in 1 .. Len(Blocks) : StreamSound(m)
    BY <1>4 DEF WellFormed
  <2>2. EndsAfter(m)
    BY <2>1 DEF StreamSound
  <2>3. n < m
    <3>1. offset \in offset .. Len(Blocks)
      BY <1>1, <1>3
    <3> QED BY <1>1, <1>2, <1>3, <2>2, <3>1, Shorter
  <2>4. /\ Len(raw) < MaxMembers /\ h \in Headers /\ HeaderOf(n) = h
        /\ After(offset, h) <= Len(Blocks) + 1
        /\ h.size <= MaxMember /\ h.proper
        /\ ~IsPax(n) => n \in Own(m)
    BY <1>2, <1>3, <2>1, <2>3, SoundIsReadable
  <2>5. Readable(h)
    BY <2>4 DEF Readable, Headers
  <2>6. h.type # "pax" /\ ~Acceptable(h)
    BY <2>5 DEF SdistRefuse
  <2>7. n \in Own(m) /\ n \in Nat /\ ~IsPax(n) /\ m \in Nat
    BY <2>1, <2>4, <2>6, <1>2, <1>3 DEF IsPax, Read
  <2>8. ProperMember(n)
    BY <2>1, <2>7 DEF StreamSound
  <2>9. NameOf(n) = name
    <3>1. CASE Announced(n)
      <4>1. pending = HeaderOf(n - 1).path
        BY <1>2, <3>1 DEF Announced, Read
      <4>2. Safe(HeaderOf(n - 1).path)
        <5>1. n - 1 \in 0 .. n - 1 /\ IsPax(n - 1)
          BY <2>7, <3>1 DEF Announced
        <5> QED BY <1>2, <5>1 DEF Read
      <4>3. pending # NoPath
        BY <4>1, <4>2 DEF Safe, NoPath
      <4> QED BY <3>1, <4>1, <4>3 DEF NameOf, FinalName
    <3>2. CASE ~Announced(n)
      <4>1. pending = NoPath
        BY <1>2, <3>2 DEF Announced, Read
      <4> QED BY <2>4, <3>2, <4>1 DEF NameOf, FinalName
    <3> QED BY <3>1, <3>2
  <2>10. /\ Safe(name) /\ Safe(h.name) /\ h.type \in {"old", "file", "dir"}
         /\ h.type = "dir" => h.size = 0
         /\ name # h.name => h.cut
    BY <2>4, <2>8, <2>9 DEF ProperMember
  <2>11. pending \notin {NoPath, h.name} => h.cut
    BY <2>10 DEF FinalName
  <2>12. Own(n) \subseteq Own(m) \ {n}
    BY <2>3, <2>7 DEF Own
  <2>13. Key(name) \notin pathKeys /\ Key(h.name) \notin rawKeys
    <3>1. \A k \in Own(n) : Key(NameOf(k)) # Key(name) /\ Key(HeaderOf(k).name) # Key(h.name)
      <4> SUFFICES ASSUME NEW k \in Own(n)
                   PROVE  Key(NameOf(k)) # Key(name) /\ Key(HeaderOf(k).name) # Key(h.name)
        OBVIOUS
      <4>1. k \in Own(m) /\ n \in Own(m) \ {k}
        BY <2>7, <2>12
      <4>2. /\ ~Clash(NameOf(k), NameOf(n), IsFile(HeaderOf(k).type))
            /\ ~Clash(HeaderOf(k).name, HeaderOf(n).name, IsFile(HeaderOf(k).type))
        BY <2>1, <4>1 DEF StreamSound
      <4> QED BY <2>4, <2>9, <4>2 DEF Clash
    <3> QED BY <1>2, <3>1 DEF Collected
  <2>14. rawTotal + h.size <= MaxTotal
    <3>1. Bytes[n + 1] = rawTotal + h.size
      BY <1>2, <1>3, <2>4, <2>7, <1>1, OneHeaderOn
    <3>2. n + 1 \in 0 .. m
      BY <2>3, <2>7
    <3>3. \A k \in 0 .. m : Bytes[k] <= Bytes[m]
      BY <1>3, <2>1, BytesGrow
    <3>4. Bytes[m] \in Nat /\ Bytes[n + 1] \in Nat
      BY <1>3, <2>1, <3>2, BytesGrow
    <3>5. Bytes[m] <= MaxTotal
      BY <2>1 DEF StreamSound
    <3> QED BY <3>1, <3>2, <3>3, <3>4, <3>5, MembersAssumption
  <2>15. Acceptable(h)
    BY <2>4, <2>10, <2>11, <2>13, <2>14 DEF Acceptable
  <2> QED BY <2>6, <2>15
<1> QED BY <1>1, <1>4, Ends

\* After the scan only the stream that it has read can be sound.
LEMMA Ended ==
    ASSUME TInv, SdistInv, spc \in {"bind", "members"}
    PROVE  /\ IsSdist(sdist) /\ raw \in Seq(RawMember) /\ Len(raw) \in Nat
           /\ FileSound /\ Len(raw) <= MaxMembers /\ EndsHere /\ Topology
           /\ \E n \in 1 .. Len(Blocks) : \E at :
                 /\ Read(n, offset, pending, rawTotal)
                 /\ Collected(Own(n), pathKeys, rawKeys, pathFiles, rawFiles)
                 /\ Listing(n, at, raw)
                 /\ spc = "members" => Walked(at)
                 /\ EndsAfter(n)
                 /\ \A m \in 1 .. Len(Blocks) : StreamSound(m) => m = n
<1>1. /\ IsSdist(sdist) /\ raw \in Seq(RawMember) /\ Len(raw) \in Nat
      /\ FileSound /\ Len(raw) <= MaxMembers /\ EndsHere /\ Topology
      /\ Len(Blocks) \in Nat
  BY BlocksType DEF TInv, SdistInv
<1>2. PICK n, at :
          /\ Read(n, offset, pending, rawTotal)
          /\ Collected(Own(n), pathKeys, rawKeys, pathFiles, rawFiles)
          /\ Listing(n, at, raw)
          /\ spc = "members" => Walked(at)
  BY DEF SdistInv
<1>3. /\ n \in 0 .. Len(Blocks) /\ offset = HeaderBlock[n] /\ offset \in Nat
      /\ \A k \in 0 .. n - 1 : HeaderBlock[k] \in 1 .. Len(Blocks) /\ HeaderOf(k) \in Headers
  BY <1>1, <1>2 DEF Read
<1>4. n # 0
  <2>1. raw # <<>>
    BY <1>1 DEF Topology
  <2>2. 1 \in 1 .. Len(raw)
    BY <1>1, <2>1
  <2>3. at[1] \in Own(n)
    BY <1>2, <2>2 DEF Listing
  <2> QED BY <2>3, OwnNext
<1>5. EndsAfter(n)
  <2>1. offset < Len(Blocks) /\ \A o \in offset .. Len(Blocks) : Blocks[o] = Zero
    BY <1>1 DEF EndsHere
  <2>2. \A k \in 0 .. n - 1 : HeaderBlock[k] <= Len(Blocks) /\ HeaderOf(k).kind = "header"
    BY <1>1, <1>3 DEF Headers
  <2> QED BY <1>3, <2>1, <2>2 DEF EndsAfter
<1>6. ASSUME NEW m \in 1 .. Len(Blocks), StreamSound(m) PROVE m = n
  <2>1. EndsAfter(m)
    BY <1>6 DEF StreamSound
  <2>2. Blocks[offset] = Zero
    BY <1>1, <1>3 DEF EndsHere
  <2>3. Blocks[offset] \notin Headers
    BY <2>2 DEF Zero, Headers
  <2> QED BY <1>1, <1>2, <2>1, <2>3, Shorter
<1>7. n \in 1 .. Len(Blocks)
  BY <1>1, <1>3, <1>4
<1> QED BY <1>1, <1>2, <1>5, <1>6, <1>7

\* A member as tarfile shows it, in terms of its headers.
LEMMA ListOf ==
    ASSUME NEW n, NEW at, raw \in Seq(RawMember), Listing(n, at, raw),
           NEW i \in 1 .. Len(raw)
    PROVE  LET h == HeaderOf(at[i])
               dir == h.type = "dir" \/ (h.type = "old" /\ h.name.slash)
           IN  /\ i \in DOMAIN SdistList /\ raw[i].header = h
               /\ SdistList[i].file <=> ~dir
               /\ SdistList[i].dir <=> dir
               /\ SdistList[i].size = h.size /\ SdistList[i].csize = NoSize
               /\ SdistList[i].name = IF dir \/ Announced(at[i])
                                        THEN [NameOf(at[i]) EXCEPT !.slash = FALSE]
                                        ELSE NameOf(at[i])
<1> DEFINE h == HeaderOf(at[i])
           dir == h.type = "dir" \/ (h.type = "old" /\ h.name.slash)
<1>1. /\ i \in DOMAIN raw /\ raw[i].header = h /\ raw[i].name = NameOf(at[i])
      /\ raw[i].announced <=> Announced(at[i])
  BY DEF Listing
<1>2. SdistList[i] = TarInfo(raw[i]) /\ i \in DOMAIN SdistList
  BY <1>1 DEF SdistList
<1>3. ASSUME NEW x
      PROVE  LET d == x.header.type = "dir" \/ (x.header.type = "old" /\ x.header.name.slash)
             IN  /\ TarInfo(x).file <=> ~d
                 /\ TarInfo(x).dir <=> d
                 /\ TarInfo(x).size = x.header.size /\ TarInfo(x).csize = NoSize
                 /\ TarInfo(x).name = IF d \/ x.announced
                                        THEN [x.name EXCEPT !.slash = FALSE] ELSE x.name
  BY DEF TarInfo
<1> QED BY <1>1, <1>2, <1>3

\* Its name has the components, and so the key, of the name announced for it.
LEMMA NameOfList ==
    ASSUME NEW n, NEW at, raw \in Seq(RawMember), Listing(n, at, raw), IsSdist(sdist),
           NEW o, NEW p, NEW t, Read(n, o, p, t), NEW i \in 1 .. Len(raw)
    PROVE  /\ SdistList[i].name.parts = NameOf(at[i]).parts
           /\ Key(SdistList[i].name) = Key(NameOf(at[i]))
           /\ Safe(SdistList[i].name) <=> Safe(NameOf(at[i]))
           /\ at[i] \in Own(n)
<1>1. at[i] \in Own(n)
  BY DEF Listing
<1>2. NameOf(at[i]) \in Names
  BY <1>1, NamesAre
<1>3. SdistList[i].name.parts = NameOf(at[i]).parts
  <2>1. [NameOf(at[i]) EXCEPT !.slash = FALSE].parts = NameOf(at[i]).parts
    BY <1>2 DEF Names
  <2> QED BY <2>1, ListOf
<1> QED BY <1>1, <1>3 DEF Key, Safe

LEMMA InvBind ==
    ASSUME TInv, SdistInv, SdistBind
    PROVE  SdistInv'
<1>1. sdist' = sdist /\ UNCHANGED scan /\ spc = "bind"
  BY DEF SdistBind
<1>2. /\ IsSdist(sdist) /\ raw \in Seq(RawMember) /\ Len(raw) \in Nat
      /\ FileSound /\ Len(raw) <= MaxMembers /\ EndsHere /\ Topology
  BY <1>1, Ended
<1>3. PICK n, at :
          /\ n \in 1 .. Len(Blocks)
          /\ Read(n, offset, pending, rawTotal)
          /\ Collected(Own(n), pathKeys, rawKeys, pathFiles, rawFiles)
          /\ Listing(n, at, raw)
          /\ \A m \in 1 .. Len(Blocks) : StreamSound(m) => m = n
  BY <1>1, Ended
<1>4. /\ offset' = offset /\ pending' = pending /\ raw' = raw /\ rawTotal' = rawTotal
      /\ pathKeys' = pathKeys /\ rawKeys' = rawKeys
      /\ pathFiles' = pathFiles /\ rawFiles' = rawFiles
  BY <1>1 DEF scan
<1>5. ASSUME NEW i \in 1 .. Len(raw)
      PROVE  /\ at[i] \in Own(n) /\ at[i] \in 0 .. n - 1
             /\ SdistList[i].file = IsFile(raw[i].header.type) <=>
                  ~(HeaderOf(at[i]).type = "old" /\ HeaderOf(at[i]).name.slash)
  <2>1. at[i] \in Own(n) /\ at[i] \in 0 .. n - 1 /\ ~IsPax(at[i])
    BY <1>2, <1>3, NamesAre DEF Listing
  <2>2. ProperMember(at[i])
    BY <1>3, <2>1 DEF Read
  <2>3. HeaderOf(at[i]).type \in {"old", "file", "dir"}
    BY <2>2 DEF ProperMember
  <2>4. /\ raw[i].header = HeaderOf(at[i]) /\ SdistList[i].file \in BOOLEAN
        /\ SdistList[i].file <=>
             ~(\/ HeaderOf(at[i]).type = "dir"
               \/ HeaderOf(at[i]).type = "old" /\ HeaderOf(at[i]).name.slash)
    <3>1. SdistList[i] \in Member
      BY <1>2, SdistListType
    <3> QED BY <1>2, <1>3, <3>1, ListOf DEF Member
  <2>5. (SdistList[i].file = IsFile(raw[i].header.type)) <=>
        (SdistList[i].file <=> IsFile(HeaderOf(at[i]).type))
    BY <2>4 DEF IsFile
  <2>6. (SdistList[i].file <=> IsFile(HeaderOf(at[i]).type)) <=>
        ~(HeaderOf(at[i]).type = "old" /\ HeaderOf(at[i]).name.slash)
    BY <2>3, <2>4 DEF IsFile
  <2> QED BY <2>1, <2>5, <2>6
<1>6. CASE \A i \in DOMAIN raw : SdistList[i].file = IsFile(raw[i].header.type)
  <2>1. spc' = "members" /\ total' = 0 /\ found' = {} /\ place' = 1
    BY <1>6 DEF SdistBind, StartMembers
  <2>2. EndsHere' /\ Topology'
    BY <1>1, <1>2, <1>4, SameStream DEF EndsHere, Topology
  <2>3. Walked(at)'
    <3>1. Bytes[at[1]] = 0
      BY <1>3 DEF Listing
    <3>2. \A i \in 1 .. Len(raw) :
             ~(HeaderOf(at[i]).type = "old" /\ HeaderOf(at[i]).name.slash)
      BY <1>2, <1>5, <1>6
    <3> QED BY <1>1, <1>4, <2>1, <3>1, <3>2, SameHeaders DEF Walked
  <2>4. /\ Read(n, offset', pending', rawTotal')
        /\ Collected(Own(n), pathKeys', rawKeys', pathFiles', rawFiles')
        /\ Listing(n, at, raw') /\ Len(raw') <= MaxMembers
    BY <1>2, <1>3, <1>4
  <2> QED BY <1>1, <1>2, <2>1, <2>2, <2>3, <2>4, GoesOn
<1>7. CASE ~\A i \in DOMAIN raw : SdistList[i].file = IsFile(raw[i].header.type)
  <2>1. PICK i \in 1 .. Len(raw) :
            HeaderOf(at[i]).type = "old" /\ HeaderOf(at[i]).name.slash
    BY <1>2, <1>5, <1>7
  <2>2. ASSUME WellFormed PROVE FALSE
    <3>1. StreamSound(n)
      BY <1>3, <2>2 DEF WellFormed
    <3> QED BY <1>5, <2>1, <3>1 DEF StreamSound
  <2>3. spc' = "rejected"
    BY <1>7 DEF SdistBind
  <2> QED BY <1>1, <2>2, <2>3, Ends
<1> QED BY <1>6, <1>7

LEMMA InvMember ==
    ASSUME TInv, PortableInv, SdistInv, SdistMember
    PROVE  SdistInv'
<1> DEFINE item == SdistList[place]
           size == HeaderOf(raw[place].header).size
<1>1. /\ sdist' = sdist /\ UNCHANGED scan /\ spc = "members" /\ place <= Len(SdistList)
      /\ place \in Nat \ {0}
  BY DEF SdistMember, TInv, TypeOK, ReadersTypeOK
<1>2. /\ IsSdist(sdist) /\ raw \in Seq(RawMember) /\ Len(raw) \in Nat
      /\ FileSound /\ Len(raw) <= MaxMembers /\ EndsHere /\ Topology
  BY <1>1, Ended
<1>3. PICK n, at :
          /\ n \in 1 .. Len(Blocks)
          /\ Read(n, offset, pending, rawTotal)
          /\ Collected(Own(n), pathKeys, rawKeys, pathFiles, rawFiles)
          /\ Listing(n, at, raw) /\ Walked(at)
          /\ \A m \in 1 .. Len(Blocks) : StreamSound(m) => m = n
  BY <1>1, Ended
<1>4. /\ offset' = offset /\ pending' = pending /\ raw' = raw /\ rawTotal' = rawTotal
      /\ pathKeys' = pathKeys /\ rawKeys' = rawKeys
      /\ pathFiles' = pathFiles /\ rawFiles' = rawFiles
  BY <1>1 DEF scan
<1>5. place \in 1 .. Len(raw) /\ MembersUpTo(SdistList, place, keys, files)
  BY <1>1, <1>2, SdistListType DEF PortableInv
<1>6. /\ item.name.parts = NameOf(at[place]).parts
      /\ Safe(item.name) <=> Safe(NameOf(at[place]))
      /\ at[place] \in Own(n) /\ at[place] \in 0 .. n - 1 /\ ~IsPax(at[place])
      /\ item.size = HeaderOf(at[place]).size /\ item.csize = NoSize
      /\ item.file <=> ~item.dir
      /\ item \in Member
  <2>1. item \in Member
    BY <1>2, <1>5, SdistListType
  <2>2. at[place] \in Own(n)
    BY <1>3, <1>5 DEF Listing
  <2> QED BY <1>2, <1>3, <1>5, <2>1, <2>2, NameOfList, ListOf, NamesAre
<1>7. Bytes[at[place + 1]] = total + item.size
  BY <1>3, <1>5, <1>6 DEF Listing, Walked
<1>8. CASE Admissible(item, SdistRules)
  <2>1. spc' = "members" /\ Admit(item, SdistRules)
    BY <1>1, <1>8 DEF SdistMember
  <2>2. /\ place' = place + 1 /\ total' = total + item.size
        /\ found' = IF item.name.parts[Len(item.name.parts)] = SdistRules.metadata
                      THEN found \cup {place} ELSE found
    BY <2>1 DEF Admit
  <2>3. IsMetadata(at[place]) <=>
          item.name.parts[Len(item.name.parts)] = SdistRules.metadata
    BY <1>6 DEF IsMetadata
  <2>4. 1 .. (place + 1) - 1 = (1 .. place - 1) \cup {place}
    BY <1>1
  <2>5. found' = {i \in 1 .. (place + 1) - 1 : IsMetadata(at[i])}
    BY <1>3, <2>2, <2>3, <2>4 DEF Walked
  <2>6. Head(NameOf(at[place]).parts) = SdistRules.root
    BY <1>6, <1>8, SdistAssumption DEF Admissible, Bound
  <2>7. \A i \in 1 .. (place + 1) - 1 : Head(NameOf(at[i]).parts) = SdistRules.root
    BY <1>3, <2>4, <2>6 DEF Walked
  <2>8. \A k : IsMetadata(k)' <=> IsMetadata(k)
    BY <1>1, SameHeaders DEF IsMetadata
  <2>9. Walked(at)'
    <3>1. total' = Bytes[at[place']]
      BY <1>7, <2>2
    <3>2. found' = {i \in 1 .. place' - 1 : IsMetadata(at[i])}
      BY <2>2, <2>5
    <3>3. \A i \in 1 .. place' - 1 : Head(NameOf(at[i]).parts) = SdistRules.root
      BY <2>2, <2>7
    <3>4. \A i \in 1 .. Len(raw) :
             ~(HeaderOf(at[i]).type = "old" /\ HeaderOf(at[i]).name.slash)
      BY <1>3 DEF Walked
    <3> QED BY <1>1, <1>4, <2>8, <3>1, <3>2, <3>3, <3>4, SameHeaders DEF Walked
  <2>10. EndsHere' /\ Topology'
    BY <1>1, <1>2, <1>4, SameStream DEF EndsHere, Topology
  <2>11. /\ Read(n, offset', pending', rawTotal')
         /\ Collected(Own(n), pathKeys', rawKeys', pathFiles', rawFiles')
         /\ Listing(n, at, raw') /\ Len(raw') <= MaxMembers
    BY <1>2, <1>3, <1>4
  <2> QED BY <1>1, <1>2, <2>1, <2>9, <2>10, <2>11, GoesOn
<1>9. CASE ~Admissible(item, SdistRules)
  <2>1. ASSUME WellFormed PROVE FALSE
    <3>1. StreamSound(n)
      BY <1>3, <2>1 DEF WellFormed
    <3>2. /\ ProperMember(at[place]) /\ ProperHeader(at[place])
          /\ Head(NameOf(at[place]).parts) = SdistRules.root
      BY <1>6, <3>1 DEF StreamSound
    <3>3. Safe(item.name) /\ Bound(item, SdistRules) /\ item.size <= MaxMember
      BY <1>6, <3>2 DEF ProperMember, ProperHeader, Bound
    <3>4. Key(item.name) \notin keys
      <4>1. \A i \in 1 .. place - 1 : Key(SdistList[i].name) # Key(item.name)
        <5> SUFFICES ASSUME NEW i \in 1 .. place - 1
                     PROVE  Key(SdistList[i].name) # Key(item.name)
          OBVIOUS
        <5>1. i \in 1 .. Len(raw) /\ i # place
          BY <1>2, <1>5
        <5>2. at[i] # at[place]
          BY <1>3, <1>5, <5>1 DEF Listing
        <5>3. /\ Key(SdistList[i].name) = Key(NameOf(at[i])) /\ at[i] \in Own(n)
              /\ Key(item.name) = Key(NameOf(at[place]))
          BY <1>2, <1>3, <1>5, <5>1, NameOfList
        <5> QED BY <1>3, <1>6, <5>2, <5>3 DEF Collected
      <4> QED BY <1>5, <4>1 DEF MembersUpTo
    <3>5. total + item.size <= MaxTotal
      <4>1. rawTotal \in 0 .. MaxTotal /\ MaxTotal \in Nat
        BY MembersAssumption DEF TInv, TypeOK, ReadersTypeOK
      <4>2. at[place + 1] \in 0 .. n
        <5>1. place + 1 \in 1 .. Len(raw) + 1
          BY <1>2, <1>5
        <5> QED BY <1>3, <5>1 DEF Listing
      <4>3. Bytes[at[place + 1]] \in 0 .. rawTotal
        BY <1>3, <4>2 DEF Read
      <4> QED BY <1>7, <4>1, <4>3
    <3>6. place <= MaxMembers
      BY <1>2, <1>5, MembersAssumption
    <3>7. WithinLimits(item)
      BY <1>6, <3>3, <3>5, <3>6 DEF WithinLimits
    <3>8. item.file # item.dir
      BY <1>6 DEF Member
    <3> QED BY <1>9, <3>3, <3>4, <3>7, <3>8 DEF Admissible
  <2>2. spc' = "rejected"
    BY <1>9 DEF SdistMember
  <2> QED BY <1>1, <2>1, <2>2, Ends
<1> QED BY <1>8, <1>9

LEMMA RecordIs ==
    ASSUME NEW p, NEW b, NEW c
    PROVE  /\ [[parts |-> p, slash |-> b] EXCEPT !.slash = c] = [parts |-> p, slash |-> c]
           /\ [parts |-> p, slash |-> b].parts = p /\ [parts |-> p, slash |-> b].slash = b
OBVIOUS

\* What a name without a final slash is.
LEMMA NameIs ==
    ASSUME NEW name \in Names, NEW parts
    PROVE  /\ name = [parts |-> parts, slash |-> FALSE] <=> name.parts = parts /\ ~name.slash
           /\ [name EXCEPT !.slash = FALSE] = [parts |-> parts, slash |-> FALSE] <=>
                name.parts = parts
<1>1. PICK p \in Seq(Parts), b \in BOOLEAN : name = [parts |-> p, slash |-> b]
  BY DEF Names
<1>2. name.parts = p /\ name.slash = b
  BY <1>1, RecordIs, Zenon
<1>3. [name EXCEPT !.slash = FALSE] = [parts |-> p, slash |-> FALSE]
  BY <1>1, RecordIs, Zenon
<1>4. [parts |-> p, slash |-> FALSE] = [parts |-> parts, slash |-> FALSE] <=> p = parts
  <2>1. ASSUME [parts |-> p, slash |-> FALSE] = [parts |-> parts, slash |-> FALSE]
        PROVE  p = parts
    <3>1. [parts |-> p, slash |-> FALSE].parts = [parts |-> parts, slash |-> FALSE].parts
      BY <2>1
    <3> QED BY <3>1
  <2> QED BY <2>1
<1>5. CASE b = FALSE
  BY <1>1, <1>2, <1>3, <1>4, <1>5
<1>6. CASE b = TRUE
  <2>1. name.slash # FALSE
    BY <1>2, <1>6
  <2>2. [parts |-> parts, slash |-> FALSE].slash = FALSE
    BY RecordIs, Zenon
  <2>3. ASSUME name = [parts |-> parts, slash |-> FALSE] PROVE name.slash = FALSE
    BY <2>2, <2>3, Zenon
  <2>4. name # [parts |-> parts, slash |-> FALSE]
    BY <2>1, <2>3
  <2> QED BY <1>2, <1>3, <1>4, <1>6, <2>4
<1> QED BY <1>5, <1>6

\* After the last member the archive is complete if and only if the stream is sound.
LEMMA CompleteIsSound ==
    ASSUME TInv, PortableInv, SdistInv, spc = "members", place > Len(SdistList)
    PROVE  Complete(SdistList, sdist.size, SdistRules) <=>
           \E n \in 1 .. Len(Blocks) : StreamSound(n)
<1> DEFINE list == SdistList
           m == Len(raw)
           OldFolder(k) == HeaderOf(k).type = "old" /\ HeaderOf(k).name.slash
           Folder(k) == HeaderOf(k).type = "dir" \/ OldFolder(k)
           Plainly(k) == /\ NameOf(k).parts = <<SdistRules.root, SdistRules.metadata>>
                         /\ Announced(k) \/ ~NameOf(k).slash
           Meta == [parts |-> <<SdistRules.root, SdistRules.metadata>>, slash |-> FALSE]
<1>1. /\ IsSdist(sdist) /\ raw \in Seq(RawMember) /\ m \in Nat
      /\ FileSound /\ m <= MaxMembers /\ EndsHere /\ Topology
      /\ rawTotal \in 0 .. MaxTotal
  BY Ended DEF TInv, TypeOK, ReadersTypeOK
<1>2. PICK n, at :
          /\ n \in 1 .. Len(Blocks)
          /\ Read(n, offset, pending, rawTotal)
          /\ Collected(Own(n), pathKeys, rawKeys, pathFiles, rawFiles)
          /\ Listing(n, at, raw) /\ Walked(at)
          /\ EndsAfter(n)
          /\ \A q \in 1 .. Len(Blocks) : StreamSound(q) => q = n
  BY Ended
<1>3. /\ list \in Seq(Member) /\ Len(list) = m /\ DOMAIN list = 1 .. m
      /\ place = m + 1 /\ MembersUpTo(list, place, keys, files)
  <2>1. list \in Seq(Member) /\ Len(list) = m
    BY <1>1, SdistListType
  <2>2. place \in Nat \ {0} /\ place <= Len(list) + 1
        /\ MembersUpTo(list, place, keys, files)
    BY DEF TInv, TypeOK, ReadersTypeOK, PortableInv
  <2> QED BY <1>1, <2>1, <2>2
<1>4. total = Bytes[n] /\ Bytes[n] = rawTotal /\ n \in Nat
  <2>1. at[m + 1] = n
    BY <1>2 DEF Listing
  <2> QED BY <1>2, <1>3, <2>1 DEF Walked, Read
<1>5. ASSUME NEW i \in 1 .. m
      PROVE  /\ at[i] \in Own(n)
             /\ list[i].name.parts = NameOf(at[i]).parts
             /\ Key(list[i].name) = Key(NameOf(at[i]))
             /\ Key(NameOf(at[i])) \in Keys
             /\ ~OldFolder(at[i]) /\ ProperMember(at[i])
             /\ list[i].file <=> IsFile(HeaderOf(at[i]).type)
             /\ list[i].size = HeaderOf(at[i]).size
             /\ list[i].file => (list[i].name = Meta <=> Plainly(at[i]))
  <2>1. /\ at[i] \in Own(n) /\ list[i].name.parts = NameOf(at[i]).parts
        /\ Key(list[i].name) = Key(NameOf(at[i]))
    BY <1>1, <1>2, NameOfList
  <2>2. Key(NameOf(at[i])) \in Keys /\ ~OldFolder(at[i]) /\ ProperMember(at[i])
        /\ NameOf(at[i]) \in Names
    <3>1. at[i] \in 0 .. n - 1 /\ ~IsPax(at[i]) /\ Key(NameOf(at[i])) \in Keys
          /\ NameOf(at[i]) \in Names
      BY <1>1, <1>2, <2>1, NamesAre
    <3>2. ~OldFolder(at[i])
      BY <1>2 DEF Walked
    <3> QED BY <1>2, <3>1, <3>2 DEF Read
  <2>3. /\ list[i].file <=> ~Folder(at[i])
        /\ list[i].size = HeaderOf(at[i]).size
        /\ list[i].name = IF Folder(at[i]) \/ Announced(at[i])
                            THEN [NameOf(at[i]) EXCEPT !.slash = FALSE] ELSE NameOf(at[i])
    BY <1>1, <1>2, ListOf
  <2>4. list[i].file <=> IsFile(HeaderOf(at[i]).type)
    BY <2>2, <2>3 DEF ProperMember, IsFile
  <2>5. ASSUME list[i].file PROVE list[i].name = Meta <=> Plainly(at[i])
    <3>1. list[i].name = IF Announced(at[i])
                           THEN [NameOf(at[i]) EXCEPT !.slash = FALSE] ELSE NameOf(at[i])
      BY <2>3, <2>5
    <3>2. CASE Announced(at[i])
      <4>1. [NameOf(at[i]) EXCEPT !.slash = FALSE] = Meta <=>
              NameOf(at[i]).parts = <<SdistRules.root, SdistRules.metadata>>
        BY <2>2, NameIs, Zenon
      <4> HIDE DEF Meta
      <4> QED BY <3>1, <3>2, <4>1
    <3>3. CASE ~Announced(at[i])
      <4>1. NameOf(at[i]) = Meta <=>
              /\ NameOf(at[i]).parts = <<SdistRules.root, SdistRules.metadata>>
              /\ ~NameOf(at[i]).slash
        BY <2>2, NameIs, Zenon
      <4> HIDE DEF Meta
      <4> QED BY <3>1, <3>3, <4>1
    <3> QED BY <3>2, <3>3
  <2> QED BY <2>1, <2>2, <2>3, <2>4, <2>5
<1>6. \A k \in Own(n) : \E i \in 1 .. m : at[i] = k
  BY <1>2 DEF Listing
<1>7. ASSUME Complete(list, sdist.size, SdistRules) PROVE StreamSound(n)
  <2>1. Own(n) # {} /\ Cardinality(Own(n)) <= MaxMembers
    <3>1. m # 0
      BY <1>3, <1>7 DEF Complete
    <3> QED BY <1>1, <1>2, <1>5, <3>1 DEF Listing
  <2>2. Bytes[n] <= MaxTotal /\ Bytes[n] <= sdist.size * MaxRatio
    BY <1>1, <1>4, <1>7, MembersAssumption DEF Complete
  <2>3. \A k \in 0 .. n - 1 : ProperHeader(k) /\ (IsPax(k) => ProperPax(k, n))
    <3> SUFFICES ASSUME NEW k \in 0 .. n - 1
                 PROVE  ProperHeader(k) /\ (IsPax(k) => ProperPax(k, n))
      OBVIOUS
    <3>1. ProperHeader(k) /\ (IsPax(k) => Safe(HeaderOf(k).path))
          /\ (IsPax(k) /\ k + 1 < n => ~IsPax(k + 1))
      BY <1>2 DEF Read
    <3>2. ASSUME IsPax(k), ~(k + 1 < n) PROVE FALSE
      <4>1. k = n - 1 /\ n > 0
        BY <1>4, <3>2
      <4>2. pending = HeaderOf(k).path
        BY <1>2, <3>2, <4>1 DEF Read
      <4> QED BY <1>1, <3>1, <3>2, <4>2 DEF Topology, Safe, NoPath
    <3>3. IsPax(k) => k + 1 \in Own(n)
      BY <1>4, <3>1, <3>2 DEF Own
    <3> QED BY <3>1, <3>3 DEF ProperPax
  <2>4. \A k \in Own(n) : /\ ProperMember(k)
                          /\ ~(HeaderOf(k).type = "old" /\ HeaderOf(k).name.slash)
                          /\ Head(NameOf(k).parts) = SdistRules.root
    <3> TAKE k \in Own(n)
    <3>1. PICK i \in 1 .. m : at[i] = k
      BY <1>6
    <3>2. Head(NameOf(at[i]).parts) = SdistRules.root
      BY <1>1, <1>2, <1>3 DEF Walked
    <3> QED BY <1>5, <3>1, <3>2
  <2>5. \A k \in Own(n) : \A q \in Own(n) \ {k} :
           LET file == IsFile(HeaderOf(k).type)
           IN  /\ ~Clash(NameOf(k), NameOf(q), file)
               /\ ~Clash(HeaderOf(k).name, HeaderOf(q).name, file)
    BY <1>1, <1>2, TopologyIs DEF Topology
  <2>6. PICK i \in 1 .. m : found = {i} /\ list[i].name = Meta /\ list[i].file
                            /\ list[i].size <= MaxMetadata
    BY <1>3, <1>7 DEF Complete
  <2>7. {q \in Own(n) : IsMetadata(q)} = {at[i]}
    <3>1. found = {j \in 1 .. m : IsMetadata(at[j])}
      <4>1. 1 .. place - 1 = 1 .. m
        BY <1>1, <1>3
      <4> QED BY <1>2, <4>1 DEF Walked
    <3>2. \A j \in 1 .. m : IsMetadata(at[j]) <=> j = i
      BY <2>6, <3>1
    <3> QED BY <1>5, <1>6, <3>2
  <2>8. \E k \in Own(n) :
          /\ {q \in Own(n) : IsMetadata(q)} = {k}
          /\ NameOf(k).parts = <<SdistRules.root, SdistRules.metadata>>
          /\ Announced(k) \/ ~NameOf(k).slash
          /\ IsFile(HeaderOf(k).type) /\ HeaderOf(k).size <= MaxMetadata
    <3>1. /\ at[i] \in Own(n) /\ Plainly(at[i]) /\ IsFile(HeaderOf(at[i]).type)
          /\ HeaderOf(at[i]).size <= MaxMetadata
      BY <1>5, <2>6
    <3> QED BY <2>7, <3>1
  <2> QED BY <1>2, <2>1, <2>2, <2>3, <2>4, <2>5, <2>8 DEF StreamSound
<1>8. ASSUME StreamSound(n) PROVE Complete(list, sdist.size, SdistRules)
  <2>1. ~BelowFile(keys, files)
    <3> SUFFICES ASSUME BelowFile(keys, files) PROVE FALSE
      OBVIOUS
    <3>1. 1 .. place - 1 = 1 .. m
      BY <1>1, <1>3
    <3>2. PICK i \in 1 .. m, j \in 1 .. m :
             list[i].file /\ Key(list[i].name) \in Ancestors(Key(list[j].name))
      BY <1>3, <3>1 DEF BelowFile, MembersUpTo
    <3>3. Key(NameOf(at[i])) \in Ancestors(Key(NameOf(at[j])))
          /\ IsFile(HeaderOf(at[i]).type)
      BY <1>5, <3>2
    <3>4. at[i] # at[j]
      BY <1>5, <3>3, NotBelowItself
    <3>5. ~Clash(NameOf(at[i]), NameOf(at[j]), IsFile(HeaderOf(at[i]).type))
      BY <1>5, <1>8, <3>4 DEF StreamSound
    <3> QED BY <3>3, <3>5 DEF Clash
  <2>2. total <= sdist.size * MaxRatio
    BY <1>4, <1>8 DEF StreamSound
  <2>3. PICK k \in Own(n) :
          /\ {q \in Own(n) : IsMetadata(q)} = {k}
          /\ NameOf(k).parts = <<SdistRules.root, SdistRules.metadata>>
          /\ Announced(k) \/ ~NameOf(k).slash
          /\ IsFile(HeaderOf(k).type) /\ HeaderOf(k).size <= MaxMetadata
    BY <1>8 DEF StreamSound
  <2>4. PICK i \in 1 .. m : at[i] = k
    BY <1>6
  <2>5. found = {i}
    <3>1. found = {j \in 1 .. m : IsMetadata(at[j])}
      <4>1. 1 .. place - 1 = 1 .. m
        BY <1>1, <1>3
      <4> QED BY <1>2, <4>1 DEF Walked
    <3>2. \A j \in 1 .. m : IsMetadata(at[j]) <=> at[j] = at[i]
      BY <1>5, <2>3, <2>4
    <3>3. \A j \in 1 .. m : at[j] = at[i] <=> j = i
      BY <1>2 DEF Listing
    <3> QED BY <3>1, <3>2, <3>3
  <2>6. list[i].file /\ list[i].name = Meta /\ list[i].size <= MaxMetadata
    BY <1>5, <2>3, <2>4
  <2>7. list # <<>>
    BY <1>1, <1>3, <2>4
  <2> QED BY <1>3, <2>1, <2>2, <2>5, <2>6, <2>7 DEF Complete
<1> QED BY <1>2, <1>7, <1>8

LEMMA InvClose ==
    ASSUME TInv, PortableInv, SdistInv, SdistClose
    PROVE  SdistInv'
<1>1. sdist' = sdist /\ spc = "members" /\ place > Len(SdistList) /\ FileSound
  BY Ended DEF SdistClose
<1>2. Complete(SdistList, sdist.size, SdistRules) /\ sdist.approved <=> WellFormed
  BY <1>1, CompleteIsSound DEF WellFormed
<1>3. \/ spc' = "accepted" /\ WellFormed
      \/ spc' = "rejected" /\ ~WellFormed
  BY <1>2 DEF SdistClose
<1> QED BY <1>1, <1>3, Ends

LEMMA StepSdistInv ==
    ASSUME TInv, PortableInv, SdistInv, [Next]_vars
    PROVE  SdistInv'
<1>1. CASE ScanSdist
  BY <1>1, InvOpen, InvEnd, InvPax, InvHeader, InvRefuse, InvBind, InvMember, InvClose
     DEF ScanSdist, SdistStep
<1>2. CASE ScanWheel
  <2>1. UNCHANGED sdistVars /\ spc \notin {"scan", "bind", "members"}
    BY <1>2 DEF ScanWheel, TInv, SdistRuns
  <2> QED BY <2>1, SameVerdict DEF sdistVars, SdistInv, SdistVerdictIsExact
<1>3. CASE ~ScanSdist /\ ~ScanWheel
  <2>1. sdist' = sdist /\ UNCHANGED scan /\ UNCHANGED members
        /\ spc' \in {spc, "open"}
    BY <1>3 DEF Next, Command, List, WheelDone, SdistDone, Settle, Verify, Begin, Change,
                vars, sdistVars
  <2>2. CASE spc' = "open"
    BY <2>2 DEF SdistInv, SdistVerdictIsExact
  <2>3. CASE spc' = spc /\ spc \in {"scan", "bind", "members"}
    <3>1. PICK n, at :
          /\ Read(n, offset, pending, rawTotal)
          /\ Collected(Own(n), pathKeys, rawKeys, pathFiles, rawFiles)
          /\ Listing(n, at, raw)
          /\ spc = "members" => Walked(at)
      BY <2>3 DEF SdistInv
    <3>2. /\ Read(n, offset', pending', rawTotal')
          /\ Collected(Own(n), pathKeys', rawKeys', pathFiles', rawFiles')
          /\ Listing(n, at, raw') /\ FileSound /\ Len(raw') <= MaxMembers
      BY <2>1, <2>3, <3>1 DEF scan, SdistInv
    <3>3. spc' # "scan" => EndsHere' /\ Topology'
      BY <2>1, <2>3, SameStream DEF scan, SdistInv, EndsHere, Topology
    <3>4. spc' = "members" => Walked(at)'
      <4>1. \A k : IsMetadata(k)' <=> IsMetadata(k)
        BY <2>1, SameHeaders DEF IsMetadata
      <4>2. Walked(at)' <=> Walked(at)
        BY <2>1, <4>1, SameHeaders DEF Walked, scan, members
      <4> QED BY <2>3, <3>1, <4>2
    <3> QED BY <2>1, <2>3, <3>1, <3>2, <3>3, <3>4, GoesOn
  <2>4. CASE spc' = spc /\ spc \notin {"scan", "bind", "members"}
    BY <2>1, <2>4, SameVerdict DEF SdistInv, SdistVerdictIsExact
  <2> QED BY <2>1, <2>2, <2>3, <2>4
<1> QED BY <1>1, <1>2, <1>3

LEMMA AlwaysSdistInv == Spec => []SdistInv
<1>1. Init => SdistInv
  BY DEF Init, SdistInit, SdistInv, SdistVerdictIsExact
<1>2. TInv /\ PortableInv /\ SdistInv /\ [Next]_vars => SdistInv'
  BY StepSdistInv
<1> QED BY <1>1, <1>2, AlwaysTInv, AlwaysPortable, PTL DEF Spec

\* _validate_sdist_metadata accepts an sdist exactly when it is as it should be: the
\* scan block by block, its pending path, its running totals and the comparison with
\* tarfile come to the verdict of a definition that knows of none of them.
THEOREM SdistVerdictIsRight == Spec => []SdistVerdictIsExact
<1>1. SdistInv => SdistVerdictIsExact
  BY DEF SdistInv
<1> QED BY <1>1, AlwaysSdistInv, PTL

-----------------------------------------------------------------------------
(* What the wheel reader accepts is a matter of the file alone.            *)

\* The definitions of WheelScan for a candidate that is given, and those of the loop
\* over zipfile's list before its member p, where sum adds up the sizes.
At(c) == INSTANCE WheelScan WITH candidate <- c

Named(i) ==
    LET parts == WheelList[i].name.parts IN parts[Len(parts)] = WheelRules.metadata

KeysBefore(p) == {Key(WheelList[i].name) : i \in 1 .. p - 1}
FilesBefore(p) == {Key(WheelList[i].name) : i \in {j \in 1 .. p - 1 : WheelList[j].file}}

Seen(p, sum) ==
    INSTANCE ArchiveMembers WITH
        place <- p, keys <- KeysBefore(p), files <- FilesBefore(p), total <- sum[p - 1],
        found <- {i \in 1 .. p - 1 : Named(i)}

\* sum adds up the sizes of the first n members.
AddsUp(sum, n) ==
    /\ sum \in [0 .. n -> Nat] /\ sum[0] = 0
    /\ \A i \in 1 .. n : sum[i] = sum[i - 1] + WheelList[i].size

\* The first p members pass, one after the other.
Pass(p, sum) == \A q \in 1 .. p : Seen(q, sum)!Admissible(WheelList[q], WheelRules)

AllPass(sum) ==
    /\ AddsUp(sum, Len(WheelList)) /\ Pass(Len(WheelList), sum)
    /\ Seen(Len(WheelList) + 1, sum)!Complete(WheelList, wheel.size, WheelRules)

\* The record that the backwards search has to find.
IsTheEnd(c) ==
    /\ wheel.size >= EndSize /\ c \in 1 .. Len(wheel.ends)
    /\ ReachesEnd(wheel.ends[c])
    /\ \A d \in c + 1 .. Len(wheel.ends) : ~ReachesEnd(wheel.ends[d])

\* A local header has the name of its entry.
WellNamed(e) ==
    /\ HasLocal(e.offset) /\ Local(e.offset).sound
    /\ Safe(Local(e.offset).name) /\ Local(e.offset).name = e.name

\* Both readers and all local headers are content with the directory of record c.
Fits(c) ==
    /\ IsTheEnd(c) /\ EndSound(At(c)!End)
    /\ At(c)!End.entries = Len(At(c)!Dir) /\ At(c)!OffsetsApart
    /\ \A i \in DOMAIN At(c)!Dir : CentralSound(At(c)!Dir[i]) /\ WellNamed(At(c)!Dir[i])
    /\ ZipOpens /\ Len(Infos) = Len(At(c)!Dir)
    /\ \A i \in DOMAIN At(c)!Dir :
          /\ Infos[i].name = At(c)!Dir[i].name
          /\ Infos[i].offset + Shift = At(c)!Dir[i].offset
    /\ \E sum : AllPass(sum)
    /\ \A i \in DOMAIN At(c)!Dir :
          /\ At(c)!LocalAgrees(At(c)!Dir[i], Infos[i])
          /\ WheelList[i].file => Inflates(At(c)!Dir[i], Infos[i])
    /\ wheel.approved

\* At the record that was found, the definitions are those of the reader.
LEMMA AtCandidate ==
    /\ At(candidate)!End = End /\ At(candidate)!Dir = Dir
    /\ At(candidate)!OffsetsApart <=> OffsetsApart
    /\ \A e, info : At(candidate)!LocalAgrees(e, info) <=> LocalAgrees(e, info)
<1> DEFINE c == candidate
<1>1. At(c)!End = End /\ At(c)!Dir = Dir /\ At(c)!DirAt = DirAt /\ At(c)!Offsets = Offsets
  BY DEF At!End, At!Dir, At!DirAt, At!Offsets, End, Dir, DirAt, Offsets
<1>2. At(c)!OffsetsApart <=> OffsetsApart
  BY <1>1 DEF At!OffsetsApart, OffsetsApart
<1>3. ASSUME NEW e, NEW info
      PROVE  At(c)!LocalAgrees(e, info) <=> LocalAgrees(e, info)
  <2>1. \A o : At(c)!RecordEnd(o) = RecordEnd(o)
    BY <1>1 DEF At!RecordEnd, RecordEnd
  <2> QED BY <2>1
      DEF At!LocalAgrees, LocalAgrees, At!Local, Local, At!PayloadAt, PayloadAt,
          At!BlankHeader, BlankHeader, At!DescriptorAgrees, DescriptorAgrees,
          At!Sizes, Sizes, At!Fields, Fields, At!FullValues, FullValues,
          At!NoValues, NoValues, At!Values, Values, At!DescriptorLength, DescriptorLength
<1> QED BY <1>1, <1>2, <1>3

\* Before member place, they are those of the loop.
LEMMA SeenIs ==
    ASSUME NEW sum, keys = KeysBefore(place), files = FilesBefore(place),
           total = sum[place - 1], found = {i \in 1 .. place - 1 : Named(i)}
    PROVE  /\ \A m, r : Seen(place, sum)!Admissible(m, r) <=> Admissible(m, r)
           /\ \A l, s, r : Seen(place, sum)!Complete(l, s, r) <=> Complete(l, s, r)
<1>1. ASSUME NEW m, NEW r
      PROVE  Seen(place, sum)!Admissible(m, r) <=> Admissible(m, r)
  BY DEF Seen!Admissible, Admissible, Seen!Safe, Safe, Seen!Key, Key, Seen!Bound, Bound,
         Seen!WithinLimits, WithinLimits, Seen!NoSize, NoSize
<1>2. ASSUME NEW l, NEW s, NEW r
      PROVE  Seen(place, sum)!Complete(l, s, r) <=> Complete(l, s, r)
  BY DEF Seen!Complete, Complete, Seen!BelowFile, BelowFile, Seen!Ancestors, Ancestors
<1> QED BY <1>1, <1>2

WheelAccepted == \E c : Fits(c)

\* The same, once the search has found its record.
Here ==
    /\ EndSound(End) /\ End.entries = Len(Dir) /\ OffsetsApart
    /\ \A i \in DOMAIN Dir : CentralSound(Dir[i]) /\ WellNamed(Dir[i])
    /\ ZipOpens /\ Bindings /\ \E sum : AllPass(sum)
    /\ \A i \in DOMAIN Dir : EntryAgrees(i)
    /\ wheel.approved

LEMMA FitsHere ==
    ASSUME IsTheEnd(candidate), IsWheel(wheel)
    PROVE  WheelAccepted <=> Here
<1>1. Len(wheel.ends) \in Nat
  BY DEF IsWheel
<1>2. ASSUME NEW c, Fits(c) PROVE c = candidate
  <2>1. IsTheEnd(c)
    BY <1>2 DEF Fits
  <2> QED BY <1>1, <2>1 DEF IsTheEnd
<1>3. Fits(candidate) <=> Here
  BY AtCandidate DEF Fits, Here, Bindings, EntryAgrees
<1> QED BY <1>2, <1>3 DEF WheelAccepted

\* All of this is about the file, which no step changes.
LEMMA FileOnly ==
    ASSUME wheel' = wheel
    PROVE  /\ \A c : IsTheEnd(c)' <=> IsTheEnd(c)
           /\ \A e : WellNamed(e)' <=> WellNamed(e)
           /\ \A sum, p : Pass(p, sum)' <=> Pass(p, sum)
           /\ \A sum, p : AddsUp(sum, p)' <=> AddsUp(sum, p)
           /\ (\E sum : AllPass(sum))' <=> (\E sum : AllPass(sum))
           /\ (ZipOpens' <=> ZipOpens) /\ (WheelAccepted' <=> WheelAccepted)
<1>1. WheelList' = WheelList /\ Infos' = Infos /\ ZipEnd' = ZipEnd /\ Shift' = Shift
  BY SameWheel
<1>2. /\ \A c : IsTheEnd(c)' <=> IsTheEnd(c)
      /\ \A e : WellNamed(e)' <=> WellNamed(e)
      /\ ZipOpens' <=> ZipOpens
  BY <1>1 DEF IsTheEnd, ReachesEnd, WellNamed, HasLocal, Local, ZipOpens
<1>3. \A p : KeysBefore(p)' = KeysBefore(p) /\ FilesBefore(p)' = FilesBefore(p)
  BY <1>1 DEF KeysBefore, FilesBefore
<1>4. \A i : Named(i)' <=> Named(i)
  BY <1>1 DEF Named
<1>5. \A sum, p : AddsUp(sum, p)' <=> AddsUp(sum, p)
  BY <1>1 DEF AddsUp
<1>6. ASSUME NEW sum, NEW p
      PROVE  /\ \A m, r : Seen(p, sum)!Admissible(m, r)' <=> Seen(p, sum)!Admissible(m, r)
             /\ \A l, s, r : Seen(p, sum)!Complete(l, s, r)' <=> Seen(p, sum)!Complete(l, s, r)
  BY <1>3, <1>4 DEF Seen!Admissible, Seen!WithinLimits, Seen!Complete
<1>7. \A sum, p : Pass(p, sum)' <=> Pass(p, sum)
  BY <1>1, <1>6 DEF Pass
<1>8. \A sum : AllPass(sum)' <=> AllPass(sum)
  BY <1>1, <1>5, <1>6, <1>7 DEF AllPass
<1>9. ASSUME NEW c
      PROVE  Fits(c)' <=> Fits(c)
  <2>1. /\ At(c)!End' = At(c)!End /\ At(c)!Dir' = At(c)!Dir /\ At(c)!DirAt' = At(c)!DirAt
        /\ At(c)!Offsets' = At(c)!Offsets
    BY DEF At!End, At!Dir, At!DirAt, At!Offsets
  <2>2. At(c)!OffsetsApart' <=> At(c)!OffsetsApart
    BY <2>1 DEF At!OffsetsApart
  <2>3. \A e, info : At(c)!LocalAgrees(e, info)' <=> At(c)!LocalAgrees(e, info)
    <3>1. \A o : At(c)!RecordEnd(o)' = At(c)!RecordEnd(o)
      BY <2>1 DEF At!RecordEnd
    <3>2. \A o : At(c)!Local(o)' = At(c)!Local(o)
      BY DEF At!Local
    <3> QED BY <3>1, <3>2
        DEF At!LocalAgrees, At!PayloadAt, At!DescriptorAgrees
  <2>4. \A e, info : Inflates(e, info)' <=> Inflates(e, info)
    BY DEF Inflates, Local
  <2> QED BY <1>1, <1>2, <1>8, <2>1, <2>2, <2>3, <2>4 DEF Fits
<1> QED BY <1>2, <1>5, <1>7, <1>8, <1>9 DEF WheelAccepted

-----------------------------------------------------------------------------
(* The wheel reader comes to the verdict of WheelAccepted.                 *)

\* The loop over the members, seen from before member place.
Walk ==
    /\ found = {i \in 1 .. place - 1 : Named(i)}
    /\ \E sum : AddsUp(sum, place - 1) /\ total = sum[place - 1] /\ Pass(place - 1, sum)
    /\ \A sum : AddsUp(sum, Len(WheelList)) => total = sum[place - 1]

Found == {"central", "locals", "members", "contents", "accepted"}

ReadInv ==
    /\ wpc = "search" =>
          \A d \in candidate + 1 .. Len(wheel.ends) : ~ReachesEnd(wheel.ends[d])
    /\ wpc \in Found => IsTheEnd(candidate) /\ EndSound(End)
    /\ wpc = "central" => \A i \in 1 .. entry - 1 : i <= Len(Dir) /\ CentralSound(Dir[i])
    /\ wpc \in Found \ {"central"} =>
          End.entries = Len(Dir) /\ \A i \in DOMAIN Dir : CentralSound(Dir[i])
    /\ wpc = "locals" => \A i \in 1 .. entry - 1 : WellNamed(Dir[i])
    /\ wpc \in {"members", "contents", "accepted"} =>
          ZipOpens /\ \A i \in DOMAIN Dir : WellNamed(Dir[i])
    /\ wpc = "members" => Walk
    /\ wpc \in {"contents", "accepted"} => \E sum : AllPass(sum)
    /\ wpc = "accepted" => wheel.approved /\ WheelAccepted
    /\ wpc = "rejected" => ~WheelAccepted

\* A step that keeps the candidate keeps the end record and its directory.
LEMMA SameEnd ==
    ASSUME wheel' = wheel, candidate' = candidate
    PROVE  End' = End /\ Dir' = Dir /\ (EndSound(End)' <=> EndSound(End))
           /\ \A i : CentralSound(Dir[i])' <=> CentralSound(Dir[i])
BY DEF End, Dir, EndSound, CentralSound

\* The backwards search passes no record that reaches the end of the file.
LEMMA ReadSearch ==
    ASSUME TInv, ReadInv, WheelSearch
    PROVE  ReadInv'
<1>1. /\ candidate \in 0 .. Len(wheel.ends) /\ Len(wheel.ends) \in Nat /\ wheel' = wheel
      /\ \A d \in candidate + 1 .. Len(wheel.ends) : ~ReachesEnd(wheel.ends[d])
      /\ IsWheel(wheel) /\ entry' = 1
  BY DEF TInv, IsWheel, ReadInv, WheelSearch
<1>2. CASE wheel.size < EndSize \/ candidate = 0
  <2>1. wpc' = "rejected"
    BY <1>1, <1>2, WheelAssumption DEF WheelSearch, Goto, IsWheel
  <2>2. \A c : ~IsTheEnd(c)
    BY <1>1, <1>2, WheelAssumption DEF IsTheEnd, IsWheel
  <2>3. ~WheelAccepted
    BY <2>2 DEF WheelAccepted, Fits
  <2> QED BY <1>1, <2>1, <2>3, FileOnly DEF ReadInv, Found
<1>3. CASE wheel.size >= EndSize /\ candidate > 0 /\ ~ReachesEnd(End)
  <2>1. candidate' = candidate - 1 /\ wpc' = "search"
    BY <1>1, <1>3, WheelAssumption DEF WheelSearch, Before, IsWheel
  <2>2. \A d \in candidate' + 1 .. Len(wheel.ends) : ~ReachesEnd(wheel.ends[d])
    BY <1>1, <1>3, <2>1 DEF End
  <2>3. \A d : ReachesEnd(wheel.ends[d])' <=> ReachesEnd(wheel.ends[d])
    BY <1>1 DEF ReachesEnd
  <2> QED BY <1>1, <2>1, <2>2, <2>3 DEF ReadInv, Found
<1>4. CASE wheel.size >= EndSize /\ candidate > 0 /\ ReachesEnd(End)
  <2>1. candidate' = candidate /\ wpc' = IF EndSound(End) THEN "central" ELSE "rejected"
    BY <1>1, <1>4, WheelAssumption DEF WheelSearch, Goto, IsWheel
  <2>2. IsTheEnd(candidate)
    BY <1>1, <1>4 DEF IsTheEnd, End
  <2>3. ~EndSound(End) => ~WheelAccepted
    BY <1>1, <2>2, FitsHere DEF Here
  <2>4. (IsTheEnd(candidate)' <=> IsTheEnd(candidate)) /\ (WheelAccepted' <=> WheelAccepted)
    BY <1>1, <2>1, FileOnly
  <2> QED BY <1>1, <2>1, <2>2, <2>3, <2>4, SameEnd DEF ReadInv, Found
<1> QED BY <1>1, <1>2, <1>3, <1>4, WheelAssumption DEF IsWheel

\* The passes that leave the candidate alone.
LEMMA ReadOn ==
    ASSUME wheel' = wheel, candidate' = candidate, ReadInv, wpc \in Found
    PROVE  /\ (IsTheEnd(candidate) /\ EndSound(End))'
           /\ Dir' = Dir /\ End' = End
           /\ \A i : CentralSound(Dir[i])' <=> CentralSound(Dir[i])
           /\ \A i : WellNamed(Dir[i])' <=> WellNamed(Dir[i])
           /\ (ZipOpens' <=> ZipOpens) /\ (WheelAccepted' <=> WheelAccepted)
<1>1. IsTheEnd(candidate) /\ EndSound(End)
  BY DEF ReadInv
<1>2. IsTheEnd(candidate)'
  BY <1>1, FileOnly
<1>3. \A i : WellNamed(Dir[i])' <=> WellNamed(Dir[i])
  BY SameEnd DEF WellNamed, HasLocal, Local
<1> QED BY <1>1, <1>2, <1>3, FileOnly, SameEnd

\* The central entries are sound, and each has a place of its own.
LEMMA ReadCentral ==
    ASSUME TInv, ReadInv, WheelCentral
    PROVE  ReadInv'
<1>1. /\ wheel' = wheel /\ candidate' = candidate /\ wpc = "central" /\ entry \in Nat \ {0}
      /\ IsWheel(wheel) /\ candidate \in 0 .. Len(wheel.ends) /\ candidate # 0
  BY DEF WheelCentral, TInv, TypeOK, ReadersTypeOK
<1>2. Dir \in Seq(Entries) /\ Len(Dir) \in Nat /\ End.entries \in Nat /\ wpc \in Found
  BY <1>1, EndsType DEF EndRecords, Found
<1>3. /\ IsTheEnd(candidate) /\ EndSound(End)
      /\ \A i \in 1 .. entry - 1 : i <= Len(Dir) /\ CentralSound(Dir[i])
  BY <1>1, <1>2 DEF ReadInv
<1>4. WheelAccepted <=> Here
  BY <1>1, <1>3, FitsHere
<1>5. CASE entry <= End.entries /\ entry <= Len(Dir) /\ CentralSound(Dir[entry])
  <2>1. entry' = entry + 1 /\ wpc' = "central"
    BY <1>1, <1>5 DEF WheelCentral
  <2>2. \A i \in 1 .. entry' - 1 : i <= Len(Dir) /\ CentralSound(Dir[i])
    BY <1>1, <1>3, <1>5, <2>1
  <2> QED BY <1>1, <1>2, <2>1, <2>2, ReadOn DEF ReadInv, Found
<1>6. CASE entry > End.entries /\ End.entries = Len(Dir) /\ OffsetsApart
  <2>1. entry' = 1 /\ wpc' = "locals"
    BY <1>1, <1>2, <1>6 DEF WheelCentral, Goto
  <2>2. \A i \in DOMAIN Dir : CentralSound(Dir[i])
    BY <1>1, <1>2, <1>3, <1>6
  <2> QED BY <1>1, <1>2, <1>6, <2>1, <2>2, ReadOn DEF ReadInv, Found
<1>7. CASE ~(IF entry <= End.entries THEN entry <= Len(Dir) /\ CentralSound(Dir[entry])
             ELSE End.entries = Len(Dir) /\ OffsetsApart)
  <2>1. wpc' = "rejected"
    BY <1>1, <1>2, <1>7 DEF WheelCentral, Goto
  <2>2. ~Here
    BY <1>1, <1>2, <1>7 DEF Here
  <2> QED BY <1>1, <1>2, <1>4, <2>1, <2>2, ReadOn DEF ReadInv, Found
<1> QED BY <1>1, <1>2, <1>5, <1>6, <1>7

\* The local headers have the names of their entries.
LEMMA ReadLocal ==
    ASSUME TInv, ReadInv, WheelLocal
    PROVE  ReadInv'
<1>1. /\ wheel' = wheel /\ candidate' = candidate /\ wpc = "locals" /\ entry \in Nat \ {0}
      /\ IsWheel(wheel) /\ candidate \in 0 .. Len(wheel.ends) /\ candidate # 0
      /\ entry <= Len(Dir)
  BY DEF WheelLocal, TInv, TypeOK, ReadersTypeOK
<1>2. Dir \in Seq(Entries) /\ Len(Dir) \in Nat /\ wpc \in Found
  BY <1>1, EndsType DEF Found
<1>3. /\ IsTheEnd(candidate) /\ EndSound(End) /\ End.entries = Len(Dir)
      /\ \A i \in DOMAIN Dir : CentralSound(Dir[i])
      /\ \A i \in 1 .. entry - 1 : WellNamed(Dir[i])
  BY <1>1, <1>2 DEF ReadInv, Found
<1>4. WheelAccepted <=> Here
  BY <1>1, <1>3, FitsHere
<1>5. CASE WellNamed(Dir[entry])
  <2>1. entry' = entry + 1 /\ wpc' = "locals"
    BY <1>1, <1>5 DEF WheelLocal, WellNamed
  <2>2. \A i \in 1 .. entry' - 1 : WellNamed(Dir[i])
    BY <1>1, <1>3, <1>5, <2>1
  <2> QED BY <1>1, <1>2, <1>3, <2>1, <2>2, ReadOn DEF ReadInv, Found
<1>6. CASE ~WellNamed(Dir[entry])
  <2>1. wpc' = "rejected"
    BY <1>1, <1>6 DEF WheelLocal, Goto, WellNamed
  <2>2. ~Here
    BY <1>1, <1>2, <1>6 DEF Here
  <2> QED BY <1>1, <1>2, <1>4, <2>1, <2>2, ReadOn DEF ReadInv, Found
<1> QED BY <1>5, <1>6

\* zipfile opens the file and lists the same names and offsets.
LEMMA ReadBind ==
    ASSUME TInv, ReadInv, WheelBind
    PROVE  ReadInv'
<1>1. /\ wheel' = wheel /\ candidate' = candidate /\ wpc = "locals" /\ entry \in Nat \ {0}
      /\ IsWheel(wheel) /\ candidate \in 0 .. Len(wheel.ends) /\ candidate # 0
      /\ entry > Len(Dir)
  BY DEF WheelBind, TInv, TypeOK, ReadersTypeOK
<1>2. Dir \in Seq(Entries) /\ Len(Dir) \in Nat /\ wpc \in Found
  BY <1>1, EndsType DEF Found
<1>3. /\ IsTheEnd(candidate) /\ EndSound(End) /\ End.entries = Len(Dir)
      /\ \A i \in DOMAIN Dir : CentralSound(Dir[i])
      /\ \A i \in 1 .. entry - 1 : WellNamed(Dir[i])
  BY <1>1, <1>2 DEF ReadInv, Found
<1>4. WheelAccepted <=> Here
  BY <1>1, <1>3, FitsHere
<1>5. CASE ZipOpens /\ Bindings
  <2>1. StartMembers /\ wpc' = "members"
    BY <1>1, <1>5 DEF WheelBind, Goto, Bindings
  <2>2. \A i \in DOMAIN Dir : WellNamed(Dir[i])
    BY <1>1, <1>2, <1>3
  <2>3. Walk'
    <3>1. place' = 1 /\ total' = 0 /\ found' = {}
      BY <2>1 DEF StartMembers
    <3>2. found' = {i \in 1 .. place' - 1 : Named(i)'}
      BY <3>1
    <3>3. AddsUp([i \in 0 .. 0 |-> 0], 0) /\ Pass(0, [i \in 0 .. 0 |-> 0])
      BY DEF AddsUp, Pass
    <3>4. \A sum : AddsUp(sum, Len(WheelList)) => sum[0] = 0
      BY DEF AddsUp
    <3>5. /\ AddsUp([i \in 0 .. 0 |-> 0], 0)' /\ Pass(0, [i \in 0 .. 0 |-> 0])'
          /\ \A sum : AddsUp(sum, Len(WheelList))' => sum[0] = 0
      BY <1>1, <3>3, <3>4, FileOnly, SameWheel
    <3> DEFINE zero == [i \in 0 .. 0 |-> 0]
    <3>6. zero[0] = 0
      OBVIOUS
    <3> HIDE DEF zero
    <3> QED BY <3>1, <3>2, <3>5, <3>6 DEF Walk, zero
  <2> QED BY <1>1, <1>2, <1>3, <1>5, <2>1, <2>2, <2>3, ReadOn DEF ReadInv, Found
<1>6. CASE ~(ZipOpens /\ Bindings)
  <2>1. wpc' = "rejected"
    BY <1>1, <1>6 DEF WheelBind, Goto, Bindings
  <2>2. ~Here
    BY <1>6 DEF Here
  <2> QED BY <1>1, <1>2, <1>4, <2>1, <2>2, ReadOn DEF ReadInv, Found
<1> QED BY <1>5, <1>6

\* The walk over zipfile's list is the one of AllPass.
LEMMA WalkIs ==
    ASSUME TInv, PortableInv, wpc = "members"
    PROVE  /\ keys = KeysBefore(place) /\ files = FilesBefore(place)
           /\ WheelList \in Seq(Member) /\ Len(WheelList) \in Nat
           /\ place \in 1 .. Len(WheelList) + 1
<1>1. WheelList \in Seq(Member)
  BY EndsType DEF TInv
<1> QED BY <1>1 DEF PortableInv, MembersUpTo, KeysBefore, FilesBefore, TInv, TypeOK, ReadersTypeOK

\* The member that the loop refuses is one that AllPass does not let pass.
LEMMA ReadWheelMember ==
    ASSUME TInv, PortableInv, ReadInv, WheelInv, WheelMember
    PROVE  ReadInv'
<1> DEFINE L == Len(WheelList)
           item == WheelList[place]
<1>1. /\ wheel' = wheel /\ candidate' = candidate /\ wpc = "members"
      /\ IsWheel(wheel) /\ candidate \in 0 .. Len(wheel.ends) /\ candidate # 0
      /\ wpc \in Found
  BY DEF WheelMember, TInv, Found
<1>2. /\ keys = KeysBefore(place) /\ files = FilesBefore(place)
      /\ WheelList \in Seq(Member) /\ L \in Nat /\ place \in 1 .. L + 1
  BY <1>1, WalkIs
<1>3. /\ IsTheEnd(candidate) /\ EndSound(End) /\ End.entries = Len(Dir) /\ ZipOpens
      /\ \A i \in DOMAIN Dir : CentralSound(Dir[i]) /\ WellNamed(Dir[i])
      /\ Walk
  BY <1>1 DEF ReadInv, Found
<1>4. WheelAccepted <=> Here
  BY <1>1, <1>3, FitsHere
<1>5. found = {i \in 1 .. place - 1 : Named(i)}
  BY <1>3 DEF Walk
<1>6. PICK sum : AddsUp(sum, place - 1) /\ total = sum[place - 1] /\ Pass(place - 1, sum)
  BY <1>3 DEF Walk
<1>7. ASSUME NEW s, total = s[place - 1]
      PROVE  /\ \A m, r : Seen(place, s)!Admissible(m, r) <=> Admissible(m, r)
             /\ \A l, z, r : Seen(place, s)!Complete(l, z, r) <=> Complete(l, z, r)
  BY <1>2, <1>5, <1>7, SeenIs
<1>8. CASE place <= L /\ Admissible(item, WheelRules)
  <2>1. Admit(item, WheelRules) /\ wpc' = "members"
    BY <1>1, <1>8 DEF WheelMember
  <2>2. item \in Member /\ item.size \in Nat /\ place \in 1 .. L
    <3>1. place \in 1 .. L
      BY <1>2, <1>8
    <3>2. item \in Member
      BY <1>2, <3>1
    <3> QED BY <3>1, <3>2 DEF Member
  <2>3. place' = place + 1 /\ total' = total + item.size
        /\ found' = IF Named(place) THEN found \cup {place} ELSE found
    BY <2>1 DEF Admit, Named
  <2>4. found' = {i \in 1 .. place' - 1 : Named(i)}
    BY <1>5, <2>2, <2>3
  <2> DEFINE more == [i \in 0 .. place |-> IF i = place THEN total + item.size ELSE sum[i]]
  <2>5. ASSUME NEW i \in 0 .. place - 1 PROVE more[i] = sum[i] /\ sum[i] \in Nat
    <3>1. i \in 0 .. place /\ i # place
      BY <2>2
    <3>2. more[i] = sum[i]
      BY <3>1
    <3> QED BY <1>6, <3>2 DEF AddsUp
  <2>6. more[place] = total + item.size /\ total \in Nat /\ more \in [0 .. place -> Nat]
    BY <1>6, <2>2, <2>5 DEF AddsUp
  <2> HIDE DEF more
  <2>7. AddsUp(more, place)
    <3>1. more[0] = 0
      BY <1>6, <2>2, <2>5 DEF AddsUp
    <3>2. ASSUME NEW i \in 1 .. place PROVE more[i] = more[i - 1] + WheelList[i].size
      <4>1. CASE i = place
        BY <1>6, <2>2, <2>5, <2>6, <4>1
      <4>2. CASE i # place
        BY <1>6, <2>2, <2>5, <4>2 DEF AddsUp
      <4> QED BY <4>1, <4>2
    <3> QED BY <2>6, <3>1, <3>2 DEF AddsUp
  <2>8. Pass(place, more)
    <3> SUFFICES ASSUME NEW q \in 1 .. place
                 PROVE  Seen(q, more)!Admissible(WheelList[q], WheelRules)
      BY DEF Pass
    <3>1. CASE q = place
      <4>1. total = more[place - 1]
        BY <1>6, <2>2, <2>5
      <4> QED BY <1>7, <1>8, <3>1, <4>1
    <3>2. CASE q # place
      <4>1. more[q - 1] = sum[q - 1] /\ q \in 1 .. place - 1
        BY <2>2, <2>5, <3>2
      <4>2. Seen(q, sum)!Admissible(WheelList[q], WheelRules)
        BY <1>6, <4>1 DEF Pass
      <4>3. Seen(q, more)!WithinLimits(WheelList[q]) <=> Seen(q, sum)!WithinLimits(WheelList[q])
        BY <4>1 DEF Seen!WithinLimits, Seen!NoSize
      <4> QED BY <4>2, <4>3 DEF Seen!Admissible, Seen!Safe, Seen!Key, Seen!Bound
    <3> QED BY <3>1, <3>2
  <2>9. ASSUME NEW s, AddsUp(s, L) PROVE total + item.size = s[place]
    <3>1. total = s[place - 1]
      BY <1>3, <2>9 DEF Walk
    <3> QED BY <2>2, <2>9, <3>1 DEF AddsUp
  <2>10. Walk'
    <3>1. place' - 1 = place
      BY <2>2, <2>3
    <3>2. \A i : Named(i)' <=> Named(i)
      BY <1>1, SameWheel DEF Named
    <3>3. PICK n, s : /\ n = place /\ AddsUp(s, n) /\ Pass(n, s)
                      /\ s[n] = total + item.size
      BY <2>6, <2>7, <2>8
    <3>4. AddsUp(s, n)' /\ Pass(n, s)'
      BY <1>1, <3>3, FileOnly
    <3>5. WheelList' = WheelList /\ \A t : AddsUp(t, L)' <=> AddsUp(t, L)
      BY <1>1, FileOnly, SameWheel
    <3>6. \A t : AddsUp(t, Len(WheelList))' => t[n] = total'
      BY <2>3, <2>9, <3>3, <3>5
    <3>7. found' = {i \in 1 .. place' - 1 : Named(i)'}
      BY <2>4, <3>2
    <3> QED BY <2>3, <3>1, <3>3, <3>4, <3>6, <3>7 DEF Walk
  <2> QED BY <1>1, <1>3, <2>1, <2>10, ReadOn DEF ReadInv, Found
<1>9. CASE place > L /\ Complete(WheelList, wheel.size, WheelRules)
  <2>1. wpc' = "contents" /\ place = L + 1 /\ place - 1 = L
    BY <1>1, <1>2, <1>9 DEF WheelMember, Goto
  <2>2. Seen(L + 1, sum)!Complete(WheelList, wheel.size, WheelRules)
    <3>1. Seen(place, sum)!Complete(WheelList, wheel.size, WheelRules)
      BY <1>6, <1>7, <1>9
    <3> QED BY <2>1, <3>1
  <2>3. AllPass(sum)
    BY <1>6, <2>1, <2>2 DEF AllPass
  <2> QED BY <1>1, <1>3, <2>1, <2>3, ReadOn, FileOnly DEF ReadInv, Found
<1>10. CASE \/ place <= L /\ ~Admissible(item, WheelRules)
            \/ place > L /\ ~Complete(WheelList, wheel.size, WheelRules)
  <2>1. wpc' = "rejected"
    BY <1>1, <1>2, <1>10 DEF WheelMember, Goto
  <2>2. ASSUME NEW s, AllPass(s) PROVE FALSE
    <3>1. total = s[place - 1]
      BY <1>3, <2>2 DEF AllPass, Walk
    <3>2. CASE place <= L
      <4>1. Seen(place, s)!Admissible(item, WheelRules)
        BY <1>2, <2>2, <3>2 DEF AllPass, Pass
      <4>2. ~(place > L)
        BY <1>2, <3>2
      <4> QED BY <1>7, <1>10, <3>1, <4>1, <4>2
    <3>3. CASE place > L
      <4>1. place = L + 1 /\ ~(place <= L)
        BY <1>2, <3>3
      <4>2. Seen(place, s)!Complete(WheelList, wheel.size, WheelRules)
        BY <2>2, <4>1 DEF AllPass
      <4> QED BY <1>7, <1>10, <3>1, <4>1, <4>2
    <3> QED BY <1>2, <3>2, <3>3
  <2>3. ~Here
    BY <2>2 DEF Here
  <2> QED BY <1>1, <1>4, <2>1, <2>3, ReadOn DEF ReadInv, Found
<1> QED BY <1>2, <1>8, <1>9, <1>10

\* The local headers agree with both directories.
LEMMA ReadContent ==
    ASSUME TInv, ReadInv, WheelInv, WheelContent
    PROVE  ReadInv'
<1>1. /\ wheel' = wheel /\ candidate' = candidate /\ wpc = "contents" /\ entry \in Nat \ {0}
      /\ IsWheel(wheel) /\ candidate \in 0 .. Len(wheel.ends) /\ candidate # 0
      /\ wpc \in Found
  BY DEF WheelContent, TInv, TypeOK, ReadersTypeOK, Found
<1>2. /\ Dir \in Seq(Entries) /\ Infos \in Seq(Entries) /\ WheelList \in Seq(Member)
      /\ Len(WheelList) = Len(Infos)
  BY <1>1, EndsType
<1>3. /\ IsTheEnd(candidate) /\ EndSound(End) /\ End.entries = Len(Dir) /\ ZipOpens
      /\ \A i \in DOMAIN Dir : CentralSound(Dir[i]) /\ WellNamed(Dir[i])
      /\ \E sum : AllPass(sum)
  BY <1>1 DEF ReadInv, Found
<1>4. WheelAccepted <=> Here
  BY <1>1, <1>3, FitsHere
<1>5. /\ OffsetsApart /\ Bindings /\ Len(WheelList) = Len(Dir)
      /\ \A i \in DOMAIN Dir : i < entry => EntryAgrees(i)
  BY <1>1, <1>2 DEF WheelInv, Bindings
<1>6. (\E sum : AllPass(sum))'
  BY <1>1, <1>3, FileOnly
<1>7. CASE entry <= Len(WheelList) /\ EntryAgrees(entry)
  <2>1. wpc' = "contents"
    BY <1>1, <1>7 DEF WheelContent, EntryAgrees
  <2> QED BY <1>1, <1>3, <1>6, <2>1, ReadOn DEF ReadInv, Found
<1>8. CASE entry > Len(WheelList) /\ wheel.approved
  <2>1. wpc' = "accepted"
    BY <1>1, <1>2, <1>8 DEF WheelContent, Goto
  <2>2. \A i \in DOMAIN Dir : EntryAgrees(i)
    BY <1>1, <1>2, <1>5, <1>8
  <2>3. Here
    BY <1>3, <1>5, <1>8, <2>2 DEF Here
  <2> QED BY <1>1, <1>3, <1>4, <1>6, <1>8, <2>1, <2>3, ReadOn DEF ReadInv, Found
<1>9. CASE \/ entry <= Len(WheelList) /\ ~EntryAgrees(entry)
           \/ entry > Len(WheelList) /\ ~wheel.approved
  <2>1. wpc' = "rejected"
    BY <1>1, <1>2, <1>9 DEF WheelContent, Goto, EntryAgrees
  <2>2. ~Here
    BY <1>1, <1>2, <1>5, <1>9 DEF Here
  <2> QED BY <1>1, <1>4, <2>1, <2>2, ReadOn DEF ReadInv, Found
<1> QED BY <1>1, <1>2, <1>7, <1>8, <1>9

LEMMA StepReadInv ==
    ASSUME TInv, PortableInv, WheelInv, ReadInv, [Next]_vars
    PROVE  ReadInv'
<1>1. CASE ScanWheel
  BY <1>1, ReadSearch, ReadCentral, ReadLocal, ReadBind, ReadWheelMember, ReadContent
     DEF ScanWheel, WheelStep
<1>2. CASE List
  <2>1. wheel' = wheel /\ Len(wheel.ends) \in Nat
    BY <1>2 DEF List, TInv, IsWheel
  <2>2. CASE wpc' = "search" /\ candidate' = Len(wheel.ends)
    BY <2>1, <2>2 DEF ReadInv, Found
  <2>3. CASE wpc' = wpc /\ candidate' = candidate /\ entry' = entry /\ UNCHANGED members
    <3>1. wpc' \notin WheelRuns
      BY <1>2, <2>3 DEF List, TInv
    <3> QED BY <2>1, <2>3, <3>1, ReadOn, FileOnly DEF ReadInv, Found, WheelRuns
  <2> QED BY <1>2, <2>2, <2>3 DEF List
<1>3. CASE ~ScanWheel /\ ~List
  <2>1. /\ UNCHANGED wheelVars
        /\ wpc \in WheelRuns => UNCHANGED members
    <3>1. UNCHANGED wheelVars
      BY <1>3 DEF Next, Command, WheelDone, ScanSdist, SdistDone, Settle, Verify, Begin,
                  Change, vars
    <3>2. ASSUME wpc \in WheelRuns PROVE UNCHANGED members
      <4>1. pc = "wheel"
        BY <3>2 DEF TInv
      <4> QED BY <1>3, <4>1 DEF Next, Command, WheelDone, ScanSdist, SdistDone, Settle,
                                Verify, Begin, Change, vars
    <3> QED BY <3>1, <3>2
  <2>2. wheel' = wheel /\ candidate' = candidate /\ wpc' = wpc /\ entry' = entry
    BY <2>1 DEF wheelVars
  <2>3. CASE wpc = "search"
    BY <2>2, <2>3 DEF ReadInv, Found, ReachesEnd
  <2>4. CASE wpc \in Found
    <3>1. wpc = "members" => Walk'
      <4> SUFFICES ASSUME wpc = "members" PROVE Walk'
        OBVIOUS
      <4>1. Walk /\ place' = place /\ total' = total /\ found' = found
        BY <2>1 DEF ReadInv, WheelRuns, members
      <4>2. WheelList' = WheelList /\ \A i : Named(i)' <=> Named(i)
        BY <2>2, SameWheel DEF Named
      <4> QED BY <2>2, <4>1, <4>2, FileOnly DEF Walk
    <3> QED BY <2>2, <2>4, <3>1, ReadOn, FileOnly DEF ReadInv, Found
  <2>5. CASE wpc \notin Found \cup {"search"}
    BY <2>2, <2>5, FileOnly DEF ReadInv, Found
  <2> QED BY <2>3, <2>4, <2>5
<1> QED BY <1>1, <1>2, <1>3

LEMMA AlwaysReadInv == Spec => []ReadInv
<1>1. Init => ReadInv
  BY DEF Init, WheelInit, ReadInv, Found
<1>2. TInv /\ PortableInv /\ WheelInv /\ ReadInv /\ [Next]_vars => ReadInv'
  BY StepReadInv
<1> QED BY <1>1, <1>2, AlwaysTInv, AlwaysPortable, AlwaysWheelInv, PTL DEF Spec

-----------------------------------------------------------------------------
(* A directory that was only uploaded from.                                *)

\* While only uploads have happened, the directory has the two distributions as they
\* were built and sidecars of theirs; a manifest, once written, is intact, and both
\* archives are acceptable.
UploadInv ==
    /\ pc = "digest" => wpc = "accepted" /\ spc = "accepted"
    /\ ~touched =>
          /\ \A name \in Expected : name \in DOMAIN dist
          /\ \A name \in DOMAIN dist : name \in Expected \/ \E e \in Expected : name = Sidecar(e)
          /\ \A name \in DOMAIN dist : dist[name] = Built
          /\ manifest # NoManifest => manifest.state = "intact" /\ WheelAccepted /\ WellFormed
    /\ UploadsAreHarmless

\* Such a directory is what create_manifest and verify_manifest expect.
LEMMA UploadedIsListed ==
    ASSUME DirectoryTypeOK, UploadInv, ~touched
    PROVE  Listed /\ Digests = [wheel |-> 1, sdist |-> 1]
<1>1. /\ \A name \in Expected : name \in DOMAIN dist
      /\ \A name \in DOMAIN dist : name \in Expected \/ \E e \in Expected : name = Sidecar(e)
      /\ \A name \in DOMAIN dist : dist[name] = Built
  BY DEF UploadInv
<1>2. /\ Plain("wheel") \in Expected /\ Plain("sdist") \in Expected
      /\ \A e \in Expected : e.suffixes = 0 /\ e.base \in {"wheel", "sdist"}
      /\ \A e \in Expected : Sidecar(e) = [base |-> e.base, suffixes |-> 1]
      /\ \A e \in Expected : e = [base |-> e.base, suffixes |-> 0]
  BY DEF Expected, Plain, Sidecar
<1>3. ASSUME NEW e \in Expected PROVE ~IsSidecar(e)
  <2>1. e.suffixes = 0
    BY <1>2
  <2> QED BY <2>1 DEF IsSidecar
<1>4. ASSUME NEW e \in Expected PROVE IsSidecar(Sidecar(e))
  <2>1. Sidecar(e).suffixes = 1 /\ Sidecar(e).base \in {"wheel", "sdist"}
    BY <1>2
  <2>2. [base |-> "", suffixes |-> 1].base = ""
    OBVIOUS
  <2>3. Sidecar(e) # [base |-> "", suffixes |-> 1]
    BY <2>1, <2>2
  <2>4. Sidecar(e).suffixes > 0
    BY <2>1
  <2> QED BY <2>3, <2>4, Zenon DEF IsSidecar
<1>5. Distributions = Expected
  BY <1>1, <1>3, <1>4 DEF Distributions
<1>6. SidecarsMatch
  <2>1. ASSUME NEW name \in DOMAIN dist \ Distributions
        PROVE  [name EXCEPT !.suffixes = @ - 1] \in Distributions
    <3>1. PICK e \in Expected : name = Sidecar(e)
      BY <1>1, <1>5, <2>1
    <3>2. [name EXCEPT !.suffixes = @ - 1] = e
      BY <1>2, <3>1
    <3> QED BY <1>5, <3>2
  <2> QED BY <2>1 DEF SidecarsMatch
<1>7. \A name \in DOMAIN dist : dist[name].kind = "file" /\ dist[name].edition = 1
  BY <1>1 DEF Built
<1>8. Digests = [wheel |-> 1, sdist |-> 1]
  BY <1>1, <1>2, <1>7 DEF Digests
<1> QED BY <1>5, <1>6, <1>7, <1>8 DEF Listed

\* An upload adds a sidecar; any other change is one that touches.
LEMMA UploadsChange ==
    ASSUME TInv, UploadInv, Change
    PROVE  UploadInv'
<1>1. /\ pc' = "idle" /\ result' = "none" /\ wheel' = wheel /\ sdist' = sdist
  BY DEF Change, wheelVars, sdistVars
<1>2. CASE Upload
  <2>1. PICK name \in Expected \cap DOMAIN dist : dist' = Put(Sidecar(name), Built)
    BY <1>2 DEF Upload
  <2>2. /\ DOMAIN dist' = DOMAIN dist \cup {Sidecar(name)}
        /\ \A n \in DOMAIN dist' : dist'[n] = IF n = Sidecar(name) THEN Built ELSE dist[n]
    BY <2>1 DEF Put
  <2>3. manifest' = manifest /\ touched' = touched
    BY <1>2 DEF Upload
  <2>4. (WheelAccepted' <=> WheelAccepted) /\ (WellFormed' <=> WellFormed)
    BY <1>1, FileOnly, SameVerdict
  <2> QED BY <1>1, <2>1, <2>2, <2>3, <2>4 DEF UploadInv, UploadsAreHarmless
<1>3. CASE Disturb \/ Damage
  BY <1>1, <1>3 DEF UploadInv, UploadsAreHarmless, Disturb, Damage
<1> QED BY <1>2, <1>3 DEF Change

LEMMA StepUploads ==
    ASSUME TInv, BuiltInv, ReadInv, SdistInv, UploadInv, [Next]_vars
    PROVE  UploadInv'
<1>1. CASE Change
  BY <1>1, UploadsChange
<1>2. CASE ~Change
  <2>1. /\ dist' = dist /\ touched' = touched /\ wheel' = wheel /\ sdist' = sdist
    BY <1>2 DEF Next, Command, List, ScanWheel, WheelDone, ScanSdist, SdistDone, Settle,
                Verify, Begin, vars, dvars, wheelVars, sdistVars, WheelStep, WheelSearch,
                WheelCentral, WheelLocal, WheelBind, WheelMember, WheelContent, SdistStep,
                SdistOpen, SdistEnd, SdistPax, SdistHeader, SdistRefuse, SdistBind,
                SdistMember, SdistClose
  <2>2. (WheelAccepted' <=> WheelAccepted) /\ (WellFormed' <=> WellFormed)
    BY <2>1, FileOnly, SameVerdict
  <2>3. pc' = "digest" => wpc' = "accepted" /\ spc' = "accepted"
    <3>1. CASE ScanWheel
      BY <3>1 DEF ScanWheel, dvars
    <3>2. CASE ScanSdist
      BY <3>2 DEF ScanSdist, dvars
    <3>3. CASE List \/ Settle \/ Verify \/ Begin \/ WheelDone
      BY <3>3 DEF List, Settle, Write, Verify, Begin, WheelDone, Say
    <3>4. CASE SdistDone
      BY <3>4 DEF SdistDone, Say, TInv, wheelVars, sdistVars
    <3>5. CASE UNCHANGED vars
      BY <3>5 DEF vars, dvars, wheelVars, sdistVars, UploadInv
    <3> QED BY <1>2, <3>1, <3>2, <3>3, <3>4, <3>5 DEF Next, Command
  <2>4. ASSUME ~touched', manifest' # NoManifest
        PROVE  manifest'.state = "intact" /\ WheelAccepted /\ WellFormed
    <3>1. CASE manifest' = manifest
      BY <2>1, <2>4, <3>1 DEF UploadInv
    <3>2. CASE manifest' # manifest
      <4>1. pc = "digest" /\ manifest' = [state |-> "intact", digests |-> Digests]
        BY <1>2, <3>2 DEF Next, Command, List, ScanWheel, WheelDone, ScanSdist, SdistDone,
              Settle, Write, Verify, Begin, vars, dvars
      <4>2. WheelAccepted /\ WellFormed
        BY <4>1 DEF UploadInv, ReadInv, SdistInv, SdistVerdictIsExact
      <4> QED BY <4>1, <4>2
    <3> QED BY <3>1, <3>2
  <2>5. ASSUME ~touched, command' = "verify", result' = "mismatch"
        PROVE  FALSE
    <3>1. Listed /\ Digests = [wheel |-> 1, sdist |-> 1]
      BY <2>5, UploadedIsListed DEF TInv, TypeOK
    <3>2. CASE Begin
      BY <2>5, <3>2 DEF Begin
    <3>3. CASE result' = result /\ command' = command
      BY <2>5, <3>3 DEF UploadInv, UploadsAreHarmless
    <3>4. ASSUME ~Begin, command' = command, manifest # NoManifest
          PROVE  FALSE
      <4>1. manifest.state = "intact" /\ WheelAccepted /\ WellFormed
            /\ manifest.digests = [wheel |-> 1, sdist |-> 1]
        BY <2>5, <3>4 DEF UploadInv, BuiltInv
      <4>2. CASE List
        BY <2>5, <3>1, <3>3, <3>4, <4>2 DEF List
      <4>3. CASE WheelDone
        BY <2>5, <3>3, <3>4, <4>1, <4>3 DEF WheelDone, ReadInv
      <4>4. CASE SdistDone
        BY <2>5, <3>3, <3>4, <4>1, <4>4 DEF SdistDone, SdistInv, SdistVerdictIsExact
      <4>5. CASE Settle
        BY <2>5, <3>1, <3>4, <4>1, <4>5 DEF Settle, Say
      <4>6. CASE Verify
        <5>1. SidecarsMatch /\ Distributions = Expected /\ manifest.digests = Digests
          BY <3>1, <4>1 DEF Listed
        <5>2. \A name \in Expected : dist[name].kind = "file"
          BY <2>5, <3>1 DEF UploadInv, Listed
        <5> QED BY <3>3, <3>4, <4>1, <4>6, <5>1, <5>2 DEF Verify
      <4>7. CASE ScanWheel \/ ScanSdist \/ UNCHANGED vars
        BY <3>3, <4>7 DEF ScanWheel, ScanSdist, vars, dvars
      <4> QED BY <1>2, <3>4, <4>2, <4>3, <4>4, <4>5, <4>6, <4>7 DEF Next, Command
    <3>5. ~Begin => command' = command
      BY <1>2 DEF Next, Command, List, ScanWheel, WheelDone, ScanSdist, SdistDone, Settle,
                  Verify, vars, dvars
    <3>6. ~Begin => manifest # NoManifest
      BY <2>5, <3>5 DEF BuiltInv
    <3> QED BY <3>2, <3>4, <3>5, <3>6
  <2>6. UploadsAreHarmless'
    BY <2>1, <2>5 DEF UploadsAreHarmless, TInv, TypeOK, DirectoryTypeOK
  <2>7. ~touched' =>
          /\ \A name \in Expected : name \in DOMAIN dist'
          /\ \A name \in DOMAIN dist' : name \in Expected \/ \E e \in Expected : name = Sidecar(e)
          /\ \A name \in DOMAIN dist' : dist'[name] = Built
    BY <2>1 DEF UploadInv
  <2> QED BY <2>2, <2>3, <2>4, <2>6, <2>7 DEF UploadInv
<1> QED BY <1>1, <1>2

\* However often a directory is uploaded from, verify_manifest goes on accepting it:
\* the readers, run again, come to the verdict of the first time, and the sidecars
\* are told apart.
THEOREM UploadsDoNoHarm == Spec => []UploadsAreHarmless
<1>1. Init => UploadInv
  <2> SUFFICES ASSUME Init PROVE UploadInv
    OBVIOUS
  <2>1. DOMAIN dist = Expected /\ \A name \in DOMAIN dist : dist[name] = Built
    BY DEF Init
  <2> QED BY <2>1 DEF Init, UploadInv, UploadsAreHarmless
<1>2. TInv /\ BuiltInv /\ ReadInv /\ SdistInv /\ UploadInv /\ [Next]_vars => UploadInv'
  BY StepUploads
<1>3. UploadInv => UploadsAreHarmless
  BY DEF UploadInv
<1> QED BY <1>1, <1>2, <1>3, AlwaysTInv, AlwaysBuilt, AlwaysReadInv, AlwaysSdistInv, PTL
        DEF Spec

=============================================================================
