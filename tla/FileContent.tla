---------------------------- MODULE FileContent ----------------------------
(***************************************************************************)
(* What an uploaded file is (lib/facilities-files/verification.ts): its    *)
(* name promises a type, and verifyFacilitiesUpload reads the bytes until  *)
(* they show one.  An archive is read member by member, twice: its         *)
(* directory, and, when it is no office document, the head of each member. *)
(* The bytes are seen as what the code tells apart in them: how they open, *)
(* what a directory at their end says, and what each of its members holds. *)
(***************************************************************************)
EXTENDS Naturals, Sequences, FiniteSets

CONSTANTS
  Files,         \* the files that may arrive
  MaxFileBytes, MaxUnpackedBytes, MaxRatio, MaxEntries,
  Ignored,       \* names of directories and of what desktop tools add
  MemberHead,    \* what a member opens with, by its name (its extension)
  Escaping       \* names that are no plain relative path

ExtensionType ==
  [pdf |-> "PDF", doc |-> "DOC", docx |-> "DOCX", xls |-> "XLS", xlsx |-> "XLSX",
   csv |-> "CSV", zip |-> "ZIP", jpg |-> "JPG", jpeg |-> "JPG", png |-> "PNG",
   webp |-> "WEBP", heic |-> "HEIC", heif |-> "HEIC"]
FileTypes == {ExtensionType[x] : x \in DOMAIN ExtensionType}
Images == {"JPG", "PNG", "WEBP", "HEIC"}
Refusals == {"UNSUPPORTED_FILENAME", "FILE_EMPTY", "FILE_TOO_LARGE",
             "CONTENT_TYPE_MISMATCH", "CONTENT_CORRUPT", "ZIP_UNSAFE"}

ContentTypes == "[content_types].xml"
OfficeRoot == [DOCX |-> "word/document.xml", XLSX |-> "xl/workbook.xml"]

\* A member of an archive: its name, in the lower case that the code compares;
\* whether its record in the directory is intact and can be read (no password,
\* a known method); its sizes; whether its own header agrees with the record;
\* and what it holds, or that it cannot be inflated.
OfficeParts == {"Types", "w:document", "workbook", "workbook without sheets"}
Holdings == {"PDF", "JPG", "OOXML", "ARCHIVE", "TEXT", "UNKNOWN", "nothing", "undecodable"}
              \cup OfficeParts
Members == [name : DOMAIN MemberHead \cup Ignored \cup Escaping
                     \cup {ContentTypes, OfficeRoot.DOCX, OfficeRoot.XLSX, "other"},
            intact : BOOLEAN, readable : BOOLEAN,
            packed : Nat, unpacked : Nat, agrees : BOOLEAN, holds : Holdings]

\* `whole' is whether the other marks of that format are there too: the end of a
\* JPEG, the header and brands of the other images; of a compound document, its
\* versions and everything that the library checks when it opens it.  One that
\* is shorter than a sector is none: its bytes are BINARY.
FileRecords ==
  [size : Nat, extension : DOMAIN ExtensionType \cup {"other", "nameless"},
   opening : {"PDF", "CFB", "TEXT", "BINARY"} \cup Images, whole : BOOLEAN,
   streams : SUBSET {"worddocument", "workbook", "book"},
   directory : {"absent", "strange", "sound"}, ends : BOOLEAN, members : Seq(Members)]

ASSUME ContentConstants ==
  /\ Files \subseteq FileRecords
  /\ {MaxFileBytes, MaxUnpackedBytes, MaxRatio, MaxEntries} \subseteq Nat

VARIABLES
  sample,      \* the file
  reading,     \* what of it is read next
  at,          \* how many members were read
  seen,        \* the names of those
  unpacked,    \* and their bytes when they are unpacked
  verdict      \* its type, or why it is refused

contentVars == <<sample, reading, at, seen, unpacked, verdict>>

ContentInit ==
  /\ sample \in Files
  /\ reading = "upload" /\ at = 0 /\ seen = {} /\ unpacked = 0 /\ verdict = "none"

Judge(v) == reading' = "judged" /\ verdict' = v /\ UNCHANGED <<sample, at, seen, unpacked>>
Conclude(type) ==
  Judge(IF type = ExtensionType[sample.extension] THEN type ELSE "CONTENT_TYPE_MISMATCH")

-----------------------------------------------------------------------------
Supported ==
  /\ sample.size \in 1 .. MaxFileBytes
  /\ sample.extension \in DOMAIN ExtensionType

IsCompound(f) == f.opening = "CFB"
OpensAsItself(f) == f.opening = "PDF" \/ (f.opening \in Images /\ f.whole)

RefuseUpload ==
  /\ reading = "upload"
  /\ \/ sample.extension = "nameless" /\ Judge("UNSUPPORTED_FILENAME")
     \/ sample.extension # "nameless" /\ sample.size = 0 /\ Judge("FILE_EMPTY")
     \/ sample.extension # "nameless" /\ sample.size > MaxFileBytes /\ Judge("FILE_TOO_LARGE")
     \/ /\ sample.extension = "other" /\ sample.size \in 1 .. MaxFileBytes
        /\ Judge("UNSUPPORTED_FILENAME")

DetectOpening == reading = "upload" /\ Supported /\ OpensAsItself(sample) /\ Conclude(sample.opening)

DetectCompound ==
  /\ reading = "upload" /\ Supported /\ IsCompound(sample)
  /\ \/ ~sample.whole /\ Judge("CONTENT_CORRUPT")
     \/ sample.whole /\ "worddocument" \in sample.streams /\ Conclude("DOC")
     \/ /\ sample.whole /\ "worddocument" \notin sample.streams
        /\ {"workbook", "book"} \cap sample.streams # {} /\ Conclude("XLS")
     \/ sample.whole /\ sample.streams = {} /\ Judge("CONTENT_CORRUPT")

\* The directory of an archive is looked for at the end of whatever is left.
FindDirectory ==
  /\ reading = "upload" /\ Supported /\ ~OpensAsItself(sample) /\ ~IsCompound(sample)
  /\ \/ /\ sample.directory = "absent"
        /\ Conclude(IF sample.opening = "TEXT" THEN "CSV" ELSE "none")
     \/ /\ sample.directory # "absent"
        /\ sample.directory = "strange" \/ Len(sample.members) > MaxEntries
        /\ Judge("ZIP_UNSAFE")
     \/ /\ sample.directory = "sound" /\ Len(sample.members) <= MaxEntries
        /\ reading' = "directory" /\ UNCHANGED <<sample, at, seen, unpacked, verdict>>

-----------------------------------------------------------------------------
(* The directory (inspectZip).                                              *)

\* Mutant: each member is held to the limit, but not all of them together.
EachInBounds(m, total) ==
  /\ m.unpacked <= MaxUnpackedBytes
  /\ m.packed = 0 => m.unpacked = 0
  /\ m.unpacked <= MaxRatio * m.packed

InBounds(m, total) ==
  /\ total <= MaxUnpackedBytes
  /\ m.packed = 0 => m.unpacked = 0
  /\ m.unpacked <= MaxRatio * m.packed

Safe(m, names, total) ==
  m.readable /\ m.name \notin Escaping /\ m.name \notin names /\ InBounds(m, total)

ReadRecord ==
  /\ reading = "directory" /\ at < Len(sample.members)
  /\ LET m == sample.members[at + 1] IN
     \/ ~m.intact /\ Judge("CONTENT_CORRUPT")
     \/ m.intact /\ ~Safe(m, seen, unpacked + m.unpacked) /\ Judge("ZIP_UNSAFE")
     \/ /\ m.intact /\ Safe(m, seen, unpacked + m.unpacked)
        /\ ~m.agrees /\ Judge("CONTENT_CORRUPT")
     \/ /\ m.intact /\ Safe(m, seen, unpacked + m.unpacked) /\ m.agrees
        /\ at' = at + 1 /\ seen' = seen \cup {m.name} /\ unpacked' = unpacked + m.unpacked
        /\ UNCHANGED <<sample, reading, verdict>>

Holding(f, name, holding) ==
  \E i \in DOMAIN f.members : f.members[i].name = name /\ f.members[i].holds = holding
IsOffice(type, names) == {ContentTypes, OfficeRoot[type]} \subseteq names

\* The directory was read to its end: an office document, or a package.
CloseDirectory ==
  /\ reading = "directory" /\ at = Len(sample.members)
  /\ \/ ~sample.ends /\ Judge("CONTENT_CORRUPT")
     \/ /\ sample.ends /\ IsOffice("DOCX", seen)
        /\ IF Holding(sample, ContentTypes, "Types") /\ Holding(sample, OfficeRoot.DOCX, "w:document")
             THEN Conclude("DOCX") ELSE Judge("CONTENT_CORRUPT")
     \/ /\ sample.ends /\ ~IsOffice("DOCX", seen) /\ IsOffice("XLSX", seen)
        /\ IF Holding(sample, ContentTypes, "Types") /\ Holding(sample, OfficeRoot.XLSX, "workbook")
             THEN Conclude("XLSX") ELSE Judge("CONTENT_CORRUPT")
     \/ /\ sample.ends /\ ~IsOffice("DOCX", seen) /\ ~IsOffice("XLSX", seen)
        /\ reading' = "members" /\ at' = 0 /\ UNCHANGED <<sample, seen, unpacked, verdict>>

-----------------------------------------------------------------------------
(* The heads of the members (assertZipMemberPolicy).                        *)

HeadType(m) == IF m.holds \in OfficeParts THEN "TEXT" ELSE m.holds
Passes(m) ==
  \/ m.name \in Ignored
  \/ m.name \in DOMAIN MemberHead /\ HeadType(m) \in {"nothing", MemberHead[m.name]}

ReadMember ==
  /\ reading = "members"
  /\ \/ at = Len(sample.members) /\ Conclude("ZIP")
     \/ /\ at < Len(sample.members) /\ Passes(sample.members[at + 1])
        /\ at' = at + 1 /\ UNCHANGED <<sample, reading, seen, unpacked, verdict>>
     \/ /\ at < Len(sample.members) /\ ~Passes(sample.members[at + 1])
        /\ Judge(IF /\ sample.members[at + 1].name \in DOMAIN MemberHead
                    /\ sample.members[at + 1].holds = "undecodable"
                   THEN "CONTENT_CORRUPT" ELSE "ZIP_UNSAFE")

ContentNext ==
  \/ RefuseUpload \/ DetectOpening \/ DetectCompound \/ FindDirectory
  \/ ReadRecord \/ CloseDirectory \/ ReadMember

ContentSpec == ContentInit /\ [][ContentNext]_contentVars

ContentTypeOK ==
  /\ sample \in FileRecords
  /\ reading \in {"upload", "directory", "members", "judged"}
  /\ at \in 0 .. Len(sample.members) /\ unpacked \in 0 .. MaxUnpackedBytes
  /\ verdict \in FileTypes \cup Refusals \cup {"none"}
  /\ reading = "judged" <=> verdict # "none"

-----------------------------------------------------------------------------
(* What a file is, said of the file as a whole.                             *)

Names(f) == {f.members[i].name : i \in DOMAIN f.members}

WellFormed(f) ==
  /\ f.directory = "sound" /\ f.ends /\ Len(f.members) <= MaxEntries
  /\ Cardinality(Names(f)) = Len(f.members) /\ Names(f) \cap Escaping = {}
  /\ \A i \in DOMAIN f.members : LET m == f.members[i] IN
       m.intact /\ m.readable /\ m.agrees /\ m.unpacked <= MaxRatio * m.packed
  /\ Cardinality(UNION {{i} \X (1 .. f.members[i].unpacked) : i \in DOMAIN f.members})
       <= MaxUnpackedBytes  \* all bytes together

\* A package: every member but the ignored ones is an allowed document that
\* opens as its name says, or has nothing in it.
OnlyDocuments(f) ==
  \A i \in DOMAIN f.members : LET m == f.members[i] IN
    m.name \notin Ignored =>
      /\ m.name \in DOMAIN MemberHead
      /\ m.holds = "nothing" \/ HeadType(m) = MemberHead[m.name]

Archived(f, type) ==
  /\ ~OpensAsItself(f) /\ ~IsCompound(f) /\ WellFormed(f)
  /\ \/ /\ type = "DOCX" /\ IsOffice("DOCX", Names(f))
        /\ Holding(f, ContentTypes, "Types") /\ Holding(f, OfficeRoot.DOCX, "w:document")
     \/ /\ type = "XLSX" /\ IsOffice("XLSX", Names(f)) /\ ~IsOffice("DOCX", Names(f))
        /\ Holding(f, ContentTypes, "Types") /\ Holding(f, OfficeRoot.XLSX, "workbook")
     \/ /\ type = "ZIP" /\ ~IsOffice("DOCX", Names(f)) /\ ~IsOffice("XLSX", Names(f))
        /\ OnlyDocuments(f)

IsOfType(f, type) ==
  \/ type = f.opening /\ OpensAsItself(f)
  \/ type = "DOC" /\ IsCompound(f) /\ f.whole /\ "worddocument" \in f.streams
  \/ type = "XLS" /\ IsCompound(f) /\ f.whole /\ "worddocument" \notin f.streams /\ f.streams # {}
  \/ type = "CSV" /\ f.opening = "TEXT" /\ f.directory = "absent"
  \/ Archived(f, type)

\* The one reading of the bytes, which stops at the first thing it dislikes,
\* comes to what is true of the file as a whole: a file is taken exactly when
\* its content is of the type that its name promises, under that type; and it
\* is called corrupt or unsafe only when it could not be taken under any name.
\* No archive is turned away for the order of its members, and none with a
\* single bad member is taken (verifyFacilitiesUpload).
VerdictIsRight ==
  reading = "judged" /\ Supported =>
    LET promised == ExtensionType[sample.extension] IN
    /\ verdict \in FileTypes => verdict = promised
    /\ verdict = promised <=> IsOfType(sample, promised)
    /\ verdict = "CONTENT_TYPE_MISMATCH" \/ \A t \in FileTypes \ {promised} : ~IsOfType(sample, t)
=============================================================================
