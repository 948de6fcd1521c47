------------------------------ MODULE FastPath ------------------------------
(***************************************************************************)
(* The page-cache fast path (turbofile-py, fast_path/): a read served on   *)
(* the loop's own thread when every page it needs is resident.  Linux lets *)
(* the kernel refuse (preadv2 with RWF_NOWAIT); Darwin asks mincore about  *)
(* a mapping of the file first and then reads; other platforms decline.    *)
(*                                                                         *)
(* One step is one system call.  The loop's thread is inside the method    *)
(* from the call to its return, so only other processes move meanwhile:    *)
(* they append to the file and use the page cache.                         *)
(***************************************************************************)
EXTENDS Naturals, Sequences, FiniteSetsExt

CONSTANTS
  Platforms,     \* the platforms the file may be on
  Page,          \* bytes per page
  Headroom,      \* HEADROOM: address space mapped past the end of the file
  FlagsPerCall,  \* FLAGS_PER_CALL: pages one mincore call describes
  MaxSize        \* bound: bytes in the file

ASSUME PlatformsAssumption == Platforms \subseteq {"linux", "darwin", "none"}
ASSUME PageAssumption == Page \in Nat \ {0}
ASSUME HeadroomAssumption == Headroom \in Nat /\ Headroom % Page = 0
ASSUME FlagsAssumption == FlagsPerCall \in Nat \ {0}
ASSUME SizeAssumption == MaxSize \in Nat

VARIABLES
  platform,
  able,     \* the file system has FMODE_NOWAIT, the descriptor can be mapped
  content,  \* the file: a sequence of bytes
  cached,   \* the pages of the file that are resident, by their first byte
  view,     \* Darwin: length of the mapping, 0 for none
  owned,    \* Linux: try_read_file has a descriptor of its own open
  fp        \* the method the loop's thread is in

fpVars == <<platform, able, content, cached, view, owned, fp>>

Size == Len(content)

\* The bytes pread finds: short only at the end of the file.
Slice(pos, len) == SubSeq(content, pos + 1, Min({pos + len, Size}))

PageOf(b) == (b \div Page) * Page
PagesOf(pos, len) == {p \in 0 .. pos + len : p % Page = 0 /\ p + Page > pos /\ p < pos + len}

None == [some |-> FALSE, data |-> <<>>]
Some(data) == [some |-> TRUE, data |-> data]

Idle == [at |-> "idle", fn |-> "none", pos |-> 0, len |-> 0, size |-> 0, off |-> 0, out |-> None]

InitFp ==
  /\ platform \in Platforms
  /\ able \in BOOLEAN
  /\ platform = "none" => ~able
  /\ view = 0
  /\ owned = FALSE
  /\ fp = Idle

-----------------------------------------------------------------------------
(* The methods of FastPath, up to their first system call.                 *)

\* The Inner of the other platforms: no size, no fill, never supported.
Declines == platform = "none"

\* Inner::fill begins with a copy on Linux and with the mapping on Darwin.
FillFrom(call) ==
  [call EXCEPT !.at = IF Declines THEN "back" ELSE IF platform = "linux" THEN "copy" ELSE "view"]

\* read and readinto: a request for nothing is declined.
CallRead(pos, len) ==
  LET call == [Idle EXCEPT !.fn = "read", !.pos = pos, !.len = len]
  IN  IF len = 0 THEN [call EXCEPT !.at = "back"] ELSE FillFrom(call)

CallReadAll(pos) == [Idle EXCEPT !.fn = "read_all", !.pos = pos, !.at = "size"]
CallSize == [Idle EXCEPT !.fn = "size", !.at = "size"]

\* try_read_file, which exists on Linux only: the same by path.
CallReadFile == [Idle EXCEPT !.fn = "read_file", !.at = "open"]

\* Dropping OwnedFd closes what read_file opened, on every way out.
Returns(out) ==
  /\ fp' = [fp EXCEPT !.at = "back", !.out = out]
  /\ owned' = FALSE

Proceeds(call) == fp' = call /\ UNCHANGED owned

-----------------------------------------------------------------------------
(* Their steps.                                                            *)

\* openat2(RESOLVE_CACHED): refused for a path that is not cached.
FpOpen ==
  /\ fp.at = "open"
  /\ \/ fp' = [fp EXCEPT !.at = "size"] /\ owned' = TRUE
     \/ Returns(None)
  /\ UNCHANGED <<platform, able, content, cached, view>>

\* regular_file_size: one fstat.
FileSize == Size

\* For the size alone, or for what is to be copied; read_all skips the copy of
\* an empty rest, the fill of read_file copies nothing.
FpSize ==
  /\ fp.at = "size"
  /\ LET len == IF FileSize > fp.pos THEN FileSize - fp.pos ELSE 0
         call == [fp EXCEPT !.size = FileSize, !.len = len]
     IN  \/ Declines /\ Returns(None)
         \/ /\ ~Declines /\ fp.fn = "size"
            /\ fp' = [call EXCEPT !.at = "back", !.out = Some(<<>>)]
            /\ UNCHANGED owned
         \/ /\ ~Declines /\ fp.fn # "size"
            /\ Proceeds(IF len = 0 THEN [call EXCEPT !.at = "eof"] ELSE FillFrom(call))
  /\ UNCHANGED <<platform, able, content, cached, view>>

\* Slip: the mapping ends where the file does, in the middle of a page.
ViewLenUnrounded(size) == size + Headroom

ViewLen(size) == ((size + Page - 1) \div Page) * Page + Headroom

ViewCovers(end) == view # 0 /\ end <= view

\* Darwin, Inner::ensure_view: map again only if the file outgrew the mapping.
FpView ==
  /\ fp.at = "view"
  /\ LET end == fp.pos + fp.len
         first == [fp EXCEPT !.at = "mincore", !.off = PageOf(fp.pos)]
     IN  \/ ViewCovers(end) /\ Proceeds(first) /\ UNCHANGED view
         \/ /\ ~ViewCovers(end) /\ able /\ view < ViewLen(FileSize)
            /\ view' = ViewLen(FileSize)
            /\ IF end <= ViewLen(FileSize) THEN Proceeds(first) ELSE Returns(None)
         \/ /\ ~ViewCovers(end) /\ ~(able /\ view < ViewLen(FileSize))
            /\ Returns(None)
            /\ UNCHANGED view
  /\ UNCHANGED <<platform, able, content, cached>>

\* End of the range resident() asks about, rounded up to a page.
LastPage == ((fp.pos + fp.len + Page - 1) \div Page) * Page

MincoreLen == Min({LastPage - fp.off, FlagsPerCall * Page})

\* Darwin, one mincore call, which may fail: stop at the first page that is
\* not resident.
FpMincore ==
  /\ fp.at = "mincore"
  /\ LET cold == PagesOf(fp.off, MincoreLen) \ cached
         next == fp.off + MincoreLen
     IN  \/ /\ cold # {}
            /\ Proceeds([fp EXCEPT !.at = "cold", !.off = Min(cold)])
         \/ /\ cold = {}
            /\ Proceeds([fp EXCEPT !.at = IF next < LastPage THEN "mincore" ELSE "copy", !.off = next])
         \/ Returns(None)
  /\ UNCHANGED <<platform, able, content, cached, view>>

\* Slip: the cold page may hold the last bytes of the file.
ColdPastEofWithin == FileSize <= fp.off + Page

\* The cold page, and with it every later one, lies past the end of the file.
ColdPastEof == FileSize <= fp.off

FpCold ==
  /\ fp.at = "cold"
  /\ IF ColdPastEof THEN Proceeds([fp EXCEPT !.at = "copy"]) ELSE Returns(None)
  /\ UNCHANGED <<platform, able, content, cached, view>>

\* The pages a copy has to touch.
DataPages == {p \in PagesOf(fp.pos, fp.len) : p < Size}

\* What was copied; a whole rest must be whole and still be the rest.
Copied ==
  LET data == Slice(fp.pos, fp.len)
  IN  IF fp.fn = "read" THEN Returns(Some(data))
      ELSE IF Len(data) < fp.len THEN Returns(None)
      ELSE Proceeds([fp EXCEPT !.at = "eof", !.out = Some(data)])

\* Linux, the loop over preadv2: the kernel refuses a cold page, and a file
\* without FMODE_NOWAIT altogether.
FpCopyNowait ==
  /\ fp.at = "copy" /\ platform = "linux"
  /\ \/ able /\ DataPages \subseteq cached /\ Copied
     \/ ~(able /\ DataPages \subseteq cached) /\ Returns(None)
  /\ UNCHANGED <<platform, able, content, cached, view>>

\* Darwin, the loop over pread, which may fail: the async path reports it.
FpCopyPread ==
  /\ fp.at = "copy" /\ platform = "darwin"
  /\ Copied \/ Returns(None)
  /\ UNCHANGED <<platform, able, content, cached, view>>

\* Linux: no byte is read where the file ended; a probe that would block does
\* not answer.
NoByteAfter == Size <= fp.size

\* Darwin: a second fstat agrees with the first.
SameStat == FileSize = fp.size

\* Slip: the file is taken to end where it did at the first fstat.
AtEofUnchecked == TRUE

AtEof == IF platform = "linux" THEN NoByteAfter ELSE SameStat

FpEof ==
  /\ fp.at = "eof"
  /\ \/ AtEof /\ Returns(Some(fp.out.data))
     \/ (~AtEof \/ platform = "linux") /\ Returns(None)
  /\ UNCHANGED <<platform, able, content, cached, view>>

\* Linux: a probe of one byte is answered, or only refused for now.
Probed == able

\* Darwin: the file is mapped, or can be, and then is.
MappedView == IF able /\ view = 0 THEN ViewLen(FileSize) ELSE view

\* FastPath.supported, asked after a None: whether the file can ever be served.
Supported == ~Declines /\ (IF platform = "linux" THEN Probed ELSE MappedView # 0)

SupportedView == IF platform = "darwin" THEN MappedView ELSE view

-----------------------------------------------------------------------------
(* Other processes.                                                        *)

\* An appended byte is resident.
Append1(b) ==
  /\ Size < MaxSize
  /\ content' = Append(content, b)
  /\ cached' = cached \cup {PageOf(Size)}
  /\ UNCHANGED <<platform, able, view, owned, fp>>

\* Pages come and go, but not between the look and the copy: the one case in
\* which darwin.rs admits that an inline read waits for the disk.
UseCache ==
  /\ fp.at = "idle"
  /\ \E p \in {q \in 0..MaxSize : q % Page = 0 /\ q < Size} :
       cached' = IF p \in cached THEN cached \ {p} ELSE cached \cup {p}
  /\ UNCHANGED <<platform, able, content, view, owned, fp>>

FpStep ==
  \/ FpOpen \/ FpSize \/ FpView \/ FpMincore \/ FpCold
  \/ FpCopyNowait \/ FpCopyPread \/ FpEof
=============================================================================
