-------------------------------- MODULE Titles --------------------------------
(***************************************************************************)
(* Downloading the titles of an M3U list, or a single one: playlist.go,    *)
(* the download and downloadFile of main.go, DownloadFile of engine.go.    *)
(*                                                                         *)
(* A title is a manifest with a video and a subtitle, muxed to base.mp4,   *)
(* or a direct file.  How a track is fetched is Pipeline; here it is       *)
(* fetched, refused by the server or cut off by the interrupt in one step. *)
(* The output is written in place, by FFmpeg (-y) or by the copy of the    *)
(* file: it is there from the first byte on, and nobody removes what is    *)
(* cut.  FFmpeg does not heed the context; it may fail at any point, also  *)
(* on the signal of a terminal, or go on when the command exits.           *)
(* The state of a run is reset when the next one starts, what is on disk   *)
(* is not, nor is an FFmpeg that outlived the command.                     *)
(***************************************************************************)
EXTENDS Integers, Sequences, FiniteSets

CONSTANTS
  Entries,    \* the list: a sequence of [title, kind], kind in Kinds
  Par,        \* -titles
  RetryPick,  \* TRUE: the next run may be the "-pick" the last one advised
  MaxRuns     \* bound of the model: how often the command is run

Kinds == {"channel", "live", "manifest", "file"}
All == DOMAIN Entries
Kind(e) == Entries[e].kind

VARIABLES
  picked,    \* the entries of this run
  next,      \* the next entry to dispatch
  stage,     \* where a title is
  path,      \* path[e]: <<title, suffix, ext>> once dispatched
  subtitle,  \* the subtitle of a title: todo | fetched | refused | cut | converted | unreadable
  disk,      \* output path -> [of, whole, subtitle, open]; open: FFmpeg is writing it
  raw,       \* <<path, track>> of the raw files on disk
  canceled,  \* the context of the run
  signals,
  runs

vars == <<picked, next, stage, path, subtitle, disk, raw, canceled, signals, runs>>

Terminal == {"done", "skipped", "failed", "canceled"}
NoPath == <<"", 0, "">>
NoFile == [of |-> 0, whole |-> FALSE, subtitle |-> FALSE, open |-> FALSE]
Copied(e, whole) == [of |-> e, whole |-> whole, subtitle |-> FALSE, open |-> FALSE]
Ext(e) == IF Kind(e) = "file" THEN "own" ELSE "mp4"   \* a manifest is muxed to .mp4
Paths == UNION {{<<Entries[e].title, suffix, Ext(e)>> : suffix \in {0, e}} : e \in All}
FileAt(p, what) == disk' = [disk EXCEPT ![p] = what]
Goto(e, where) == stage' = [stage EXCEPT ![e] = where]

Init ==
  /\ picked = All
  /\ next = 1
  /\ stage = [e \in All |-> "idle"]
  /\ path = [e \in All |-> NoPath]
  /\ subtitle = [e \in All |-> "todo"]
  /\ disk = [p \in Paths |-> NoFile] /\ raw = {}
  /\ canceled = FALSE /\ signals = 0 /\ runs = 1

--------------------------------------------------------------------------------
(* downloadPlaylist: the dispatch loop.                                    *)

InFlight == {e \in All : stage[e] \notin Terminal \cup {"idle"}}
Dispatched == {e \in picked : e < next /\ path[e] # NoPath}

\* Mutant: base names are not made unique.
BaseShared(e) == <<Entries[e].title, 0>>

(* Two entries with one title in one group: the later one gets its number. *)
Base(e) ==
  LET base == <<Entries[e].title, 0>>
      used == {<<path[d][1], path[d][2]>> : d \in Dispatched}
  IN  IF base \in used THEN <<Entries[e].title, e>> ELSE base

PathOf(e) == Append(Base(e), Ext(e))

Pass(e) ==
  /\ next = e /\ e \notin picked
  /\ next' = next + 1
  /\ UNCHANGED <<picked, stage, path, subtitle, disk, raw, canceled, signals, runs>>

SkipChannel(e) ==
  /\ next = e /\ e \in picked /\ Kind(e) = "channel"
  /\ next' = next + 1
  /\ Goto(e, "skipped")
  /\ UNCHANGED <<picked, path, subtitle, disk, raw, canceled, signals, runs>>

SlotFree == Cardinality(InFlight) < Par

Dispatch(e) ==
  /\ next = e /\ e \in picked /\ Kind(e) # "channel"
  /\ SlotFree
  /\ next' = next + 1
  /\ path' = [path EXCEPT ![e] = PathOf(e)]
  /\ Goto(e, "loading")
  /\ UNCHANGED <<picked, subtitle, disk, raw, canceled, signals, runs>>

BreakDispatch ==
  /\ canceled /\ next \in All
  /\ next' = Len(Entries) + 1
  /\ UNCHANGED <<picked, stage, path, subtitle, disk, raw, canceled, signals, runs>>

--------------------------------------------------------------------------------
(* downloadEntry and download.                                             *)

Failed == IF canceled THEN "canceled" ELSE "failed"

(* os.Stat: whatever is there, a cut file too.                             *)
Exists(e) == disk[path[e]] # NoFile

(* LoadManifest may fail; an entry that turns out live is skipped, and so  *)
(* is a manifest whose output exists.                                      *)
Load(e) ==
  /\ stage[e] = "loading"
  /\ \/ Goto(e, Failed)
     \/ Kind(e) = "live" /\ Goto(e, "skipped")
     \/ Kind(e) = "manifest" /\ Exists(e) /\ Goto(e, "skipped")
     \/ Kind(e) = "manifest" /\ ~Exists(e) /\ Goto(e, "video")
     \/ Kind(e) = "file" /\ Goto(e, "file")
  /\ UNCHANGED <<picked, next, path, subtitle, disk, raw, canceled, signals, runs>>

(* The subtitle is optional: refused by the server or cut off by the       *)
(* canceled context, it is left out with a warning and no error.           *)
FetchSubtitle(e) ==
  /\ stage[e] \in {"video", "rest"} /\ subtitle[e] = "todo"
  /\ \/ subtitle' = [subtitle EXCEPT ![e] = "fetched"]
     \/ subtitle' = [subtitle EXCEPT ![e] = "refused"]
     \/ canceled /\ subtitle' = [subtitle EXCEPT ![e] = "cut"]
  /\ raw' = raw \cup {<<path[e], "subtitle">>}
  /\ UNCHANGED <<picked, next, stage, path, disk, canceled, signals, runs>>

(* The video is not: its error ends the title.  Its raw file is there from *)
(* the first segment on.                                                   *)
FetchVideo(e) ==
  /\ stage[e] = "video"
  /\ \E where \in {"video", "rest", Failed} : Goto(e, where)
  /\ raw' = raw \cup {<<path[e], "video">>}
  /\ UNCHANGED <<picked, next, path, subtitle, disk, canceled, signals, runs>>

(* After g.Wait: a subtitle that does not convert keeps its raw file.      *)
Convert(e) ==
  /\ stage[e] = "rest" /\ subtitle[e] # "todo"
  /\ \E s \in IF subtitle[e] = "fetched" THEN {"converted", "unreadable"} ELSE {subtitle[e]} :
       subtitle' = [subtitle EXCEPT ![e] = s]
  /\ Goto(e, "muxing")
  /\ UNCHANGED <<picked, next, path, disk, raw, canceled, signals, runs>>

(* FFmpeg opens the output, truncating it, or fails before it does.        *)
MuxBegins(e) ==
  /\ stage[e] = "muxing"
  /\ \/ /\ FileAt(path[e], [of |-> e, whole |-> FALSE, open |-> TRUE,
                            subtitle |-> subtitle[e] = "converted"])
        /\ Goto(e, "writing")
     \/ Goto(e, Failed) /\ UNCHANGED disk
  /\ UNCHANGED <<picked, next, path, subtitle, raw, canceled, signals, runs>>

(* FFmpeg finishes the file, or fails and leaves it cut.                   *)
FFmpegExits(p) ==
  /\ disk[p].open
  /\ \E whole \in BOOLEAN :
       FileAt(p, [disk[p] EXCEPT !.whole = whole, !.open = FALSE])
  /\ UNCHANGED <<picked, next, stage, path, subtitle, raw, canceled, signals, runs>>

(* cleanupTempFiles: what was superseded, never what did not convert.      *)
Temporary(e) ==
  {path[e]} \X (IF subtitle[e] = "unreadable" THEN {"video"} ELSE {"video", "subtitle"})

(* The end of the mux: after a failure the raw files are kept, and so is   *)
(* what FFmpeg wrote.                                                      *)
MuxEnds(e) ==
  /\ stage[e] = "writing" /\ ~disk[path[e]].open
  /\ IF disk[path[e]].whole
       THEN Goto(e, "done") /\ raw' = raw \ Temporary(e)
       ELSE Goto(e, Failed) /\ raw' = raw
  /\ UNCHANGED <<picked, next, path, subtitle, disk, canceled, signals, runs>>

(* DownloadFile: a file of this size without a checkpoint is complete;     *)
(* any other is resumed when it has one and truncated when it has none.    *)
Complete(e) == disk[path[e]].whole /\ disk[path[e]].of = e

FetchFile(e) ==
  /\ stage[e] = "file"
  /\ \/ Complete(e) /\ Goto(e, "done") /\ UNCHANGED disk
     \/ ~Complete(e) /\ FileAt(path[e], Copied(e, TRUE)) /\ Goto(e, "done")
     \/ /\ ~Complete(e) /\ FileAt(path[e], Copied(e, FALSE))
        /\ \E where \in {"file", Failed} : Goto(e, where)
  /\ UNCHANGED <<picked, next, path, subtitle, raw, canceled, signals, runs>>

--------------------------------------------------------------------------------
(* Interrupts and reruns.                                                  *)

Over == (next = Len(Entries) + 1 /\ InFlight = {}) \/ signals = 2

(* The first signal cancels, the second one exits.                         *)
Interrupt ==
  /\ ~Over
  /\ signals' = signals + 1
  /\ canceled' = TRUE
  /\ UNCHANGED <<picked, next, stage, path, subtitle, disk, raw, runs>>

(* The command is run again: as it was, or with the entries that failed.   *)
Rerun ==
  /\ Over /\ runs < MaxRuns
  /\ LET failures == {e \in picked : stage[e] = "failed"}
     IN  \E pick \in {picked} \cup (IF RetryPick /\ ~canceled /\ failures # {} THEN {failures} ELSE {}) :
           picked' = pick
  /\ next' = 1
  /\ stage' = [e \in All |-> "idle"]
  /\ path' = [e \in All |-> NoPath]
  /\ subtitle' = [e \in All |-> "todo"]
  /\ canceled' = FALSE /\ signals' = 0
  /\ runs' = runs + 1
  /\ UNCHANGED <<disk, raw>>

TitleStep(e) ==
  /\ signals < 2
  /\ \/ Pass(e) \/ SkipChannel(e) \/ Dispatch(e) \/ Load(e) \/ FetchSubtitle(e)
     \/ FetchVideo(e) \/ Convert(e) \/ MuxBegins(e) \/ MuxEnds(e) \/ FetchFile(e)

Next ==
  \/ \E e \in All : TitleStep(e)
  \/ \E p \in Paths : FFmpegExits(p)
  \/ signals < 2 /\ BreakDispatch
  \/ Interrupt \/ Rerun

(* A request that is made is answered or times out, and FFmpeg comes to    *)
(* the end of its inputs, which are files; that the user interrupts or     *)
(* runs the command again is not assumed.                                  *)
Spec == Init /\ [][Next]_vars
Fairness ==
  /\ \A e \in All : WF_vars(TitleStep(e))
  /\ \A p \in Paths : WF_vars(FFmpegExits(p))
FairSpec == Spec /\ Fairness

--------------------------------------------------------------------------------
TypeOK ==
  /\ picked \subseteq All
  /\ next \in 1 .. Len(Entries) + 1
  /\ stage \in [All -> Terminal \cup {"idle", "loading", "video", "rest", "muxing",
                                "writing", "file"}]
  /\ path \in [All -> Paths \cup {NoPath}]
  /\ subtitle \in [All -> {"todo", "fetched", "refused", "cut", "converted", "unreadable"}]
  /\ disk \in [Paths -> [of : {0} \cup All, whole : BOOLEAN, subtitle : BOOLEAN, open : BOOLEAN]]
  /\ raw \subseteq (Paths \X {"video", "subtitle"})
  /\ canceled \in BOOLEAN /\ signals \in 0 .. 2 /\ runs \in 1 .. MaxRuns

(* What the run reports as downloaded is whole on disk under a path of its *)
(* own, and what it skips as already there is the entry's own output: no   *)
(* other entry with that title wrote it, nor overwrote it, in this run or  *)
(* an earlier one.                                                         *)
ReportedIsOnDisk ==
  \A e \in picked :
    /\ stage[e] = "done" => disk[path[e]].whole /\ disk[path[e]].of = e
    /\ stage[e] = "skipped" /\ Kind(e) = "manifest" => disk[path[e]].of = e

(* "mux failed; raw stream files kept" (main.go:647): the tracks of an     *)
(* output that FFmpeg has not finished are all still there, whatever cut   *)
(* it, and through the later runs, which skip the title for that output.   *)
CutMuxKeepsRaw ==
  \A p \in Paths :
    disk[p] # NoFile /\ ~disk[p].whole /\ Kind(disk[p].of) = "manifest" =>
      <<p, "video">> \in raw /\ (disk[p].subtitle => <<p, "subtitle">> \in raw)

(* A title written without its subtitle has not lost it: the server        *)
(* refused it, or the raw file the warning names is still there            *)
(* (main.go:665); only one cut off by the interrupt may be missing.        *)
SubtitleRecoverable ==
  \A e \in All :
    stage[e] = "done" /\ Kind(e) = "manifest" /\ ~disk[path[e]].subtitle =>
      subtitle[e] \in {"refused", "cut"} \/ <<path[e], "subtitle">> \in raw

(* "interrupt: stopping (rerun the same command to resume)" (main.go:696): *)
(* what the interrupt cut off is fetched by the next run, so the output,   *)
(* which makes the next run skip the title, is not written without it.     *)
InterruptedIsResumed ==
  \A e \in All : stage[e] = "done" => subtitle[e] # "cut"

(* "the muxed output only appears once the title is done" (playlist.go:    *)
(* 154): what a run skips for its output has been downloaded.              *)
MuxedIsDone ==
  \A e \in picked : stage[e] = "skipped" /\ Kind(e) = "manifest" => disk[path[e]].whole

(* Every run ends, interrupted or not, whatever its titles answer: the     *)
(* slots are given back on every way out of a title.                       *)
RunsEnd == []<>Over
================================================================================
