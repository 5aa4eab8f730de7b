------------------------------ MODULE Keeping ------------------------------
(* The components that must keep something right whenever they are cut off *)
(* or fail: a file, a text, a secret, a process, a limit.  They share no   *)
(* state, so only one of them, "part", moves in a behaviour, and the       *)
(* others stay as they start.                                              *)
EXTENDS Naturals, Sequences

CONSTANTS
  Retries,                                                  \* max_tool_retries
  Author, MaxRestarts,                                      \* of VideoProjects
  MaxText, MaxLen, Overlap,                                 \* of TextSplit
  Reply, Chunks, SendRetries, SendFaults,                   \* of TelegramSend
  KindOf, QueueCap, MaxCrashes,                             \* of SignalChannel
  Samples, Permits, Words, Strategy,                        \* of Voting
  MaxBlocks, ModelRetries,                                  \* of ModelProvider
  Native, MaxKeys, MaxValues, MaxStarts, SecretFaults,      \* of Secrets
  Starter, Pid, MaxCalls,                                   \* of Subprocesses
  Editor, File, Existing, Edits, FileFaults,                \* of FileTools
  Writer, Title, Linked, MaxBatches, NoteFaults,            \* of NoteSync
  IPs, MaxRequests, Window, Lockout, PruneAbove, ScanLimit, \* of RateLimiter
  RemoveLimit, MaxTime, MaxChecks

VARIABLES part,
  dirs, named, cache, call, procs, overlap, restarts,
  cutter, cutText, cutAt, cutChunks,
  at, mode, attempt, refused, shown, faults,
  signalMode, arrived, conf, poller, batch, queue, hurt, crashes,
  sample, voteText, joined, responses, vote, result,
  provider, conv, system, phase, modelAttempt, said, wire, half, inputs, text, calls,
  stop, garbled, cutShort,
  ringUp, ringKey, ring, rows, db, secretProcs, live, stale, keys, values, starts, troubles,
  os, children, holder, job, files, begun,
  disk, filedirs, fileCall, ops, disturbed, fileFaults,
  pages, vault, noteCall, replaced, noteFaults,
  clock, serial, records, attempts, locked_until, granted

Video == INSTANCE VideoProjects WITH Call <- Author
Split == INSTANCE TextSplit WITH text <- cutText, at <- cutAt, chunks <- cutChunks
Outbound == INSTANCE TelegramSend WITH MaxRetries <- SendRetries, MaxFaults <- SendFaults
Signal == INSTANCE SignalChannel WITH mode <- signalMode
Vote == INSTANCE Voting WITH Word <- Words, text <- voteText
Model == INSTANCE ModelProvider WITH MaxRetries <- ModelRetries, attempt <- modelAttempt
Secret == INSTANCE Secrets WITH
  MaxFaults <- SecretFaults, procs <- secretProcs, faults <- troubles
Process == INSTANCE Subprocesses WITH Call <- Starter
FileTool == INSTANCE FileTools WITH
  Call <- Editor, Present <- Existing, MaxFaults <- FileFaults,
  dirs <- filedirs, call <- fileCall, faults <- fileFaults
Note == INSTANCE NoteSync WITH
  Call <- Writer, MaxFaults <- NoteFaults, call <- noteCall, faults <- noteFaults
Rate == INSTANCE RateLimiter

ASSUME KeepingAssumption ==
  /\ Video!VideoAssumption /\ Split!SplitAssumption /\ Outbound!SendAssumption
  /\ Signal!SignalAssumption /\ Vote!VotingAssumption /\ Model!ProviderAssumption
  /\ Secret!SecretAssumption /\ Process!ProcessAssumption
  /\ FileTool!FileAssumption /\ Note!SyncAssumption /\ Rate!RateAssumption

videoVars == <<dirs, named, cache, call, procs, overlap, restarts>>
splitVars == <<cutter, cutText, cutAt, cutChunks>>
outboundVars == <<at, mode, attempt, refused, shown, faults>>
signalVars == <<signalMode, arrived, conf, poller, batch, queue, hurt, crashes>>
voteVars == <<sample, voteText, joined, responses, vote, result>>
modelVars == <<provider, conv, system, phase, modelAttempt, said, wire, half, inputs,
               text, calls, stop, garbled, cutShort>>
secretVars == <<ringUp, ringKey, ring, rows, db, secretProcs, live, stale, keys, values,
                starts, troubles>>
processVars == <<os, children, holder, job, files, begun>>
fileVars == <<disk, filedirs, fileCall, ops, disturbed, fileFaults>>
noteVars == <<pages, vault, noteCall, replaced, noteFaults>>
rateVars == <<clock, serial, records, attempts, locked_until, granted>>
vars == <<part, videoVars, splitVars, outboundVars, signalVars, voteVars, modelVars,
          secretVars, processVars, fileVars, noteVars, rateVars>>

Init ==
  /\ part \in {"video", "split", "outbound", "signal", "vote", "model", "secret",
              "process", "file", "note", "rate"}
  /\ part # "split" => cutter = "telegram" /\ cutText = <<"a">>
  /\ part # "outbound" => refused = {}
  /\ part # "signal" => signalMode = "polling"
  /\ part # "model" => provider = "ollama" /\ conv = <<"prompt">>
  /\ part # "secret" => ringUp = TRUE
  /\ Video!Init /\ Split!Init /\ Outbound!Init /\ Signal!Init
  /\ Vote!Init /\ Model!Init /\ Secret!Init /\ Process!Init
  /\ FileTool!Init /\ Note!Init /\ Rate!Init

VideoOnly ==
  /\ part = "video"
  /\ UNCHANGED <<part, splitVars, outboundVars, signalVars, voteVars,
                 modelVars, secretVars, processVars, fileVars, noteVars, rateVars>>

SplitOnly ==
  /\ part = "split"
  /\ UNCHANGED <<part, videoVars, outboundVars, signalVars, voteVars,
                 modelVars, secretVars, processVars, fileVars, noteVars, rateVars>>

OutboundOnly ==
  /\ part = "outbound"
  /\ UNCHANGED <<part, videoVars, splitVars, signalVars, voteVars,
                 modelVars, secretVars, processVars, fileVars, noteVars, rateVars>>

SignalOnly ==
  /\ part = "signal"
  /\ UNCHANGED <<part, videoVars, splitVars, outboundVars, voteVars,
                 modelVars, secretVars, processVars, fileVars, noteVars, rateVars>>

VoteOnly ==
  /\ part = "vote"
  /\ UNCHANGED <<part, videoVars, splitVars, outboundVars, signalVars,
                 modelVars, secretVars, processVars, fileVars, noteVars, rateVars>>

ModelOnly ==
  /\ part = "model"
  /\ UNCHANGED <<part, videoVars, splitVars, outboundVars, signalVars,
                 voteVars, secretVars, processVars, fileVars, noteVars, rateVars>>

SecretOnly ==
  /\ part = "secret"
  /\ UNCHANGED <<part, videoVars, splitVars, outboundVars, signalVars,
                 voteVars, modelVars, processVars, fileVars, noteVars, rateVars>>

ProcessOnly ==
  /\ part = "process"
  /\ UNCHANGED <<part, videoVars, splitVars, outboundVars, signalVars,
                 voteVars, modelVars, secretVars, fileVars, noteVars, rateVars>>

FileToolOnly ==
  /\ part = "file"
  /\ UNCHANGED <<part, videoVars, splitVars, outboundVars, signalVars,
                 voteVars, modelVars, secretVars, processVars, noteVars, rateVars>>

NoteOnly ==
  /\ part = "note"
  /\ UNCHANGED <<part, videoVars, splitVars, outboundVars, signalVars,
                 voteVars, modelVars, secretVars, processVars, fileVars, rateVars>>

RateOnly ==
  /\ part = "rate"
  /\ UNCHANGED <<part, videoVars, splitVars, outboundVars, signalVars, voteVars,
                 modelVars, secretVars, processVars, fileVars, noteVars>>

Next ==
  \/ VideoOnly /\ Video!Next
  \/ SplitOnly /\ Split!Next
  \/ OutboundOnly /\ Outbound!Next
  \/ SignalOnly /\ Signal!Next
  \/ VoteOnly /\ Vote!Next
  \/ ModelOnly /\ Model!Next
  \/ SecretOnly /\ Secret!Next
  \/ ProcessOnly /\ Process!Next
  \/ FileToolOnly /\ FileTool!Next
  \/ NoteOnly /\ Note!Next
  \/ RateOnly /\ Rate!Next

Spec == Init /\ [][Next]_vars
---------------------------------------------------------------------------
(* A create that is retried, or runs beside another one of the same name,  *)
(* adds one project or none, and none that its caller was not told of.     *)
OneProjectPerCreate == Video!OneProjectPerCreate

(* An element that was written stays in its composition, unless a call     *)
(* that had read it before wrote it.                                       *)
LostElementsOverlap == Video!LostElementsOverlap

(* Messages and memory chunks fit, go on, and lose nothing.                *)
CutsAreSound == Split!CutsAreSound

(* A memory chunk repeats the end of the one before it, as much as meant.  *)
ChunksOverlap == Split!ChunksOverlap

(* The chat never shows a part of a reply after a gap.                     *)
NoGaps == Outbound!NoGaps

(* A full queue makes the Signal poller wait and loses nothing.            *)
HandedOverIsKept == Signal!HandedOverIsKept

(* A vote waits for every sample and counts each that has a text.          *)
VoteCountsAll == Vote!VoteCountsAll

(* Read as a stream, an answer is the one chat would have given.           *)
StreamReadsAnswer == Model!StreamReadsAnswer

(* A secret that the kept master key decrypts stays so, but for the named  *)
(* ways to lose it.                                                        *)
RowsKeptReadable == Secret!RowsKeptReadable

(* A pid kept for `stop` names the process that was started under it.      *)
StopsOwnProcess == Process!StopsOwnProcess

(* A file keeps what was reported of it, dropped attempts and all, unless  *)
(* two writers met there.                                                  *)
ReportedChangesKept == FileTool!ReportedChangesKept

(* A page has the batches it was reported to have, and its note the text.  *)
ReportedTextThere == Note!ReportedTextThere

(* No client is granted more than MaxRequests requests within any period   *)
(* of length Window.                                                       *)
WindowBound == Rate!WindowBound

(* The rate limiter grants and refuses as a sliding window with lockouts   *)
(* does, whatever it prunes.                                               *)
ImplementsPromise == Rate!ImplementsPromise
=============================================================================
