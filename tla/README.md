# DistressNet in TLA+

DistressNet is a disaster-response network. First responders program *building
tags*, sensor motes left at the buildings that were searched; vehicles with
routers drive by, beacon and collect the records of the tags; phones upload
pictures to the router they are associated with; and the routers, which meet
only now and then, exchange records and pictures over a delay-tolerant network
(DTN, ibrdtn). This directory holds models of its programs, the TLC instances
that check them and the TLAPS proofs about them. The repository has no tests,
so the comments in the code and two documents, `asio/README.md` and
`mote/ReadMe.txt`, are all it says about what the programs are meant to do.

    tlc -workers 2 -config TagBuffer.cfg MCTagBuffer     # check an instance
    tlapm BuildingTagProofs.tla                          # check the proofs

1. [The system](#1-the-system)
2. [The modules](#2-the-modules)
3. [The runs](#3-the-runs)
4. [The proofs](#4-the-proofs)
5. [Where code and documentation disagree](#5-where-code-and-documentation-disagree)
6. [What is not modelled](#6-what-is-not-modelled)
7. [The plan](#7-the-plan)

## 1. The system

| part | code | state it keeps | operations | what is hard |
|---|---|---|---|---|
| building tag, record buffer | `mote/bldg_tag/BuildingTagC.nc` | the ring `btagloc_table`, two indices, whether `SendTimer` runs | `DataTimer`, `BtagDataUDP`, `SendTimer`, `BeaconRecvUDP` | indices that are never compared before a store; a timer that sends without looking |
| building tag, root election | same | `rpl_root_addr`, `root_age`, `root_sequence`, the RPL tree | `RootSelectionTimer`, `RootSelectUDP` | lost and late multicasts, restarts |
| building tag, sink election | same | score and its counters, `sink_id`, `sink_score`, `elecsfilter`; on the root `sinkmsg`, `index`, `BroadTimer` | `ElectionTimer`, `ElectionUDP`, `BroadTimer`, readings, beacons | claims that overtake each other; a round that is interrupted and restarted |
| building tag, programming | same | the tag's own record | `ProgrammerUDP` | old programs that arrive late; copies that take different ways |
| bridge mote | `mote/StaticWifiBridge/PppRouterP.nc` | a beacon counter | relays beacons, records and programs between serial line and radio | two bridges in range of each other |
| vehicle | `asio/mobilebeaconer_btagcollector.cpp` | none | relays records to ten routers, programs to the bridge | buffers that go out of scope before the asynchronous send |
| router, record forwarder | `asio/multicastforwarder.cpp` | the last record of each tag | relays records between mesh, DTN and the phones' network | bundles out of order, own bundles coming back |
| phone, picture upload | `android/FogBox/jni/tftpc.c` | globals shared by the threads of the application | `sendRequestedFile`, `tsend` | threads without a lock, time-outs, ports that are not checked |
| router, upload server | `asio/tftpd.c` | one process per transfer, temporary and real files | the loop of `main`, `tget`, `tcopytmp` | processes that share files; `errno` read after calls that do not set it; kills |
| router, download server | `asio/tftpd.c` | the packets since the last acknowledgement it waited for | `tsend` | late and duplicated acknowledgements; a window that is sent again; a file that is still being uploaded |
| router, Fogbox | `asio/fogbox_send.cpp`, `asio/fogbox_recv.cpp` | the folder of pictures, lock files, `.fogboxmeta`, `lmt_map` | `fogsync` of both, the signal handler | three processes on one folder; crashes between two accesses |
| router, supervision of the DTN daemon | `openwrt/.../safety-wrapper.sh` | a crash counter, safe mode | the restart loop | exponential delay over days |
| archive library of the phone application | `android/FogBox/jni/libzip` | the handle of an archive: its entries and their changes; the open files and the `FILE` they share | `zip_open`, the functions that change an archive, `zip_close`; `zip_fopen`, `zip_fread`, `zip_fclose` | steps of `zip_close` that fail, after which the handle is used again; changes that undo each other; damaged archives; several readers of one `FILE` |
| phones, user interface | `iphone/DNet`, `android/FogBox/src` | lists that are shown | programming and viewing tags, sharing pictures | cut detection on floating point values |

How they interact: a program for a tag goes from a phone to a router, from the
router to all vehicles, over the serial line to the bridge mote and by radio to
the tag. The tag puts its record into its ring once a second; a tag that is not
the *sink* sends what it holds to the sink, and the sink sends what it holds
to a vehicle whose beacon it hears. Who is the sink is settled through the
*root* of the RPL routing tree, and who is the root by multicasts between
neighbours. The vehicle relays the records to all routers; a router that hears
something new hands it to the DTN for all others. Pictures are uploaded by TFTP
to a folder of the router; `fogbox_send` finds them there and hands them to the
DTN; `fogbox_recv` puts what the DTN brings into the same folder. From there
any TFTP client downloads them. libzip is third-party code that the repository holds in
source and links to the native library of the phone application.

What makes each part correct, in a sentence: the ring sends records in order and
at most once; no two neighbours stay roots and no tag changes from a root to
a worse one; no tag but the root follows a sink whose last announcement it has accepted and
knows to be worse than itself, and the root tells everybody who is the sink; what is published under a picture's name is
the whole picture, and a phone that believes it is done is right; a router
never sends on what it received, and every picture gets everywhere, wherever
its programs are interrupted; the viewers near a vehicle end with what was programmed last, and
the DTN comes to rest; a tag ends with the last program made for it; a download is a
beginning of the file, and a server that reports success is right; and an archive that was written
shows what its handle showed, whatever failed on the way. The hazards, each at its line and with the
properties that watch it, are in `PROJECT.json`.

## 2. The modules

| module | models | lines |
|---|---|---|
| `TagQueue` | abstract specification: a queue that forgets everything when overrun | |
| `TagBuffer` | the ring and the five handlers that touch it; implements `TagQueue` | `BuildingTagC.nc` 317-405, 536-601, 669-724 |
| `RootElection` | the root election of all motes and the radio between them | `BuildingTagC.nc` 148-246 |
| `SinkElection` | the sink election of all motes, the root's round and the network | `BuildingTagC.nc` 248-315, 408-534, 669-724 |
| `TftpUpload` | the phones' threads, `tftpd` with its processes, the disk and the network | `tftpc.c` 319-929, `tftpd.c` 156-254, 257-603 |
| `BtagRelay` | the records' way from the sink to the phones: bridge mote, vehicle, forwarders, DTN, viewers | `PppRouterP.nc` 126-182, `mobilebeaconer_btagcollector.cpp` 73-106, `multicastforwarder.cpp` 40-167, 240-311, `dn-utils.h` 81-97, `BTagviewer-iPad.m` 113-149 |
| `BtagProgram` | the programs' way from the phones to the tags: forwarders, collectors, bridges, tags that send on | `multicastforwarder.cpp` 40-238, `mobilebeaconer_btagcollector.cpp` 113-139, `PppRouterP.nc` 72-175, `BuildingTagC.nc` 640-666, `BTagProgrammer.m` 72-108, `BTagprogrammer-iPad.m` 124-161 |
| `TftpDownload` | a child of `tftpd` that sends a file, a client and the network | `tftpd.c` 606-869 |
| `ZipFormat` | what libzip writes to a zip file and how it finds it again: pure operators | `zip_dirent.c`, `zip_open.c` 143-546, `zip_filerange_crc.c` |
| `ZipArchive` | a program that changes an archive, the handle, and every step of `zip_close` | `zip_close.c`, `zip_open.c` 60-140, `zip_add.c` to `zip_unchange_all.c`, `zip_source_*.c` |
| `ZipFile` | the files a program reads in an archive | `zip_fopen_index.c`, `zip_fread.c`, `zip_fclose.c`, `zip_free.c` |
| `Fogbox` | `fogbox_send`, `fogbox_recv`, the router's disk and the DTN | `fogbox_send.cpp` 42-289, `fogbox_recv.cpp` 89-179 |
| `MC*` | topologies, tables and file sizes for TLC | |
| `*Proofs` | the theorems of section 4 | |

Names are those of the code. Definitions named `X_What` are faulty variants of
the definition `X` below them: no action uses them, they serve to see that
a property notices the fault.

**Atomicity.** TinyOS runs a handler as one task, so on the motes a handler is
one action. On phones and routers an action is what no other process can see
the inside of: one access to a shared global, a file or the network, with the
private steps around it.

**TagBuffer.** `btagloc_table`, `btag_table_in`, `btag_table_out` are the
code's; `send_timer` is "SendTimer runs"; the election is reduced to the flag
`is_sink`, which may flip at any time (`SinkElection` says when it does).
History variables: `unsent`, the cells whose record was not sent, and `handled`,
the handler that ran last. The refinement mapping computes the queue from the
indices: indices that meet are a full ring while the timer runs and an empty
one otherwise; that this is the right reading is part of what is checked.

**RootElection.** One action per branch of the two handlers. `air` is the set
of announcements on their way: they are received in any order, late, or lost.
`TakeSequence` is line 195, which stores the number of a message before any test;
so the condition of line 224 compares a number with itself, and the
model keeps the dead branch behind it. `silence` is a history variable.

**SinkElection.** The root is fixed and known to all motes. `mail` holds the claims
to the root and its announcements. The score keeps the integer divisions
of the code. The loop of `BroadTimer.fired` is the choice of the least
remaining entry of the routing table. History variables: `told`, the entries told in this round;
`heard[m][n]`, the score and number of the newest election of `n` that has reached `m`, which the code does
not keep; `outbid[m]`, that `m` has turned down an announcement of its own sink since it took it.

**TftpUpload.** A thread of the phone writes two unprotected globals, sends the
request, opens the file named by a global and runs the block loop; `main` of the server
polls, reaps and forks; a child opens, receives, closes, copies and renames.
`ctries` and `stries` are the two loop counters `j`. An `fwrite` may reach the file
late (`BufferFull`, `Flush`); a kill loses what is not flushed. Two facts of
the code deserve a word, because the model repeats them: `ack` is not initialised,
so after a time-out of the first wait the port the client sends to is arbitrary
(`WrqTimeout`), and the tests for the right port compare a value with itself,
so any port will do (`BlockAcked`, `BlockReceived`). The wait for the
answer to the request is run once, as in the code.

**Fogbox.** Every access to the disk is an action: listing, reading a time, looking
for a lock, reading the picture; testing for a file, creating the lock,
creating the file, writing it; emptying `.fogboxmeta`, writing it. `Term` is the
signal handler, which may run between any two of them; `Kill` and `CrashRecv`
end a process. `Upload` is the rename at the end of `TftpUpload`: that the picture is
complete at this point is the property `WholeFile` there.

**BtagRelay.** One action per hop. `air` stands for the ring of the sink and the
radio: records in it arrive in any order or not at all. `ppp` is the frame on the serial line. `mesh`
holds what routers have received and their forwarders have not read, which waits while the only
thread is in `handler` (`handler[r] = "get"`, the loop around `getBundle`). The collector sends to the
routers from a buffer on its stack, as `BtagProgram` says: of the sends that wait, any record goes out
(`garbled` in `CollectorForwards`), which is counted as a fault. `allbtags` is the code's cache; its mark for an
empty entry, mote id 111, is `Unknown`. A record has the fields that `equals_btag` compares, as `tag`, and
the location that it does not, as `place`. Bundles of equal contents on their way to the same router are
one in the model. Whether a router's own DTN daemon hands its own bundles back is left open.

**BtagProgram.** The same network in the other direction, with one action per hop. A program is the id of its tag
and a number that stands for all its other fields. `Press` is the button with new fields; `PressAgain` is
the user who sees in the viewer that the tag has something else and sends the program again.
The forwarder starts ten sends from one buffer: most go out at once, and those that have to wait,
`queued`, read the buffer when their turn comes (`SendQueued`), which is after the next program has
arrived if there is one. The collector of the vehicle sends from a buffer on its stack: a send that has
to wait reads whatever is there, so `RecvdWlan1` may put any program on the line, and `garbled` is true from then on. `ProxyRecv` is the bridge, which
hears programs from the line and from the radio and repeats all but those of other bridges; a tag sends
what is not its own on to its owner. `last`, `made` and `garbled` are history variables.

**TftpDownload.** The actions of the server are the turns of the loops of `tsend`. `packetbuf` holds what the
code keeps for repetition: the packets since the last acknowledgement that was waited for, with the
option `-a` more than one. All of them are sent again with the length `len` of the last one (`Shortened`),
as in the code. When no acknowledgement is awaited, one that happens to have arrived is read and not
looked at (`ReadBlock`). The client is any that keeps to the protocol: it takes the next
block, acknowledges what it has, and may repeat its acknowledgement at any time. `Grow` is the upload that still goes
on. `whole` and `faults` are history variables.

**ZipFormat, ZipArchive.** A zip file is a sequence of units: a header is one, and so is each piece of data or
of a comment. Units that look like headers may occur in data and comments, because a stored file
can be a zip file. What `zip_open` finds is a set of places (`Candidates`) of which one is the best
(`Best`); whether it returns a directory at all is `HasCdir`. The handle is the code's: `entry` with the states
`UNCHANGED` to `DELETED`, the new names and comments, and the sources of new data, which know how often
they were read. `zip_close` is one action per entry, then the central directory, then the rename, so that
failures (`CloseFails`, after which the handle is open again) and kills fall between any two of
them. Where the code reads behind the end of the directory (`CopyGhost`) the outcome is arbitrary.
`remove()` and the reopening of the file may fail (`CloseEmptyFails`, `CloseFails`).
History variables: `revived`, that a deleted entry was brought back; `damaged`, that the file was cut or has
an entry from behind the directory; `uncut`, the file as it was before it was cut.

**ZipFile.** The open files share the position `pos` of the `FILE`; `zip_fread` inflates in turns of its loop
(`Loop`), and reads when its buffer is empty (`Refill`). `bytes_left` is an unsigned number of width
`ULong`, as in the code. A `zip_close` that fails (`FailedClose`) may leave the archive without a `FILE`
(`pos` is `NULL`): the next call that seeks in it ends the program (`Crash`). The archives are intact or damaged in the ways the checks are for: other data of
the same length, data that are no stream, a file that was cut, sizes that are too small, a stream
that ends early.

## 3. The runs

Every property of a passing run is also run against a faulty variant of a
definition, listed under `mutants` in `PROJECT.json`, and must fail there.

| run (cfg) | question | instance | distinct states |
|---|---|---|---|
| `buffer` (`TagBuffer.cfg`) | does the ring, with its unchecked indices, behave as a queue that forgets all it holds when overrun; is a record ever sent twice; does a tag that lost the sink role go on sending | 4 cells, 2 contents, with fairness | 31 469 |
| `root` (`RootElection.cfg`) | can reordering, loss and restarts leave a tree at a mote that follows another, or move a mote to a worse root; of two roots in range, does the worse yield; do neighbours come back to the best root | 3 motes in a line, age 1, sequence numbers modulo 1, no bound on the air that matters, with fairness | 39 898 |
| `sink_scores` (`SinkElectionScores.cfg`) | does a mote that is not the root follow a sink that was worse than itself the last time it heard of it, though claims and announcements overtake each other and motes restart | root and two motes, of which one is in the routing table; 2 readings; 2 elections of one mote and 1 of the other before a restart; 2 messages | 590 480 |
| `sink_broadcast` (`SinkElectionBroadcast.cfg`) | does a round end before every valid entry was told, though claims interrupt it | 3 motes, a table of 3 entries with an invalid one between valid ones, 1 election each, 1 beacon | 1 913 141 |
| `tftp_forked` (`TftpUploadForked.cfg`) | `tftpd` with a child per transfer: is anything but the whole file ever published, by concurrent transfers of two phones and two names | 1 block, 2 waits, a kill | 524 832 |
| `tftp_liveness` (`TftpUploadLiveness.cfg`) | do both ends stop, is what was sent received and published | 3 blocks, 3 waits as in the code, a duplicate, with fairness | 31 395 |
| `fogbox` (`Fogbox.cfg`) | with kills, signals and crashes anywhere: does a router send on what it received, do the saved metadata tell of pictures that were not sent, does a picture get everywhere | 2 routers, 1 picture, 2 seconds, 2 signals or kills, 1 crash or expired bundle, with fairness | 114 837 |
| `btag_relay` (`BtagRelay.cfg`) | do the viewers near the vehicle end with what was programmed last; does the DTN come to rest; is what is cached always sent | 2 routers, one in reach, a phone there; 1 tag, programmed once anew; 1 restart, expired bundle or garbled send, with fairness | 115 632 |
| `btag_program` (`BtagProgram.cfg`) | does a tag take a program made for another one, before a collector sends what is left on its stack; do all copies of a program come to an end; does a tag end with the last program made for it, whatever copies of older ones come late | routers 9 and 10 with bridges that hear each other, phones at 10; 2 tags, one out of reach of both bridges; 2 programs for it; one send that has to wait, with fairness | 54 207 |
| `tftp_download` (`TftpDownload.cfg`) | is what the client has always a beginning of the file; is a complete file complete; is "sent successfully" true; is a transfer given up in vain; does the child end | 5 pieces in blocks of 2, an acknowledgement every 1, 2 or 3 blocks, 3 waits as in the code, 2 faults, a file that grows, with fairness | 334 201 |
| `zip_archive` (`ZipArchive.cfg`) | are names distinct; is a changed handle ever dropped as unchanged; does the file `zip_close` writes show what the handle showed; does the file on disk always open; does a file that was cut show only what the whole file shows | no file, an empty one, or one with 2 entries of which one is a zip file that begins with the same file; 2 names, 3 entries, 3 changes, 2 failures or kills | 513 342 |
| `zip_file` (`ZipFile.cfg`) | is every file read from its own place; is an end of file only reported for the data that were stored; is an intact file read without error; does `zip_fread` come to an end, unless a stream ends before the size in the directory; is the table of open files right | 2 handles, 2 files, one intact and six damaged archives, buffers of 2 units, unsigned numbers modulo 8, with fairness | 104 277 |

**Why the bounds are enough to be interesting.** The handlers look at the size of the ring only
through `After`; with 4 cells it is filled, overrun and wrapped several times
over, in every combination with the timer. In the root election two motes
suffice for a conflict and the third makes "first root", "impostor", "known" and "better
root" all occur; sequence numbers are taken modulo 1, because the number is compared
only in the dead branch, and the age limit (10 in the code) is 1: a root is
given up after that many ticks, which happens with any limit. What a larger number, another
topology or a larger limit could change in the safety properties, the theorems of section 4
answer: they hold for all of them. In the sink election two readings
(0 and 409, one unit of `BV_NORMALIZE`) let scores rise and fall, and one mote with two
elections lets an old claim overtake a new one on both ways; the
table of `sink_broadcast` has an entry that is skipped and a node that changes
role during the round. In `TftpUpload` the number of blocks matters only as first, middle
and last: `tftp_liveness` has all three; `RETRIES` is 3 in the code and 2 where two
transfers are explored, so that a wait that is repeated and a wait that is the last both occur.
In `Fogbox` two seconds allow a time that is newer than a saved one; two
signals or kills allow a kill while the metadata written after a signal
are being saved. In `BtagRelay` tags do not interact, because the caches are indexed by the tag, so one
is enough; two contents allow an old bundle to undo a new record; the router in reach may get its own
bundles back, which has every effect a second router in reach would have on it. In `BtagProgram`
router 10 is the last on the list of ten; its bridge and that of router 9 hear each other, and the tag that
is programmed is reached only through another tag. In `TftpDownload` the last block is short, and
a frequency of 3 makes windows that are longer than what is left; a file of 4 pieces, whose last block is
empty, is among those that are still growing. In `ZipArchive` three changes suffice to
undo one in part (rename, add under the old name, unchange), and two failures to fail twice in a
`zip_close` or once in each of two; `Wide` is the number of values of a 2-byte field, and lets a comment be cut
to fit. In `ZipFile` the buffer is smaller than the compressed file, so that a file is read in turns.

**Fairness.** `TagBuffer`: a started TinyOS timer fires, so the data timer (which
restarts itself) and a running `SendTimer` are weakly fair; beacons and
records of others are not promised. `RootElection`: the timer of every mote is
weakly fair; an announcement that its root repeats for ever is received some time (strong
fairness per pair of neighbour and root), which is the least one can ask of a
radio that is not jammed; losses and restarts stay unbounded. `TftpUpload`:
each thread and process is weakly fair, because every wait is a loop with a time-out; the network is not fair at all. `Fogbox`:
`fogsync` restarts its own timer, `fogbox_recv` polls, the DTN delivers what has not expired; and a
`fogbox_send` that ended is started again, as `asio/README.md:38` assumes ("When the fogbox is
restarted"). `Synchronized` claims nothing once a bundle has expired or a `fogbox_recv` has crashed with a
bundle in its hands, because then the picture really is lost for that router. `BtagRelay`: timers fire and
programs run; of what is sent again and again over a link (radio to
bridge, vehicle to router in reach, router to phone) some gets over, which is strong fairness, because
every single datagram may be lost; the DTN brings what has not expired while the forwarder asks for it.
`BtagProgram`: programs and motes handle what they have received, the user presses again until the tag
has the last program, and of a program that is sent again and again over a link some copy gets
over, from a buffer that still holds it. `TftpDownload`: the child runs and its waits end; neither the
network nor the client is fair. `ZipFile`: the program goes on with a `zip_fread` it has called.

The programs of the motes and routers are not meant to stop, and deadlock is checked in all runs but
`btag_program`, `tftp_download` and the two of libzip, which really may stop: all
programs are made and delivered, the transfer has ended, the changes are used up, or
the program that uses the archive has crashed.

## 4. The proofs

For every value of the constants (under the `ASSUME`s of the modules: at
least two cells, ids below `NO_ROOT`, no mote its own neighbour, a positive number of
blocks and waits, and the like; none of them restricts what the code can be
configured to), TLAPS proves:

| theorem | statement | argument |
|---|---|---|
| `BuildingTagProofs!BufferTypeCorrect` | the indices stay inside the ring | invariant as it stands |
| `BuildingTagProofs!NeverStale` | `SendTimer` never sends an empty or already sent cell | `FreshInv`: all cells between the indices are unsent, and if they meet while the timer runs, all cells are. `NoStaleSend` alone is not inductive: it says nothing of the cells after the next. `StoreFresh` is the lemma on a store, which finds the ring empty, filling or full |
| `BuildingTagProofs!RingIsQueue` | the ring implements the abstract queue: records leave in the order they came, at most once, and are forgotten only when it is overrun | refinement. The held records are the cells from `btag_table_out` on, as many as `Length` says (`SlotIsCell`, `ContentsHeld`). `HeldAfterStore` and `HeldAfterSend` say how a store and a send change this sequence; `StepSimulation` maps every handler to an action of `TagQueue` or a stutter |
| `BuildingTagProofs!TypeCorrect`, `TreesOnlyAtRoots`, `RootsOnlyImprove` | types; a tree only at a mote that follows itself; no change to a worse root | `TreeOnlyAtRoot` is inductive with the type invariant; the action property follows from a case analysis over the six branches of the receiver |
| `SinkElectionProofs!TypeCorrect`, `SinksAreNoWorse`, `BroadcastsComplete` | types; no mote but the root follows a sink whose newest score it has heard of is below its own, unless it turned that announcement down (`outbid`); the round skips nobody | `SinkInv`: a mote that is its own sink has announced the score it has (`SinkKnowsItself`); the score a mote keeps of its sink is the one it has heard of last (`RemembersSink`), because the filter of line 503 lets only newer elections pass; and its own score is no higher. `BroadcastComplete` needs that, at any time of a round, every valid entry below `index` was told or is the sink's, and that the root's `sink_id` is either the claimant or itself |
| `TftpUploadProofs!TypeCorrect` | types of both ends, the disk and the network, for any number of threads, phones, files, blocks and children | `TypeInv` adds to `TypeOK` which threads have a source and which children a client and a name; without it neither a block nor an acknowledgement has its type |
| `TftpUploadProofs!SentIsTrue` | a phone that shares one picture at a time says "sent" only of a picture that a transfer of its own has received whole | `UploadInv`: a datagram from a phone is about the picture it shares; an acknowledgement says no more than its transfer has (`Carries`); a transfer has the first blocks of its file, and never more than there are (`Collects`). The hypothesis `OneThreadPerPhone` is needed twice: the check of the sender looks at the address only, and threads of one phone race for the global path (`TftpUploadRace.cfg`) |
| `TftpUploadProofs!PublishedIsWhole` | under a name there is nothing or the whole file | `DiskInv` follows the copies of a file through the phases of its transfer: `tmp` has what was flushed, then the file, then `realtmp` has it (`WrittenPrefix` is the lemma on writing at an offset). It holds while no other transfer of the name runs (`Alone`), which is proved from `OneTransferPerName`: no forks, or distinct names and no duplicated request. Without it `FirstConnectionUnspoiled` is the counterexample |
| `TftpDownloadProofs!TypeCorrect`, `OrderKept`, `SentIsTrue`, `DoneHasAll` | types; what the client has is a beginning of the file; "sent successfully" is true; a complete file is the whole file | `IInv` relates the three places a block is in. The window `packetbuf` is the blocks from the last awaited acknowledgement on, as they are in the file (`Reading`, `Keeping`); a datagram under way is a block of the file, or one cut to the length of the last packet, and then only at the end of the file (`UnderWay`); nobody acknowledges more than the client has (`Ahead`); what the client has is the first `rcount` blocks (`Received`). None of the three properties is inductive without all of these, because late acknowledgements and repeated windows meet at any time |
| `TftpDownloadProofs!GivenUpForFaults` | with an acknowledgement for each block, a transfer is given up only after `RETRIES` faults | `Frugal` keeps the account. What is under way is a set of tokens, one for each copy of a datagram (`Flying`), with the number of the block it is about (`Number`); `Aged` are those about earlier blocks. While block `n` is awaited, `Paid` holds: the tokens are at most one more than the faults, and the waits so far and the aged tokens, each of which can still cost a wait, are covered by the faults, with one to spare while nothing else is under way. Each step adds or takes at most one token (`Gains`). This is a sum over a bag, and so by the library's theorems on finite sets. It needs `Exact`: what is under way about the awaited block is that block, whole |
| `LibzipProofs!TypeCorrect`, `NamesStayDistinct`, `NothingLost` | the state of an entry agrees with its new name and data; names stay distinct; a handle that is dropped as unchanged shows what is in the file | `IInv`: the entries are a sequence at least as long as the directory, each fits its state, and names are distinct if they were in the file and no deleted entry was brought back. `OneChanged`, `OneRenamed` and `OneMore` say what a changed or added entry does to this, `NotTaken` that the code's search for the first entry of a name is as good as a search for any other |
| `LibzipProofs!DiskStaysOpen` | the file of an archive opens again with all checks, whichever step of `zip_close` fails and whenever the program is killed; archives, data and comments may look like anything. Excepted, by the property, are a file that was cut and one that got an entry from memory behind the directory | `DiskInv`: what the handle read is still what is on the disk, and each entry agrees with the header in front of its data (`Agrees`); what `zip_close` has written of the new file holds every entry of the new directory at its place (`AllKept`), so that the end record it adds is a candidate that passes the checks. That suffices though there may be better candidates, in data or in comments: of finitely many there is a best (`BestOf`, by induction on the set), and the best is no worse than one that passes |
| `LibzipProofs!SavedIfTaken` | what `zip_close` writes shows the names, data and comments the handle showed, in the order of the new directory, if `zip_open` takes the end record `zip_close` wrote (`OwnTaken`) | `SaveInv`, over `DiskInv`: every entry written so far has what the handle shows (`SavedSoFar`). The data are the units behind the header of the old file (`ReadSame`, `DataSame`), which further writing leaves alone (`StillSaved`), and reading a directory that was written gives that directory (`ReadAsWritten`). Hypotheses: `NULL` is no file, and comments are shorter than 65536 bytes (`ShortComments`): `zip_set_archive_comment` takes one of just 65536, whose length is written as 0 |
| `LibzipProofs!PlainIsSaved` | if no archive and no comment the program starts with has an end record in it but the one that ends an archive (`PlainContents`), what was saved is what was shown | `PlainInv`: unless the file was cut or otherwise damaged (`damaged`), this stays true of all files that are written, and of the directory in memory (`PlainNow`). So the candidate of `zip_close` is the only one, which gives `OwnTaken` as long as the number of entries fits its field |
| `LibzipProofs!FilesTypeCorrect`, `FilesReadOwnData`, `FileEndIsWhole` | sizes, counters and buffers of the open files; what was read of a file is a beginning of what is in the archive for it, whatever other files are read in between; an end of file is reported only for the data that were stored. All for every archive, however damaged | `FilesIInv`: of its data a file has read `Got` units and `inflate` has taken `Done` of them; `fpos` and `buffer` agree with that (`Placed`), and what was delivered, with what a call holds in `outbuf`, is what the pieces taken inflate to (`Inflates`). A call in the loop has something left to deliver; a file of an archive that is gone has an error. That more pieces inflate to more data is by induction (below) |
| `LibzipProofs!IntactFilesAreRead` | a file that is intact in the archive is read without an error | `IntactsOK` adds that `bytes_left` is just what is missing (so it never wraps), and that `inflate` has met the end when it has taken all pieces, and then has the data: none of the comparisons of `zip_fread` can fail |
| `BtagRelayProofs!TypeCorrect`, `CachedWasSent` | types, with every record at the index of its tag; what a forwarder has cached was handed to the DTN | `SharedInv`: besides, all bundles on their way were sent. `HeardIsShared` alone is not inductive, since a bundle goes into the cache without a look at where it came from |
| `BtagProgramProofs!TypeCorrect`, `TagsHaveOwnPrograms` | types; whatever a tag has was made for it | every copy of a program, in the mesh, on a line, on the radio or held for sending in the buffer of a forwarder (`recvbuf_wlan0`, whatever has been received into it since), was made (`ChannelsMade`, `TagsMade`, `LastMade`), as long as no collector has sent from a buffer that was gone (`garbled`); after that anything may be on the line |
| `FogboxProofs!TypeCorrect` | types; in particular `fogbox_send` reads only files that exist | `TypeInv` adds that the picture it looks at is there until it is read, whatever the other two processes do: nobody removes files |
| `FogboxProofs!MetadataSent` | the saved metadata name only pictures that were sent | `MetaInv`: while `fogbox_send` runs, `lmt_map` holds what was sent and the picture about to be. The signal handler does not save; the code saves only at the end of a scan, where nothing is about to be sent |
| `FogboxProofs!NothingEchoed` | a router hands to the DTN only whole pictures its own phones uploaded | `EchoInv`: bundles are whole and come from the router that owns their name; a file without a lock is own and whole; `fogbox_recv` gets past its test for an existing file only with a foreign name, so own names are never locked; what `fogbox_send` is about to send is own. The hypothesis `OneRouterPerName` is needed: if two routers use the same name, the race of `FogboxRace.cfg` puts a received picture where `fogbox_send` has just looked for a lock |

Where a type invariant is proved, the run of that module does not repeat it, except in
`TagBuffer`, `TftpUpload` and `TftpDownload`; it stays in the modules.

**Induction over data.** The induction theorems of the library take an operator as a parameter, which no
installed prover can instantiate. Where a fact about data needs induction, it is done over the *set* of
numbers for which it holds: a set of numbers that is not empty has a least one (`LeastNatural`), so one that has
0 and the successors of its members has all (`SetInduction`).
In this way `LibzipProofs` has that the recursive function behind `FlattenSeq` is what its definition says.
The modules declare no recursive operator.

**Only model-checked.** All liveness, because TLAPS has no backend for `ENABLED` and fairness, and one
safety property, `CutShowsPart`: it is false for contents made for it, where an entry of one stored zip file names
by its offset the place of a file of another, so there is nothing to prove of all contents. What the run shows
is that a file that was cut, also one whose stored zip file begins with the same file, brings nothing
new with it. Every other safety property of a run is stated by a theorem, four of them under hypotheses
that are not assumptions of the module: `NoEcho`, `SentIsReceived` and `WholeFile` of uploads, as said above, and
`SavedIsShown`, which is false for some contents: of several candidates `zip_open` takes the one whose
files take up most, which need not be the last.
The theorems are about archives without other archives in them, or with `OwnTaken`;
the instance of `zip_archive` has a zip file in a zip file and a comment that looks like an
end record, and there it holds without a hypothesis. Besides, `SavedIsShown` is false once the number of entries
wraps (`WrapIsRead`). In which order the new directory is, `SetToSortSeq` says (`Sorted`), which the
provers cannot expand: the theorems are about whatever order it gives.

## 5. Where code and documentation disagree

Each of these properties states what a comment, a message or a document says. They do not hold, and
are not part of the runs above. Those with a configuration of their own end with
a counterexample; the others are stated at the end of their module, and fail when they are
added to the configuration of its run.

| property | configuration | the code | the text |
|---|---|---|---|
| `BeaconStartsSending` | `TagBufferBeacon.cfg` | a ring that is exactly full looks empty to the beacon handler (line 720) | "also send data to car right now" (`BuildingTagC.nc:719`) |
| `AgeIsSilence` | `RootElectionAge.cfg` | a mote gives up, after 11 ticks, a root whose announcements it hears all the time: line 195 overwrites `root_sequence`, so the branch that would reset the age is dead | "haven't heard from the root in a while" (`BuildingTagC.nc:177`) |
| `KnownRootForwarded` | `RootElectionForward.cfg` | a new announcement of a known root is never sent on (line 195) | "i know this guy, so rebroad" (`BuildingTagC.nc:222`) |
| `OutbidderIsSink` | `SinkElectionOutbid.cfg` | a mote whose sink announces less than its own score goes on following it, and remembers the old, higher score (line 528) | "i am the actual sink" (`BuildingTagC.nc:530`) |
| `RootKnowsSinkScore` | | the root takes the id of a claimant over and not its score (line 491) | "my score is better than sink score" (`BuildingTagC.nc:282`) |
| `CorrectTID` | | the test compares a value with itself | "checks to ensure get from the correct TID" (`tftpc.c:826`) |
| `RequestServed` | `TftpUploadRequest.cfg` | the server reads a request and forgets it, when `errno` still holds the `EAGAIN` of an earlier poll, which it does while a child runs; the client gets no answer and gives up | "endless loop to get connections from the client" (`tftpd.c:155`) |
| `FirstConnectionUnspoiled` | `TftpUploadSameName.cfg` | a second transfer of a name empties the file the first has received and not copied (line 318) | "we aren't going to let another connection spoil our first connection" (`tftpd.c:444`) |
| `PublishedUnderItsName` | `TftpUploadRace.cfg` | two threads of a phone race for the global path: one picture is published under the name of the other (`tftpc.c:327`) | "users can upload pictures to the router it is currently associated with" (`asio/README.md:27`) |
| `DoneIsWholeAlways` | `TftpDownloadAck.cfg` | with an acknowledgement every two blocks or more, a window is sent again with the length of its last packet: the client takes a block that was cut for the last one | "-a <ack freqency" (`tftpd.c:902`), an option without a restriction |
| `DoneIsUpload` | | a download may start while the file is still being uploaded, and gets what there is as a complete file | none: the server sends from the folder it receives into (`tftpd.c:606`) |
| `NotOverwriting` | `FogboxRace.cfg` | a picture uploaded between the test and the opening is replaced by a received one of that name | "file exists, not overwriting" (`fogbox_recv.cpp:137`) |
| `NewPictureSent` | `FogboxLock.cfg` | the lock of a received picture stays and hides a later upload of that name (`fogbox_send.cpp:155`) | "When there's a new picture found, fogbox will send it to the DTN" (`asio/README.md:29`) |
| `FarViewersCurrent` | `BtagRelayFar.cfg` | a bundle replaces what is cached, whichever is newer; out of reach of the vehicle an overtaken bundle shows an old record for ever (`multicastforwarder.cpp:127`) | "you should be able to see the programmed data on the btag_view app" (`asio/README.md:130`) |
| `PlaceCurrent` | `BtagRelayPlace.cfg` | `equals_btag` does not compare the location: a tag programmed at another place with the same fields keeps the old place on every map (`dn-utils.h:84`) | the same sentence |
| `NeverOlder` | | nothing in a program tells its age: a late copy of an old one replaces a newer one (`BuildingTagC.nc:650`) | none; `LastProgramWins` holds because the user programs again |
| `QueuedIsSent` | | a send that waits reads the buffer when its turn comes, and sends the program that came next (`multicastforwarder.cpp:226`) | none |
| `WrapIsRead` | `ZipArchiveWrap.cfg` | the test comes after the condition of the loop, so only a number of entries that wrapped round to 0 is put right | "nentries wraps around, size indicates correct EOCD" (`zip_open.c:239`) |
| `RevivedIsChecked` | | `zip_replace` or `zip_unchange` brings a deleted file back under its old name, which may be taken by now | "because the file will be removed directly afterwards" (`zip_delete.c:48`) |
| `EmptyIsRemoved` | | if a rename and then the opening of the file failed, the next `zip_close` keeps the file and returns 0 | "don't create zip files with no entries" (`zip_close.c:92`) |
| `CutRefused` | `ZipArchiveCut.cfg` | a file that holds a zip file which begins with the same file, and is cut behind the end of that one, opens as the stored zip file even with `ZIP_CHECKCONS`: the local header at the offset is the same (`zip_open.c:506`) | none |
| `CommentsSaved`, `RetriedIsSaved`, `NoGhosts`, `CutShowsPartAlways` | | comments of files with new data get lost; an entry copied from another archive is empty when `zip_close` is called again; an entry that `zip_add` left behind is written from memory behind the directory; without `ZIP_CHECKCONS` a file that was cut may open as the archive stored in it | none |
| `FreadReturns` | `ZipFileLoop.cfg` | a stream that ends before the size in the directory is reached keeps `zip_fread` in its loop | "endless loop until something has been accomplished" (`zip_fread.c:81`) |
| `ClosedFilesClose` | `ZipFileClosed.cfg` | `zip_fclose` looks for the file in the table of an archive that is gone | none; `zip_free.c:70` sets the error "Zip file closed" for its caller |

## 6. What is not modelled

Inside the modelled components:

- `BuildingTagC.nc`: `ResetBeaconTimer` (no code starts it); `election_timer_started`
  (set before the first message can arrive); ids outside `cars` and `elecsfilter`
  (memory beyond an array has no meaning in the model); the wrap of the 16-bit counters of elections and
  beacons (bounds `MaxIter`, `MaxBeacons` stay below); a change of the routing
  table or of the root during a round; restarts of the root in `SinkElection`.
- TFTP: in uploads, block sizes and frequencies of acknowledgements other than the defaults; error packets from the client, malformed requests (they end
  the server: it has no supervisor in the repository), the wrap of 16-bit block
  numbers at 32 MB, failing disks. The application starts no downloads and the client's are
  commented out, so the client of `TftpDownload` is any that keeps to the protocol. The copy loop of
  `tcopytmp` is one step: it
  writes a file nobody else opens, except a concurrent transfer of the same name, whose
  effect `FirstConnectionUnspoiled` shows without it. A power failure that loses
  written pages is not modelled: what reached the file stays.
- Fogbox: file types other than pictures; the four user folders are one
  (a picture stands for folder and name); the terminating signal of `fogbox_recv` (a crash has
  every effect it has). Two outcomes that the model shows and no property forbids, because nothing
  says otherwise: a second upload in the same second is not sent (times count
  seconds and the test is `<=`), and a partial file left by a crash of `fogbox_recv` stays for ever.
- BtagRelay: the beacons of the bridge mote (in
  `SinkElection` they arrive at any time); several vehicles (more copies of the same records); ids of 20 and above, which do not fit the cache;
  the counters of the sink election that travel with a record; socket errors, after which a program of the
  relay stops listening.
- BtagProgram: the fields of a program and their encoding; several users who program one tag at a
  time; restarts of a tag, after which it has the record it boots with until it is programmed again;
  what the buffer on the collector's stack holds besides programs.
- libzip: times, attributes, extra fields, data descriptors, encryption bits, archives of more than 2 GB
  or on several disks; `zip_stat` and the functions that only convert or print; failing allocations.
  `zip_fopen` of an entry with new data fails and changes nothing. Data are compressed by what
  deflating and inflating promise of each other, and two different data have different check sums.
  `zip_close` while files are open is in `ZipFile` as far as the files are concerned.
- External parts, modelled from how they are used: the radio, the IP network, the
  DTN (a set of bundles per router, delivered in any order, each handed over
  once), the clock, the operating system that ends processes. That sending on a closed
  DTN connection throws is an assumption about ibrdtn.

Components that are not modelled yet are in section 7. Not planned: user interfaces, the
packaging of third-party programs, other vendored code (AsyncSocket,
serialpacket), the original Fogbox and the clients that are not built.

## 7. The plan

What is left, in this order:

1. `SafetyWrapper`: the restart loop, with shell arithmetic of finite width: does
   the delay ever get shorter while the daemon keeps crashing.
2. `BuildingTag`: `TagBuffer` composed with `SinkElection`, several motes: a
   record that travels from mote to sink while the role moves; two motes that
   take each other for the sink.
3. `PictureStore`: `TftpUpload` composed with `Fogbox`, so that `WholeFile` discharges what `Upload` assumes.
4. `CutDetection`: the control skeleton of the phones' cut detection.
5. Proofs: under which contents of an archive `OwnTaken` holds, besides those without another end record.
