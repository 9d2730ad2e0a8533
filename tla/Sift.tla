-------------------------------- MODULE Sift --------------------------------
(***************************************************************************)
(* One SIFT connection: an application thread under the recorder (writer), *)
(* two FIFOs, and the TraceThread that simulates it (reader).              *)
(*                                                                         *)
(* The writer puts records into a stream buffer; only requests that have a *)
(* response flush it.  The recorder's callbacks queue in "todo" the        *)
(* records of one callback; "awaiting" is the request whose response the   *)
(* thread blocks on.  A payload is reduced to what tells records apart: a  *)
(* code address, the page of a data address, a count, a mode.              *)
(* The hint from one decoded instruction to the next (m_last_sinst->next)  *)
(* finds the object that scache holds and is left out, as are compression, *)
(* statistics and the bytes of instructions other than their addresses.    *)
(***************************************************************************)
EXTENDS Integers, Sequences, SequencesExt, FiniteSets

CONSTANTS
    Code,           \* code address -> [size, mem, branch, predicate, prefetch]
    IcacheSize,     \* ICACHE_SIZE
    DataPages,      \* pages of data
    FlowControl, FlowControlFF, \* KnobFlowControl, KnobFlowControlFF
    MaxPipe,        \* bound: records in the request pipe
    MaxEvents       \* bound: callbacks of the recorder

VARIABLES
    perInsn,        \* m_requires_icache_per_insn
    w,              \* recorder thread and Writer
    todo, awaiting, \* records to write; the request that waits, or ""
    buf, pipe, resp,\* stream buffer, request FIFO, response FIFO
    r,              \* Reader
    t,              \* TraceThread
    mapped,         \* data pages that have a physical page
    simMode,        \* Sim()->getInstrumentationMode()
    sent,           \* instructions written and not yet simulated
    last,           \* last instruction simulated: as written, as read
    failed          \* assertions that failed

vars == <<perInsn, w, todo, awaiting, buf, pipe, resp, r, t, mapped, simMode, sent, last, failed>>

Modes == {"Icount", "Memory", "Detailed"}
NoIns == [addr |-> -1]
Rec(type) == [type |-> type]
Page(addr) == addr \div IcacheSize
Bytes(addr, size) == addr .. addr + size - 1

Asserts(ok, what) == failed' = IF ok THEN failed ELSE failed \cup {what}

-----------------------------------------------------------------------------
(* Writer *)

ResponseTo(type) ==
    CASE type \in {"InstructionCount", "Sync"} -> "SyncResponse"
      [] type \in {"Syscall"} -> "SyscallResponse"
      [] type \in {"NewThread"} -> "NewThreadResponse"
      [] type \in {"Fork"} -> "ForkResponse"
      [] type \in {"Magic"} -> "MagicResponse"
      [] type \in {"Emu"} -> "EmuResponse"
      [] OTHER -> ""
\* the requests during which handleMemoryRequest() is called
AcceptsMemory == {"Syscall", "Sync", "Magic", "Emu"}

\* calls of the writer; Sync() and InstructionCount() return the mode of the
\* simulator, which some callers adopt
Sync == [type |-> "Sync", adopt |-> TRUE]
InstructionCount(adopt) == [type |-> "InstructionCount", adopt |-> adopt]
CacheOnly(pages) == [type |-> "CacheOnly", pages |-> pages]
Output == Rec("Output")
NewThread == Rec("NewThread")
Fork == Rec("Fork")
MagicInstruction(cmd) == [type |-> "Magic", cmd |-> cmd]
Emulate == Rec("Emu")
RoutineChange == Rec("RoutineChange")
Syscall(call, pages) == [type |-> "Syscall", call |-> call, pages |-> pages]
End == Rec("End")

\* code that the simulator has not seen: pages, or one instruction
IcacheRecords(ic, addr, size) ==
    IF perInsn
    THEN IF addr \in ic THEN <<>> ELSE <<[type |-> "IcacheVariable", addr |-> addr, size |-> size]>>
    ELSE LET new == {p \in Page(addr) .. Page(addr + size - 1) : p \notin ic}
         IN SetToSortSeq({[type |-> "Icache", addr |-> p * IcacheSize] : p \in new},
                         LAMBDA x, y : x.addr < y.addr)
IcacheAfter(ic, addr, size) ==
    ic \cup (IF perInsn THEN {addr} ELSE Page(addr) .. Page(addr + size - 1))

\* send_va2pa(): pages whose mapping is sent now
SendVa2pa(va, pages) == {p \in pages : p \notin va /\ p \in mapped}
Va2paRecords(new) == SetToSeq({[type |-> "Logical2Physical", page |-> p] : p \in new})

\* simple format for the instruction that follows the last one
InstructionRecord(i) ==
    IF i.addr = w.lastAddress /\ ~i.predicate
    THEN [type |-> "Simple", size |-> i.size, taken |-> i.taken, pages |-> i.pages, branch |-> i.branch]
    ELSE [type |-> "Ext"] @@ i

\* the records that one call of the writer produces
Records(rec) ==
    IF rec.type = "Ins"
    THEN IcacheRecords(w.icache, rec.ins.addr, rec.ins.size)
             \o Va2paRecords(SendVa2pa(w.va2pa, rec.ins.pages)) \o <<InstructionRecord(rec.ins)>>
    ELSE IF rec.type \in {"CacheOnly", "Syscall"}
    THEN Va2paRecords(SendVa2pa(w.va2pa, rec.pages)) \o <<rec>>
    ELSE <<rec>>
WriterAfter(rec) ==
    IF rec.type = "Ins"
    THEN [w EXCEPT !.icache = IcacheAfter(@, rec.ins.addr, rec.ins.size),
                   !.va2pa = @ \cup SendVa2pa(w.va2pa, rec.ins.pages),
                   !.lastAddress = rec.ins.addr + rec.ins.size]
    ELSE IF rec.type \in {"CacheOnly", "Syscall"}
    THEN [w EXCEPT !.va2pa = @ \cup SendVa2pa(w.va2pa, rec.pages)]
    ELSE w

\* mutant of Flushed: Emulate() forgets the flush
Flushed_NotEmu(rec) == ResponseTo(rec.type) # "" /\ rec.type # "Emu"
\* a request flushes the stream
Flushed(rec) == ResponseTo(rec.type) # "" \/ rec.type = "End"

Write ==
    /\ todo # <<>> /\ awaiting = "" /\ Len(pipe) < MaxPipe
    /\ LET rec == Head(todo) IN
       /\ IF Flushed(rec)
          THEN pipe' = pipe \o buf \o Records(rec) /\ buf' = <<>>
          ELSE buf' = buf \o Records(rec) /\ pipe' = pipe
       /\ w' = WriterAfter(rec)
       /\ awaiting' = IF ResponseTo(rec.type) = "" THEN "" ELSE rec.type
       /\ sent' = IF rec.type = "Ins" THEN Append(sent, rec.ins) ELSE sent
    \* the request stays in todo until its response is there
    /\ todo' = IF ResponseTo(Head(todo).type) = "" THEN Tail(todo) ELSE todo
    /\ UNCHANGED <<perInsn, resp, r, t, mapped, simMode, last, failed>>

\* the stream buffer is full
Spill ==
    /\ buf # <<>> /\ Len(pipe) < MaxPipe
    /\ pipe' = pipe \o buf /\ buf' = <<>>
    /\ UNCHANGED <<perInsn, w, todo, awaiting, resp, r, t, mapped, simMode, sent, last, failed>>

\* setInstrumentationMode()
SetInstrumentationMode(rec, answer) == IF rec.adopt THEN [w EXCEPT !.mode = answer.mode] ELSE w

\* handleMemoryRequest(): the answer is flushed at once
HandleMemoryRequest(request) ==
    /\ Asserts(request.type = "MemoryRequest" /\ awaiting \in AcceptsMemory, "response")
    /\ pipe' = pipe \o buf \o <<[type |-> "MemoryResponse", n |-> request.n]>> /\ buf' = <<>>

ReadResponse ==
    /\ awaiting # "" /\ resp # <<>>
    /\ LET answer == Head(resp) IN
       IF answer.type = ResponseTo(awaiting)
       THEN /\ w' = IF answer.type = "SyncResponse" THEN SetInstrumentationMode(Head(todo), answer) ELSE w
            /\ todo' = Tail(todo) /\ awaiting' = ""
            /\ UNCHANGED <<pipe, buf, failed>>
       ELSE HandleMemoryRequest(answer) /\ UNCHANGED <<w, todo, awaiting>>
    /\ resp' = Tail(resp)
    /\ UNCHANGED <<perInsn, r, t, mapped, simMode, sent, last>>

-----------------------------------------------------------------------------
(* Callbacks of the recorder: each queues the records it writes *)

\* traceCallback(): the callbacks that a basic block gets in each mode
Instrumented(callback) ==
    w.mode = CASE callback = "countInsns" -> "Icount" [] callback = "sendCacheOnly" -> "Memory"
               [] callback = "sendInstruction" -> "Detailed"

Event ==
    /\ todo = <<>> /\ awaiting = "" /\ ~w.ended /\ w.events < MaxEvents
    /\ UNCHANGED <<perInsn, awaiting, buf, pipe, resp, r, t, simMode, sent, last, failed>>

\* sendInstruction(): the data page was touched, unless the instruction is a
\* prefetch; flow control asks for a Sync
SendInstruction ==
    /\ Event /\ Instrumented("sendInstruction")
    /\ \E a \in DOMAIN Code, taken \in BOOLEAN, ispause \in BOOLEAN, p \in DataPages, executed \in BOOLEAN :
       /\ taken => Code[a].branch
       /\ ~executed => Code[a].predicate
       /\ LET pages == IF Code[a].mem THEN {p} ELSE {}
              touched == mapped \cup (IF Code[a].prefetch THEN {} ELSE pages)
          IN /\ Code[a].mem \/ p = CHOOSE q \in DataPages : TRUE
             /\ mapped' = touched
             /\ todo' = <<[type |-> "Ins", ins |-> [addr |-> a, size |-> Code[a].size, taken |-> taken,
                            branch |-> Code[a].branch, predicate |-> Code[a].predicate, executed |-> executed,
                            pages |-> pages, phys |-> pages \subseteq touched]]>>
                        \o (IF w.icount + 1 > w.target \/ ispause THEN <<Sync>> ELSE <<>>)
             /\ w' = [w EXCEPT !.icount = @ + 1, !.events = @ + 1,
                               !.target = IF w.icount + 1 > w.target \/ ispause THEN w.icount + 1 + FlowControl ELSE @]

\* sendCacheOnly(): a memory access or a branch in warmup mode
SendCacheOnly ==
    /\ Event /\ Instrumented("sendCacheOnly")
    /\ \E p \in DataPages :
       /\ todo' = <<CacheOnly({p})>>
                  \o (IF w.reported + 1 > FlowControlFF THEN <<Sync>> ELSE <<>>)
       /\ w' = [w EXCEPT !.reported = IF @ + 1 > FlowControlFF THEN 0 ELSE @ + 1, !.events = @ + 1]
       /\ mapped' = mapped \cup {p}            \* touched by the application

\* countInsns(): a basic block in fast-forward mode
CountInsns ==
    /\ Event /\ Instrumented("countInsns")
    /\ todo' = IF w.reported + 1 > FlowControlFF THEN <<InstructionCount(TRUE)>> ELSE <<>>
    /\ w' = [w EXCEPT !.reported = IF @ + 1 > FlowControlFF THEN 0 ELSE @ + 1, !.events = @ + 1]
    /\ UNCHANGED mapped

\* emulateSyscallFunc(): thread info once, instructions not yet reported,
\* console output, then the call itself
Calls == {"futex", "wakeop", "yield", "read", "write", "clone"}
EmulateSyscall ==
    /\ Event
    /\ \E call \in Calls, p \in DataPages :
       LET info == IF w.threadinfo THEN <<Emulate>> ELSE <<>>
           count == IF w.reported > 0 \/ w.mode = "Icount" THEN <<InstructionCount(FALSE)>> ELSE <<>>
           output == IF call = "write" THEN <<Output>> ELSE <<>>
           pages == IF call \in {"futex", "wakeop", "write"} THEN {p} ELSE {}
           request == IF call = "clone" THEN NewThread ELSE Syscall(call, pages)
       IN /\ pages = {} => p = CHOOSE q \in DataPages : TRUE
          /\ mapped' = mapped \cup pages      \* force_read()
          /\ todo' = info \o count \o output \o <<request>>
          /\ w' = [w EXCEPT !.threadinfo = FALSE, !.reported = 0, !.events = @ + 1]

\* handleMagic(); beginROI() and endROI() set the mode
HandleMagic ==
    /\ Event
    /\ \E cmd \in {"roiStart", "roiEnd", "marker", "namedMarker"} :
       /\ todo' = <<MagicInstruction(cmd)>>
                  \o (IF cmd = "roiStart" /\ w.reported > 0 THEN <<InstructionCount(FALSE)>> ELSE <<>>)
       /\ w' = [w EXCEPT !.mode = CASE cmd = "roiStart" -> "Detailed" [] cmd = "roiEnd" -> "Icount" [] OTHER -> @,
                         !.reported = IF cmd = "roiStart" THEN 0 ELSE @, !.events = @ + 1]
    /\ UNCHANGED mapped

\* handleRdtsc(), handleCpuid(), emuGetNprocs(), emuGetCPU(), emuClockGettime(),
\* emuGettimeofday()
HandleEmulated ==
    /\ Event /\ todo' = <<Emulate>> /\ w' = [w EXCEPT !.events = @ + 1] /\ UNCHANGED mapped

ForkBefore ==
    /\ Event /\ todo' = <<Fork>> /\ w' = [w EXCEPT !.events = @ + 1] /\ UNCHANGED mapped

\* routineEnter(), routineExit(), routineAssert()
Routine ==
    /\ Event /\ w.mode # "Icount"
    /\ todo' = <<RoutineChange>> /\ w' = [w EXCEPT !.events = @ + 1] /\ UNCHANGED mapped

\* threadFinishHelper(): wake a pthread_join(), then End()
ThreadFinish ==
    /\ Event
    /\ todo' = <<Syscall("wake", {}), End>>
    /\ w' = [w EXCEPT !.ended = TRUE] /\ UNCHANGED mapped

-----------------------------------------------------------------------------
(* TraceThread *)

\* unblock(): resume the thread and, if it lost its core, wait for one
Unblock(th) == IF th.blocked THEN [th EXCEPT !.blocked = FALSE, !.core = TRUE] ELSE th

\* sendSimpleResponse() and the others
Respond(type) == resp' = Append(resp, [type |-> type, mode |-> simMode])
\* handleAccessMemory()
MemoryRequest(n) == resp' = Append(resp, [type |-> "MemoryRequest", n |-> n])

\* run(): before the trace is read the thread waits for its core
Start ==
    /\ t.pc = "init"
    /\ t' = [t EXCEPT !.pc = "read", !.core = TRUE]
    /\ UNCHANGED <<perInsn, w, todo, awaiting, buf, pipe, resp, r, mapped, simMode, sent, last, failed>>

\* va2pa(): the physical page is known, else the address is a private one
Translated(pages) == pages \subseteq r.vcache

\* handleInstructionWarmup(): a prefetch without mapping is skipped
Warmup(i) == IF i.executed THEN {p \in i.pages : Code[i.addr].prefetch => Translated({p})} ELSE {}
\* handleInstructionDetailed(), addDetailedMemoryInfo(): the model decides later
Detailed(i) == {p \in i.pages : Code[i.addr].prefetch => Translated({p})}
\* the pages that run() accesses for an instruction
Simulated(i) == CASE simMode = "Icount" -> {} [] simMode = "Memory" -> Warmup(i) [] simMode = "Detailed" -> Detailed(i)

\* Read(): the fields that a simple record leaves out
Decode(rec) ==
    LET addr == IF rec.type = "Simple" THEN r.lastAddress ELSE rec.addr
    IN [addr |-> addr, size |-> rec.size, taken |-> rec.taken, branch |-> rec.branch,
        predicate |-> rec.type = "Ext" /\ rec.predicate,
        executed |-> rec.type = "Simple" \/ rec.executed, pages |-> rec.pages,
        next |-> addr + rec.size]

\* one instruction: run() simulates the instruction before it, whose branch
\* target it is; decodeInstruction() copies the bytes from the code cache
HandleInstruction(rec) ==
    LET i == Decode(rec)
        th == IF t.prev = NoIns THEN t ELSE Unblock(t)
    IN /\ Asserts(/\ \A b \in Bytes(i.addr, i.size) : Page(b) \in r.pages
                  /\ i.addr \in DOMAIN r.scache => r.scache[i.addr] = i.size, "icache")
       /\ r' = [r EXCEPT !.lastAddress = i.next,
                         !.scache = IF i.addr \in DOMAIN @ THEN @ ELSE (i.addr :> i.size) @@ @,
                         !.whole = @ /\ Bytes(i.addr, i.size) \subseteq r.bytes,
                         !.known = @ /\ (t.prev # NoIns /\ Head(sent).phys => Translated(Simulated(t.prev)))]
       /\ t' = [th EXCEPT !.prev = i, !.started = TRUE, !.ran = @ /\ (t.prev = NoIns \/ th.core)]
       /\ IF t.prev = NoIns THEN UNCHANGED <<sent, last>>
          ELSE /\ sent' = Tail(sent)
               /\ last' = [want |-> Head(sent), got |-> t.prev]
       /\ UNCHANGED <<resp, simMode>>

\* records that carry state of the reader
Cached(rec) ==
    /\ r' = CASE rec.type = "Icache" ->
                   [r EXCEPT !.pages = @ \cup {Page(rec.addr)}, !.bytes = @ \cup Bytes(rec.addr, IcacheSize)]
              [] rec.type = "IcacheVariable" ->
                   [r EXCEPT !.pages = @ \cup {Page(b) : b \in Bytes(rec.addr, rec.size)},
                             !.bytes = @ \cup Bytes(rec.addr, rec.size)]
              [] rec.type = "Logical2Physical" -> [r EXCEPT !.vcache = @ \cup {rec.page}]
              [] OTHER -> r
    /\ UNCHANGED <<resp, t, simMode, sent, last, failed>>

\* handleCacheOnlyFunc(): ignored while the thread has no core
HandleCacheOnly(rec) ==
    /\ r' = [r EXCEPT !.known = @ /\ (t.core => Translated(rec.pages))]
    /\ UNCHANGED <<resp, t, simMode, sent, last, failed>>

\* handleInstructionCountFunc()
HandleInstructionCount ==
    LET th == Unblock(t)
    IN /\ t' = [th EXCEPT !.started = TRUE, !.ran = @ /\ th.core] /\ Respond("SyncResponse")
       /\ UNCHANGED <<r, simMode, sent, last, failed>>

\* handleSyscallFunc(): a call that the OS executes blocks the simulated
\* thread; a futex call reads, and a wake-op also writes, application memory
HandleSyscall(rec) ==
    LET th == [Unblock(t) EXCEPT !.ran = @ /\ Unblock(t).core]
        accesses == CASE rec.call = "futex" -> 1 [] rec.call = "wakeop" -> 2 [] OTHER -> 0
    IN /\ t' = IF rec.call \in {"read", "write"} THEN [th EXCEPT !.blocked = TRUE]
               ELSE [th EXCEPT !.memory = accesses, !.answer = IF accesses > 0 THEN "SyscallResponse" ELSE ""]
       /\ IF accesses > 0 THEN MemoryRequest(accesses)
          ELSE Respond("SyscallResponse")
       /\ UNCHANGED <<r, simMode, sent, last, failed>>

\* handleMagicFunc(): a named marker reads a string through the thread's core
HandleMagicInstruction(rec) ==
    /\ simMode' = CASE rec.cmd = "roiStart" -> "Detailed" [] rec.cmd = "roiEnd" -> "Icount" [] OTHER -> simMode
    /\ IF rec.cmd = "namedMarker"
       THEN /\ Asserts(t.core, "core")
            /\ IF t.core THEN MemoryRequest(1) ELSE UNCHANGED resp
            /\ t' = IF t.core THEN [t EXCEPT !.memory = 1, !.answer = "MagicResponse"] ELSE t
       ELSE Respond("MagicResponse") /\ UNCHANGED <<t, failed>>
    /\ UNCHANGED <<r, sent, last>>

\* handleNewThreadFunc(), handleForkFunc(): getCurrentTime() needs a core
HandleCreate(rec) ==
    /\ Asserts(t.core, "time") /\ Respond(ResponseTo(rec.type))
    /\ UNCHANGED <<r, t, simMode, sent, last>>

\* handleEmuFunc()
HandleEmu ==
    LET th == Unblock(t)
    IN /\ t' = [th EXCEPT !.ran = @ /\ th.core] /\ Respond("EmuResponse")
       /\ UNCHANGED <<r, simMode, sent, last, failed>>

\* Read() returns false: the instruction that waits for its successor is not simulated
HandleEnd ==
    /\ t' = [t EXCEPT !.pc = "done"]
    /\ UNCHANGED <<resp, r, simMode, sent, last, failed>>

Read ==
    /\ t.pc = "read" /\ t.memory = 0 /\ pipe # <<>> /\ failed = {}
    /\ LET rec == Head(pipe) IN
       \/ rec.type \in {"Simple", "Ext"} /\ HandleInstruction(rec)
       \/ rec.type \in {"Icache", "IcacheVariable", "Logical2Physical", "Output", "RoutineChange"} /\ Cached(rec)
       \/ rec.type = "CacheOnly" /\ HandleCacheOnly(rec)
       \/ rec.type \in {"InstructionCount", "Sync"} /\ HandleInstructionCount
       \/ rec.type = "Syscall" /\ HandleSyscall(rec)
       \/ rec.type = "Magic" /\ HandleMagicInstruction(rec)
       \/ rec.type \in {"NewThread", "Fork"} /\ HandleCreate(rec)
       \/ rec.type = "Emu" /\ HandleEmu
       \/ rec.type = "End" /\ HandleEnd
    /\ pipe' = Tail(pipe)
    /\ UNCHANGED <<perInsn, w, todo, awaiting, buf, mapped>>

\* AccessMemory(): the next record must be the answer to the request; the
\* handler goes on to its next access, or responds
AccessMemory ==
    /\ t.pc = "read" /\ t.memory > 0 /\ pipe # <<>> /\ failed = {}
    /\ Asserts(Head(pipe).type = "MemoryResponse" /\ Head(pipe).n = t.memory, "memory")
    /\ pipe' = Tail(pipe)
    /\ IF t.memory > 1
       THEN t' = [t EXCEPT !.memory = @ - 1] /\ MemoryRequest(t.memory - 1)
       ELSE t' = [t EXCEPT !.memory = 0, !.answer = ""] /\ Respond(t.answer)
    /\ UNCHANGED <<perInsn, w, todo, awaiting, buf, r, mapped, simMode, sent, last>>

\* the scheduler gives the core of a blocked thread to another one
Preempt ==
    /\ t.pc = "read" /\ t.blocked /\ t.core
    /\ t' = [t EXCEPT !.core = FALSE]
    /\ UNCHANGED <<perInsn, w, todo, awaiting, buf, pipe, resp, r, mapped, simMode, sent, last, failed>>

\* another thread, or a sampling script, changes the instrumentation mode
OtherMode ==
    /\ awaiting # "" /\ \E m \in Modes \ {simMode} : simMode' = m
    /\ UNCHANGED <<perInsn, w, todo, awaiting, buf, pipe, resp, r, t, mapped, sent, last, failed>>

-----------------------------------------------------------------------------
Init ==
    /\ perInsn \in BOOLEAN
    /\ simMode \in Modes
    /\ w = [mode |-> simMode, lastAddress |-> 0, icache |-> {}, va2pa |-> {}, icount |-> 0, target |-> 0,
            reported |-> 0, threadinfo |-> TRUE, ended |-> FALSE, events |-> 0]
    /\ todo = <<>> /\ awaiting = "" /\ buf = <<>> /\ pipe = <<>> /\ resp = <<>>
    /\ r = [lastAddress |-> 0, pages |-> {}, bytes |-> {}, vcache |-> {}, scache |-> <<>>, whole |-> TRUE,
            known |-> TRUE]
    /\ t = [pc |-> "init", core |-> FALSE, blocked |-> FALSE, started |-> FALSE, prev |-> NoIns,
            memory |-> 0, answer |-> "", ran |-> TRUE]
    /\ mapped = {} /\ sent = <<>> /\ last = [got |-> NoIns] /\ failed = {}

Next ==
    \/ Write \/ Spill \/ ReadResponse
    \/ SendInstruction \/ SendCacheOnly \/ CountInsns \/ EmulateSyscall \/ HandleMagic
    \/ HandleEmulated \/ ForkBefore \/ Routine \/ ThreadFinish
    \/ Start \/ Read \/ AccessMemory \/ Preempt \/ OtherMode

Spec == Init /\ [][Next]_vars

-----------------------------------------------------------------------------
(* Properties *)

\* An instruction is simulated as it was recorded, whatever format its record
\* has (Writer::Instruction(), Reader::Read()), and from code that was sent.
RoundTrip ==
    /\ r.whole
    /\ last.got # NoIns =>
          \A field \in {"addr", "size", "taken", "branch", "predicate", "executed", "pages"} :
              last.got[field] = last.want[field]

\* An access to a page that had a physical address when it was recorded uses
\* that address (send_va2pa(), Reader::va2pa()).
PhysicalKnown == r.known

\* The assertions on the records of both pipes hold: a response is the one the
\* recorder waits for, a memory answer comes next, code was sent before use.
ProtocolAsserts == failed \cap {"response", "memory", "icache"} = {}

\* A recorder that waits for a response is not waiting for records that sit in
\* its own stream buffer, or for a reader that waits for it.
NoStandoff ==
    awaiting # "" /\ failed = {} => pipe # <<>> \/ resp # <<>> \/ t.pc = "init"

\* Instructions, counts, system calls and emulated functions of a thread that
\* was blocked in the OS are simulated on a core (unblock()).
RunsOnCore == t.ran
=============================================================================
