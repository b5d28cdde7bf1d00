---------------------------- MODULE VariableSpace ----------------------------
(***************************************************************************)
(* One variable of the variable space (variable_space.c): a double buffer, *)
(* read without a lock inside RCU read sections and written under a spin   *)
(* lock, whose writers wait for a grace period before they return.         *)
(*                                                                         *)
(* Variables share nothing, so one stands for all.  Readers are threads    *)
(* that call get_variable_data (the interpreter creating a message, users  *)
(* reading a varspace file of sysfs), writers are threads that call        *)
(* set_variable_data (the interpreter receiving a message, users writing   *)
(* such a file).  A step is one access to memory another thread may write: *)
(* a pointer, a length, a byte.  External: spin_lock is a lock, and        *)
(* synchronize_rcu returns when every read section that was under way at   *)
(* its call has ended.                                                     *)
(*                                                                         *)
(* Nothing compares the length that is set with the size of a buffer, and  *)
(* sysfs passes what its user writes, up to a page.  A copy that is too    *)
(* long goes on through the structure in the order variable_space.h lays   *)
(* it out in: the bytes of a buffer, its length, the other buffer, the     *)
(* pointers.  Cells are bytes and lengths: the bytes of a length are not   *)
(* told apart.  What the threads do once a copy has reached the pointers,  *)
(* and the variable behind them, is undefined, and they stop there.        *)
(***************************************************************************)
EXTENDS Integers

CONSTANTS
  Readers,      \* threads that call get_variable_data
  Writers,      \* threads that call set_variable_data
  Size,         \* MAX_VAR_SIZE_BYTES
  Limit,        \* PAGE_SIZE: the most bytes sysfs hands over
  Values,       \* what is set: a length and that many bytes
  NoOne         \* the holder of a free lock

Place == 1 .. Size

(* What a cell can hold: a length, or a byte (there are more in a page).   *)
Cell == 0 .. Limit

Content == [length : 0 .. Limit, data : [1 .. Limit -> Cell]]

ASSUME VariableAssumption ==
  /\ Size \in Nat \ {0}
  /\ Limit \in Nat /\ Size <= Limit
  /\ Values \subseteq Content
  /\ NoOne \notin Writers

VARIABLES
  data, length, \* the two buffers of the variable
  read_buf,     \* the front buffer
  write_buf,    \* the back buffer
  write_lock,   \* the writer that holds the lock, or NoOne
  set,          \* of each writer, its place in set_variable_data
  arg,          \* of each writer, its argument
  copied,       \* of each writer, the bytes its memcpy has copied
  grace,        \* of each writer, the readers synchronize_rcu waits for
  get,          \* of each reader, its place in get_variable_data
  ptr,          \* of each reader, what its three reads of read_buf returned
  len,          \* of each reader, the lengths it read through two of them
  out, got,     \* of each reader, the bytes its memcpy copied, and how many
  last,         \* history: what was published last
  seen,         \* history: of each reader, what was the variable's content
                \* at some moment of its call
  quiet,        \* history: of each reader, nothing was published in its call
  alone,        \* history: of each reader, no writer took the lock in its call
                \* while another was in its grace period
  fits          \* history: no content longer than a buffer has been set

buffers == <<data, length>>
pointers == <<read_buf, write_buf>>
writer == <<set, arg, copied>>
reader == <<get, ptr, len, out, got>>
history == <<last, seen, quiet, alone, fits>>

vars == <<buffers, pointers, write_lock, writer, grace, reader, history>>

Buf == {0, 1}
NotRead == -1

(* rcu_dereference(var->read_buf)->data and ->length, the arguments of the *)
(* memcpy, and ->length again for *out_length.                             *)
Reads == {"data", "length", "out_length"}
Lengths == {"length", "out_length"}

Empty == [length |-> 0, data |-> [k \in 1 .. Limit |-> 0]]

(* init_variable_space; the variables are in a static, zeroed, structure.  *)
Init ==
  /\ data = [b \in Buf |-> [k \in Place |-> 0]]
  /\ length = [b \in Buf |-> 0]
  /\ read_buf = 0
  /\ write_buf = 1
  /\ write_lock = NoOne
  /\ set = [w \in Writers |-> "idle"]
  /\ arg = [w \in Writers |-> Empty]
  /\ copied = [w \in Writers |-> 0]
  /\ grace = [w \in Writers |-> {}]
  /\ get = [r \in Readers |-> "idle"]
  /\ ptr = [r \in Readers |-> [x \in Reads |-> NotRead]]
  /\ len = [r \in Readers |-> [x \in Lengths |-> NotRead]]
  /\ out = [r \in Readers |-> Empty.data]
  /\ got = [r \in Readers |-> 0]
  /\ last = Empty
  /\ seen = [r \in Readers |-> {}]
  /\ quiet = [r \in Readers |-> TRUE]
  /\ alone = [r \in Readers |-> TRUE]
  /\ fits = TRUE

Reading(r) == get[r] = "reading"

-----------------------------------------------------------------------------
(* set_variable_data.                                                      *)
SetCall(w, v) ==
  /\ set[w] = "idle"
  /\ set' = [set EXCEPT ![w] = "lock"]
  /\ arg' = [arg EXCEPT ![w] = v]
  /\ fits' = (fits /\ v.length <= Size)
  /\ UNCHANGED <<buffers, pointers, write_lock, copied, grace, reader, last,
                 seen, quiet, alone>>

(* A writer takes the lock while another is in its grace period.           *)
Overlaps(w) == \E u \in Writers \ {w} : set[u] \in {"synchronize", "wait"}

Alone(w) == alone' = [r \in Readers |-> alone[r] /\ ~(Reading(r) /\ Overlaps(w))]

(* Variant: does not wait for the lock.                                    *)
SetLockBusy(w) ==
  /\ set[w] = "lock"
  /\ write_lock' = w
  /\ set' = [set EXCEPT ![w] = "copy"]
  /\ copied' = [copied EXCEPT ![w] = 0]
  /\ Alone(w)
  /\ UNCHANGED <<buffers, pointers, arg, grace, reader, last, seen, quiet, fits>>

SetLock(w) ==
  /\ set[w] = "lock"
  /\ write_lock = NoOne
  /\ write_lock' = w
  /\ set' = [set EXCEPT ![w] = "copy"]
  /\ copied' = [copied EXCEPT ![w] = 0]
  /\ Alone(w)
  /\ UNCHANGED <<buffers, pointers, arg, grace, reader, last, seen, quiet, fits>>

(* Variant: copies into the front buffer.                                  *)
SetCopyFront(w) ==
  /\ set[w] = "copy"
  /\ copied[w] < arg[w].length
  /\ copied[w] < Size
  /\ data' = [data EXCEPT ![read_buf][copied[w] + 1] =
                arg[w].data[copied[w] + 1]]
  /\ copied' = [copied EXCEPT ![w] = @ + 1]
  /\ UNCHANGED <<length, pointers, write_lock, set, arg, grace, reader, history>>

(* A byte of the memcpy into the back buffer.                              *)
SetCopy(w) ==
  /\ set[w] = "copy"
  /\ copied[w] < arg[w].length
  /\ copied[w] < Size
  /\ data' = [data EXCEPT ![write_buf][copied[w] + 1] =
                arg[w].data[copied[w] + 1]]
  /\ copied' = [copied EXCEPT ![w] = @ + 1]
  /\ UNCHANGED <<length, pointers, write_lock, set, arg, grace, reader, history>>

(* The cell k places behind the start of buffer b: varbuf[1] lies behind   *)
(* varbuf[0], and in each the length behind the bytes.                     *)
Cells == Size + 1
Second(b, k) == b = 0 /\ k > Cells
BufAt(b, k) == IF Second(b, k) THEN 1 ELSE b
PlaceAt(b, k) == IF Second(b, k) THEN k - Cells ELSE k

(* A byte of the memcpy beyond the back buffer: over a byte or a length of *)
(* one of the buffers ...                                                  *)
SetOverrun(w) ==
  LET b == BufAt(write_buf, copied[w] + 1)
      k == PlaceAt(write_buf, copied[w] + 1)
      byte == arg[w].data[copied[w] + 1]
  IN
  /\ set[w] = "copy"
  /\ Size <= copied[w] /\ copied[w] < arg[w].length
  /\ \/ /\ k \in Place
        /\ data' = [data EXCEPT ![b][k] = byte]
        /\ UNCHANGED length
     \/ /\ k = Cells
        /\ length' = [length EXCEPT ![b] = byte]
        /\ UNCHANGED data
  /\ copied' = [copied EXCEPT ![w] = @ + 1]
  /\ UNCHANGED <<pointers, write_lock, set, arg, grace, reader, history>>

(* ... or over the pointers: the variable is lost.                         *)
SetLose(w) ==
  /\ set[w] = "copy"
  /\ Size <= copied[w] /\ copied[w] < arg[w].length
  /\ PlaceAt(write_buf, copied[w] + 1) > Cells
  /\ set' = [set EXCEPT ![w] = "lost"]
  /\ UNCHANGED <<buffers, pointers, write_lock, arg, copied, grace, reader,
                 history>>

Lost == \E w \in Writers : set[w] = "lost"

(* Variant: counts a terminating byte.                                     *)
SetLengthTerminated(w) ==
  /\ set[w] = "copy"
  /\ copied[w] = arg[w].length
  /\ length' = [length EXCEPT ![write_buf] = arg[w].length + 1]
  /\ set' = [set EXCEPT ![w] = "publish"]
  /\ UNCHANGED <<data, pointers, write_lock, arg, copied, grace, reader, history>>

(* The memcpy is done: its length.                                         *)
SetLength(w) ==
  /\ set[w] = "copy"
  /\ copied[w] = arg[w].length
  /\ length' = [length EXCEPT ![write_buf] = arg[w].length]
  /\ set' = [set EXCEPT ![w] = "publish"]
  /\ UNCHANGED <<data, pointers, write_lock, arg, copied, grace, reader, history>>

(* Variant: returns with the lock held.                                    *)
SetPublishHeld(w) ==
  /\ set[w] = "publish"
  /\ read_buf' = write_buf
  /\ write_buf' = read_buf
  /\ set' = [set EXCEPT ![w] = "synchronize"]
  /\ last' = arg[w]
  /\ seen' = [r \in Readers |->
                IF Reading(r) THEN seen[r] \cup {arg[w]} ELSE seen[r]]
  /\ quiet' = [r \in Readers |-> quiet[r] /\ ~Reading(r)]
  /\ UNCHANGED <<buffers, write_lock, arg, copied, grace, reader, alone, fits>>

(* The buffers are exchanged and the lock is freed.  One step: only the    *)
(* holder of the lock reads write_buf or assigns either pointer.           *)
SetPublish(w) ==
  /\ set[w] = "publish"
  /\ read_buf' = write_buf
  /\ write_buf' = read_buf
  /\ write_lock' = NoOne
  /\ set' = [set EXCEPT ![w] = "synchronize"]
  /\ last' = arg[w]
  /\ seen' = [r \in Readers |->
                IF Reading(r) THEN seen[r] \cup {arg[w]} ELSE seen[r]]
  /\ quiet' = [r \in Readers |-> quiet[r] /\ ~Reading(r)]
  /\ UNCHANGED <<buffers, arg, copied, grace, reader, alone, fits>>

(* Variant: the grace period waits for nobody.                             *)
SetSynchronizeNot(w) ==
  /\ set[w] = "synchronize"
  /\ grace' = [grace EXCEPT ![w] = {}]
  /\ set' = [set EXCEPT ![w] = "wait"]
  /\ UNCHANGED <<buffers, pointers, write_lock, arg, copied, reader, history>>

(* synchronize_rcu notes the read sections under way ...                   *)
SetSynchronize(w) ==
  /\ set[w] = "synchronize"
  /\ grace' = [grace EXCEPT ![w] = {r \in Readers : Reading(r)}]
  /\ set' = [set EXCEPT ![w] = "wait"]
  /\ UNCHANGED <<buffers, pointers, write_lock, arg, copied, reader, history>>

(* ... and returns when all have ended.                                    *)
SetReturn(w) ==
  /\ set[w] = "wait"
  /\ grace[w] = {}
  /\ set' = [set EXCEPT ![w] = "idle"]
  /\ arg' = [arg EXCEPT ![w] = Empty]
  /\ copied' = [copied EXCEPT ![w] = 0]
  /\ UNCHANGED <<buffers, pointers, write_lock, grace, reader, history>>

-----------------------------------------------------------------------------
(* get_variable_data; rcu_read_lock begins the read section.               *)
GetCall(r) ==
  /\ get[r] = "idle"
  /\ get' = [get EXCEPT ![r] = "reading"]
  /\ seen' = [seen EXCEPT ![r] = {last}]
  /\ UNCHANGED <<buffers, pointers, write_lock, writer, grace, ptr, len, out,
                 got, last, quiet, alone, fits>>

(* The arguments of the memcpy are evaluated and its bytes are copied.     *)
CopyDone(r) ==
  /\ ptr[r]["data"] # NotRead
  /\ len[r]["length"] # NotRead
  /\ got[r] = len[r]["length"]

(* A read of read_buf; the compiler orders the arguments of the memcpy.    *)
GetPointer(r, x) ==
  /\ Reading(r)
  /\ ptr[r][x] = NotRead
  /\ x = "out_length" => CopyDone(r)
  /\ ptr' = [ptr EXCEPT ![r][x] = read_buf]
  /\ UNCHANGED <<buffers, pointers, write_lock, writer, grace, get, len, out,
                 got, history>>

(* A read of a length through such a pointer.                              *)
GetLength(r, x) ==
  /\ Reading(r)
  /\ ptr[r][x] # NotRead
  /\ len[r][x] = NotRead
  /\ len' = [len EXCEPT ![r][x] = length[ptr[r][x]]]
  /\ UNCHANGED <<buffers, pointers, write_lock, writer, grace, get, ptr, out,
                 got, history>>

(* A byte of the memcpy.                                                   *)
GetCopy(r) ==
  /\ Reading(r)
  /\ ptr[r]["data"] # NotRead
  /\ got[r] < len[r]["length"]
  /\ got[r] < Size
  /\ out' = [out EXCEPT ![r][got[r] + 1] = data[ptr[r]["data"]][got[r] + 1]]
  /\ got' = [got EXCEPT ![r] = @ + 1]
  /\ UNCHANGED <<buffers, pointers, write_lock, writer, grace, get, ptr, len,
                 history>>

(* A byte of the memcpy from behind the buffer; what the pointers and the  *)
(* variable behind them hold there is left open.                           *)
GetBeyond(r) ==
  LET b == BufAt(ptr[r]["data"], got[r] + 1)
      k == PlaceAt(ptr[r]["data"], got[r] + 1)
  IN
  /\ Reading(r)
  /\ ptr[r]["data"] # NotRead
  /\ Size <= got[r] /\ got[r] < len[r]["length"]
  /\ \E byte \in Cell :
       /\ k \in Place => byte = data[b][k]
       /\ k = Cells => byte = length[b]
       /\ out' = [out EXCEPT ![r][got[r] + 1] = byte]
  /\ got' = [got EXCEPT ![r] = @ + 1]
  /\ UNCHANGED <<buffers, pointers, write_lock, writer, grace, get, ptr, len,
                 history>>

(* The call is about to return: *out_length is set.                        *)
GetDone(r) == len[r]["out_length"] # NotRead

(* rcu_read_unlock ends the read section, and the call returns.            *)
GetReturn(r) ==
  /\ Reading(r)
  /\ GetDone(r)
  /\ get' = [get EXCEPT ![r] = "idle"]
  /\ grace' = [w \in Writers |-> grace[w] \ {r}]
  /\ ptr' = [ptr EXCEPT ![r] = [x \in Reads |-> NotRead]]
  /\ len' = [len EXCEPT ![r] = [x \in Lengths |-> NotRead]]
  /\ out' = [out EXCEPT ![r] = Empty.data]
  /\ got' = [got EXCEPT ![r] = 0]
  /\ seen' = [seen EXCEPT ![r] = {}]
  /\ quiet' = [quiet EXCEPT ![r] = TRUE]
  /\ alone' = [alone EXCEPT ![r] = TRUE]
  /\ UNCHANGED <<buffers, pointers, write_lock, writer, last, fits>>

-----------------------------------------------------------------------------
Set(w) ==
  /\ ~Lost
  /\ \/ SetLock(w) \/ SetCopy(w) \/ SetOverrun(w) \/ SetLose(w)
     \/ SetLength(w) \/ SetPublish(w) \/ SetSynchronize(w) \/ SetReturn(w)

Get(r) ==
  /\ ~Lost
  /\ \/ \E x \in Reads : GetPointer(r, x)
     \/ \E x \in Lengths : GetLength(r, x)
     \/ GetCopy(r) \/ GetBeyond(r)
     \/ GetReturn(r)

Next ==
  \/ \E w \in Writers : Set(w) \/ \E v \in Values : SetCall(w, v)
  \/ \E r \in Readers : Get(r) \/ GetCall(r)
  \/ Lost /\ UNCHANGED vars

Spec == Init /\ [][Next]_vars

(* A thread inside a call runs on.  A lock of the kernel that is freed is  *)
(* handed to a thread that waits for it, and every set_variable_data ends  *)
(* with a grace period out of the lock: a writer that waits is served if   *)
(* the lock keeps being freed.                                             *)
FairSpec ==
  /\ Spec
  /\ \A w \in Writers : WF_vars(Set(w)) /\ SF_vars(SetLock(w))
  /\ \A r \in Readers : WF_vars(Get(r))

-----------------------------------------------------------------------------
(* Types, and as long as no content longer than a buffer is set, no length *)
(* above the size of a buffer: nothing is copied beyond one, and the       *)
(* pointers stay (variable_space.c:62, which checks nothing).              *)
TypeOK ==
  /\ data \in [Buf -> [Place -> Cell]]
  /\ length \in [Buf -> Cell]
  /\ read_buf \in Buf /\ write_buf \in Buf
  /\ write_lock \in Writers \cup {NoOne}
  /\ set \in [Writers -> {"idle", "lock", "copy", "publish", "synchronize",
                          "wait", "lost"}]
  /\ arg \in [Writers -> Content]
  /\ copied \in [Writers -> 0 .. Limit]
  /\ grace \in [Writers -> SUBSET Readers]
  /\ get \in [Readers -> {"idle", "reading"}]
  /\ ptr \in [Readers -> [Reads -> Buf \cup {NotRead}]]
  /\ len \in [Readers -> [Lengths -> Cell \cup {NotRead}]]
  /\ out \in [Readers -> [1 .. Limit -> Cell]]
  /\ got \in [Readers -> 0 .. Limit]
  /\ last \in Content
  /\ seen \in [Readers -> SUBSET Content]
  /\ quiet \in [Readers -> BOOLEAN]
  /\ alone \in [Readers -> BOOLEAN]
  /\ fits \in BOOLEAN
  /\ fits =>
       /\ ~Lost
       /\ \A b \in Buf : length[b] <= Size
       /\ \A r \in Readers : \A x \in Lengths : len[r][x] <= Size

(* Buffer b stores v, whole.                                               *)
Stores(b, v) ==
  /\ length[b] = v.length
  /\ \A k \in 1 .. v.length : k \in Place /\ data[b][k] = v.data[k]

(* The call of r hands v over: as many bytes as it says, all of them       *)
(* copied.                                                                 *)
Gets(r, v) ==
  /\ len[r]["out_length"] = v.length
  /\ v.length <= got[r]
  /\ \A k \in 1 .. v.length : out[r][k] = v.data[k]

(* However many threads write, the front buffer holds what was published   *)
(* last, whole: the back buffer is never the one that readers are sent to, *)
(* and two writers never mix their bytes (set_variable_data's lock).  This *)
(* and the next two are about contents that fit a buffer: a longer one     *)
(* runs over its own length and into the other buffer.                     *)
FrontIsLast == fits => Stores(read_buf, last)

(* A get during which nothing is published returns the content, however    *)
(* much of the next one is already in the back buffer and whatever the     *)
(* order the arguments of memcpy are evaluated in.                         *)
QuietGet ==
  fits => \A r \in Readers : GetDone(r) /\ quiet[r] => Gets(r, last)

(* A get whose three reads of read_buf found the same buffer returns one   *)
(* content the variable had during the call: the grace period keeps the    *)
(* writers out of a buffer a reader is still in (synchronize_rcu), unless  *)
(* one of them began before another's had ended, which the lock, freed     *)
(* before synchronize_rcu, allows.                                         *)
OneBufferGet ==
  fits =>
    \A r \in Readers :
      /\ GetDone(r)
      /\ alone[r]
      /\ \A x \in Reads : ptr[r][x] = ptr[r]["data"]
      => \E v \in seen[r] : Gets(r, v)

(* Every get returns what was the content at some moment of the call.      *)
GetsStored ==
  fits => \A r \in Readers : GetDone(r) => \E v \in seen[r] : Gets(r, v)

(* The front buffer holds what was published last, whatever was set.       *)
FrontAlways == Stores(read_buf, last)

(* Every call of set_variable_data returns: neither the lock nor the grace *)
(* period keeps a writer for ever, unless one copied beyond the buffers.   *)
SetReturns ==
  \A w \in Writers : set[w] = "lock" ~> (set[w] = "idle" \/ ~fits)
=============================================================================
