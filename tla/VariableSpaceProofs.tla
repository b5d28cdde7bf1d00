------------------------- MODULE VariableSpaceProofs -------------------------
(***************************************************************************)
(* Proofs about VariableSpace, for any number of readers and writers, any  *)
(* size of a buffer and any contents, those that are longer included.      *)
(***************************************************************************)
EXTENDS VariableSpace, TLAPS

(* The writer inside the lock has copied what it says into the back buffer.*)
WriterInv ==
  \A w \in Writers :
    /\ set[w] \in {"copy", "publish"} => write_lock = w
    /\ set[w] = "copy" =>
         /\ copied[w] <= arg[w].length
         /\ \A k \in 1 .. copied[w] : data[write_buf][k] = arg[w].data[k]
    /\ set[w] = "publish" => Stores(write_buf, arg[w])

(* What is published is in the front buffer.                               *)
FrontWhole == Stores(read_buf, last)

(* The front and the back buffer differ and store what they should.        *)
StoreInv == read_buf # write_buf /\ WriterInv /\ FrontWhole

(* The order in which a call of a reader reads.                            *)
ReaderInv ==
  \A r \in Readers :
    /\ ~Reading(r) => ptr[r] = [x \in Reads |-> NotRead]
    /\ \A x \in Lengths : len[r][x] # NotRead => ptr[r][x] # NotRead
    /\ got[r] # 0 => got[r] <= len[r]["length"]
    /\ ptr[r]["out_length"] # NotRead => CopyDone(r)

(* What a reader has read so far is v.                                     *)
Agrees(r, v) ==
  /\ \A x \in Lengths : len[r][x] \in {NotRead, v.length}
  /\ \A k \in 1 .. got[r] : out[r][k] = v.data[k]

(* Undisturbed, a reader has read nothing but the front buffer.            *)
QuietInv ==
  \A r \in Readers : Reading(r) /\ quiet[r] =>
    /\ \A x \in Reads : ptr[r][x] \in {NotRead, read_buf}
    /\ Agrees(r, last)

(* What is being set, or was published, fits a buffer.                     *)
FitInv ==
  fits => last.length <= Size /\ \A w \in Writers : arg[w].length <= Size

IInv ==
  /\ TypeOK /\ FitInv
  /\ ReaderInv
  /\ fits => StoreInv /\ QuietInv

-----------------------------------------------------------------------------
LEMMA EmptyType ==
  VariableAssumption => Empty \in Content
BY DEF VariableAssumption, Empty, Content, Cell

(* Contents that fit are copied within the buffers.                        *)
LEMMA NoOverrun ==
  ASSUME VariableAssumption, TypeOK, FitInv, fits
  PROVE  /\ \A w \in Writers : ~SetOverrun(w) /\ ~SetLose(w)
         /\ \A r \in Readers : ~GetBeyond(r)
<1>1. ASSUME NEW w \in Writers
      PROVE  ~(Size <= copied[w] /\ copied[w] < arg[w].length)
  BY <1>1 DEF FitInv, TypeOK, Content, VariableAssumption
<1>2. ASSUME NEW r \in Readers
      PROVE  ~(Size <= got[r] /\ got[r] < len[r]["length"])
  <2>1. len[r]["length"] <= Size /\ len[r]["length"] \in Cell \cup {NotRead}
    BY DEF TypeOK, Lengths
  <2>2. got[r] \in 0 .. Limit
    BY DEF TypeOK
  <2>3. QED
    BY <2>1, <2>2 DEF Cell, NotRead, VariableAssumption
<1>3. QED
  BY <1>1, <1>2 DEF SetOverrun, SetLose, GetBeyond

LEMMA FitStep ==
  ASSUME VariableAssumption, TypeOK, FitInv, [Next]_vars
  PROVE  FitInv' /\ (fits' => fits)
<1> USE DEF buffers, pointers, writer, reader, history
<1>1. ASSUME UNCHANGED <<fits, arg, last>>
      PROVE  FitInv' /\ (fits' => fits)
  BY <1>1 DEF FitInv
<1>2. ASSUME NEW w \in Writers, NEW v \in Values, SetCall(w, v)
      PROVE  FitInv' /\ (fits' => fits)
  BY <1>2 DEF SetCall, FitInv, TypeOK
<1>3. ASSUME NEW w \in Writers, SetPublish(w)
      PROVE  FitInv' /\ (fits' => fits)
  BY <1>3 DEF SetPublish, FitInv
<1>4. ASSUME NEW w \in Writers, SetReturn(w)
      PROVE  FitInv' /\ (fits' => fits)
  BY <1>4 DEF SetReturn, FitInv, TypeOK, Empty, VariableAssumption
<1>5. ASSUME NEW w \in Writers, Set(w), ~SetPublish(w), ~SetReturn(w)
      PROVE  UNCHANGED <<fits, arg, last>>
  BY <1>5 DEF Set, SetLock, SetCopy, SetOverrun, SetLose, SetLength,
              SetSynchronize
<1>6. ASSUME NEW r \in Readers, Get(r) \/ GetCall(r)
      PROVE  UNCHANGED <<fits, arg, last>>
  BY <1>6 DEF Get, GetCall, GetPointer, GetLength, GetCopy, GetBeyond, GetReturn
<1>7. CASE UNCHANGED vars
  BY <1>1, <1>7 DEF vars
<1>8. QED
  BY <1>1, <1>2, <1>3, <1>4, <1>5, <1>6, <1>7 DEF Next

(* No step leaves the range of a field; a length above a buffer's size     *)
(* comes of a content that is too long.                                    *)
LEMMA TypeStep ==
  ASSUME VariableAssumption, TypeOK, FitInv, [Next]_vars
  PROVE  TypeOK'
<1> USE DEF buffers, pointers, writer, reader, history
<1>1. ASSUME NEW w \in Writers, NEW v \in Values, SetCall(w, v) PROVE TypeOK'
  BY <1>1 DEF SetCall, TypeOK, Lost, VariableAssumption
<1>2. ASSUME NEW w \in Writers, SetLock(w) PROVE TypeOK'
  BY <1>2 DEF SetLock, Alone, TypeOK, Lost, VariableAssumption
<1>3. ASSUME NEW w \in Writers, SetCopy(w) PROVE TypeOK'
  <2>1. copied[w] \in 0 .. Limit /\ arg[w].length \in 0 .. Limit
    BY DEF TypeOK, Content
  <2>2. /\ copied[w] + 1 \in Place
        /\ copied[w] + 1 \in 0 .. Limit /\ copied[w] + 1 \in 1 .. Limit
    BY <1>3, <2>1 DEF SetCopy, Place, VariableAssumption
  <2>3. arg[w].data[copied[w] + 1] \in Cell
    BY <2>2 DEF TypeOK, Content
  <2>4. data' \in [Buf -> [Place -> Cell]]
    BY <1>3, <2>3 DEF SetCopy, TypeOK
  <2>5. copied' \in [Writers -> 0 .. Limit]
    BY <1>3, <2>2 DEF SetCopy, TypeOK
  <2>6. QED
    BY <1>3, <2>4, <2>5 DEF SetCopy, TypeOK, Lost
<1>4. ASSUME NEW w \in Writers, SetOverrun(w) PROVE TypeOK'
  <2>1. copied[w] \in 0 .. Limit /\ arg[w].length \in 0 .. Limit
    BY DEF TypeOK, Content
  <2>2. copied[w] + 1 \in 0 .. Limit /\ copied[w] + 1 \in 1 .. Limit
    BY <1>4, <2>1 DEF SetOverrun, VariableAssumption
  <2>3. arg[w].data[copied[w] + 1] \in Cell
    BY <2>2 DEF TypeOK, Content
  <2> DEFINE b == BufAt(write_buf, copied[w] + 1)
             k == PlaceAt(write_buf, copied[w] + 1)
             byte == arg[w].data[copied[w] + 1]
  <2>4. data' \in [Buf -> [Place -> Cell]] /\ length' \in [Buf -> Cell]
    <3>1. \/ k \in Place /\ data' = [data EXCEPT ![b][k] = byte] /\ UNCHANGED length
          \/ length' = [length EXCEPT ![b] = byte] /\ UNCHANGED data
      BY <1>4 DEF SetOverrun
    <3>2. b \in Buf
      BY DEF BufAt, Buf, TypeOK
    <3> HIDE DEF b, k, byte
    <3>3. byte \in Cell
      BY <2>3 DEF byte
    <3>4. data \in [Buf -> [Place -> Cell]] /\ length \in [Buf -> Cell]
      BY DEF TypeOK
    <3>5. CASE k \in Place /\ data' = [data EXCEPT ![b][k] = byte] /\ UNCHANGED length
      <4>1. [data[b] EXCEPT ![k] = byte] \in [Place -> Cell]
        BY <3>2, <3>3, <3>4
      <4>2. QED
        BY <3>2, <3>4, <3>5, <4>1
    <3>6. CASE length' = [length EXCEPT ![b] = byte] /\ UNCHANGED data
      BY <3>2, <3>3, <3>4, <3>6
    <3>7. QED
      BY <3>1, <3>5, <3>6
  <2>5. copied' \in [Writers -> 0 .. Limit]
    BY <1>4, <2>2 DEF SetOverrun, TypeOK
  <2>6. ~fits /\ UNCHANGED <<fits, pointers, write_lock, set, arg, grace,
                             reader, last, seen, quiet, alone>>
    BY <1>4, NoOverrun DEF SetOverrun
  <2>7. QED
    BY <2>4, <2>5, <2>6 DEF TypeOK
<1>5. ASSUME NEW w \in Writers, SetLose(w) PROVE TypeOK'
  <2>1. ~fits
    BY <1>5, NoOverrun
  <2>2. QED
    BY <1>5, <2>1 DEF SetLose, TypeOK
<1>6. ASSUME NEW w \in Writers, SetLength(w) PROVE TypeOK'
  <2>1. arg[w].length \in Cell /\ (fits => arg[w].length <= Size)
    BY DEF FitInv, TypeOK, Content, Cell
  <2>2. length' \in [Buf -> Cell] /\ (fits => \A b \in Buf : length'[b] <= Size)
    BY <1>6, <2>1 DEF SetLength, TypeOK
  <2>3. QED
    BY <1>6, <2>2 DEF SetLength, TypeOK, Lost
<1>7. ASSUME NEW w \in Writers, SetPublish(w) PROVE TypeOK'
  BY <1>7 DEF SetPublish, TypeOK, Lost
<1>8. ASSUME NEW w \in Writers, SetSynchronize(w) PROVE TypeOK'
  BY <1>8 DEF SetSynchronize, TypeOK, Lost
<1>9. ASSUME NEW w \in Writers, SetReturn(w) PROVE TypeOK'
  BY <1>9, EmptyType DEF SetReturn, TypeOK, Lost, VariableAssumption
<1>10. ASSUME NEW r \in Readers, GetCall(r) PROVE TypeOK'
  BY <1>10 DEF GetCall, TypeOK, Lost
<1>11. ASSUME NEW r \in Readers, NEW x \in Reads, GetPointer(r, x) PROVE TypeOK'
  BY <1>11 DEF GetPointer, TypeOK, Lost
<1>12. ASSUME NEW r \in Readers, NEW x \in Lengths, GetLength(r, x) PROVE TypeOK'
  <2>1. ptr[r][x] \in Buf
    BY <1>12 DEF GetLength, TypeOK, Reads, Lengths
  <2>2. length[ptr[r][x]] \in Cell /\ (fits => length[ptr[r][x]] <= Size)
    BY <2>1 DEF TypeOK
  <2>3. len' \in [Readers -> [Lengths -> Cell \cup {NotRead}]]
    BY <1>12, <2>2 DEF GetLength, TypeOK
  <2>4. fits => \A s \in Readers : \A y \in Lengths : len'[s][y] <= Size
    BY <1>12, <2>2 DEF GetLength, TypeOK
  <2>5. QED
    BY <1>12, <2>3, <2>4 DEF GetLength, TypeOK, Lost
<1>13. ASSUME NEW r \in Readers, GetCopy(r) \/ GetBeyond(r) PROVE TypeOK'
  <2>1. /\ got[r] \in 0 .. Limit
        /\ len[r]["length"] \in Cell \cup {NotRead}
        /\ ptr[r]["data"] \in Buf
    BY <1>13 DEF GetCopy, GetBeyond, TypeOK, Lengths, Reads
  <2>2. got[r] + 1 \in 1 .. Limit /\ got[r] + 1 \in 0 .. Limit
    BY <1>13, <2>1 DEF GetCopy, GetBeyond, Cell, NotRead, VariableAssumption
  <2>3. PICK byte \in Cell : out' = [out EXCEPT ![r][got[r] + 1] = byte]
    <3>1. ASSUME GetCopy(r)
          PROVE  data[ptr[r]["data"]][got[r] + 1] \in Cell
      <4>1. got[r] + 1 \in Place
        BY <3>1, <2>1 DEF GetCopy, Place, VariableAssumption
      <4>2. QED
        BY <2>1, <4>1 DEF TypeOK
    <3>2. QED
      BY <1>13, <3>1 DEF GetCopy, GetBeyond
  <2>4. out' \in [Readers -> [1 .. Limit -> Cell]]
    BY <2>3 DEF TypeOK
  <2>5. got' \in [Readers -> 0 .. Limit]
    BY <1>13, <2>2 DEF GetCopy, GetBeyond, TypeOK
  <2>6. UNCHANGED <<buffers, pointers, write_lock, writer, grace, get, ptr,
                    len, history>>
    BY <1>13 DEF GetCopy, GetBeyond
  <2>7. QED
    BY <2>4, <2>5, <2>6 DEF TypeOK, Lost
<1>14. ASSUME NEW r \in Readers, GetReturn(r) PROVE TypeOK'
  <2>1. Empty.data \in [1 .. Limit -> Cell]
    BY EmptyType DEF Content
  <2>2. NotRead <= Size
    BY DEF NotRead, VariableAssumption
  <2>3. /\ ptr' \in [Readers -> [Reads -> Buf \cup {NotRead}]]
        /\ len' \in [Readers -> [Lengths -> Cell \cup {NotRead}]]
        /\ fits => \A s \in Readers : \A y \in Lengths : len'[s][y] <= Size
    BY <1>14, <2>2 DEF GetReturn, TypeOK
  <2>4. QED
    BY <1>14, <2>1, <2>3 DEF GetReturn, TypeOK, Lost, VariableAssumption
<1>15. CASE UNCHANGED vars
  BY <1>15 DEF vars, TypeOK, Lost
<1>16. QED
  BY <1>1, <1>2, <1>3, <1>4, <1>5, <1>6, <1>7, <1>8, <1>9, <1>10, <1>11,
     <1>12, <1>13, <1>14, <1>15 DEF Next, Set, Get

(* Steps that leave buffers and writers alone.                             *)
LEMMA SameStore ==
  ASSUME StoreInv, UNCHANGED <<buffers, pointers, write_lock, writer, last>>
  PROVE  StoreInv'
BY DEF StoreInv, WriterInv, FrontWhole, Stores, buffers, pointers, writer

LEMMA StoreStep ==
  ASSUME VariableAssumption, TypeOK, FitInv, fits, StoreInv, [Next]_vars
  PROVE  StoreInv'
<1> USE DEF buffers, pointers, writer, reader, history
<1>1. ASSUME NEW w \in Writers, NEW v \in Values, SetCall(w, v)
      PROVE  StoreInv'
  BY <1>1 DEF SetCall, StoreInv, WriterInv, FrontWhole, Stores, TypeOK
<1>2. ASSUME NEW w \in Writers, SetLock(w)
      PROVE  StoreInv'
  <2>1. FrontWhole'
    BY <1>2 DEF SetLock, StoreInv, FrontWhole, Stores
  <2>2. \A u \in Writers : u # w => set[u] \notin {"copy", "publish"}
    BY <1>2 DEF SetLock, StoreInv, WriterInv, VariableAssumption
  <2>3. copied'[w] = 0 /\ arg[w].length \in Nat /\ set'[w] = "copy"
    BY <1>2 DEF SetLock, TypeOK, Content, VariableAssumption
  <2>4. \A u \in Writers : u # w => set'[u] = set[u]
    BY <1>2 DEF SetLock, TypeOK
  <2>5. WriterInv'
    BY <1>2, <2>2, <2>3, <2>4 DEF SetLock, WriterInv, Stores
  <2>6. QED
    BY <1>2, <2>1, <2>5 DEF SetLock, StoreInv
<1>3. ASSUME NEW w \in Writers, SetCopy(w)
      PROVE  StoreInv'
  <2> DEFINE k == copied[w] + 1
  <2>1. /\ k \in Place /\ copied[w] \in Nat
        /\ k <= arg[w].length
        /\ write_lock = w /\ set[w] = "copy"
    <3>1. copied[w] \in 0 .. Limit /\ arg[w].length \in 0 .. Limit
      BY DEF TypeOK, Content
    <3>2. /\ copied[w] < arg[w].length /\ copied[w] < Size
          /\ set[w] = "copy" /\ write_lock = w
      BY <1>3 DEF SetCopy, StoreInv, WriterInv
    <3>3. QED
      BY <3>1, <3>2 DEF Place, VariableAssumption
  <2>2. \A u \in Writers : u # w => set[u] \notin {"copy", "publish"}
    BY <2>1 DEF StoreInv, WriterInv
  <2>3. /\ data'[read_buf] = data[read_buf]
        /\ data'[write_buf][k] = arg[w].data[k]
        /\ \A m \in Place : m # k => data'[write_buf][m] = data[write_buf][m]
    BY <1>3, <2>1 DEF SetCopy, TypeOK, StoreInv
  <2>4. FrontWhole'
    BY <1>3, <2>3 DEF SetCopy, StoreInv, FrontWhole, Stores
  <2>5. copied'[w] = k /\ \A m \in 1 .. k : m = k \/ m \in 1 .. copied[w]
    BY <1>3, <2>1 DEF SetCopy, TypeOK
  <2>6. \A m \in 1 .. k : data'[write_buf][m] = arg[w].data[m]
    <3>1. \A m \in 1 .. copied[w] : data[write_buf][m] = arg[w].data[m]
      BY <2>1 DEF StoreInv, WriterInv
    <3>2. \A m \in 1 .. copied[w] : m \in Place /\ m # k
      BY <2>1 DEF Place
    <3>3. QED
      BY <2>3, <2>5, <3>1, <3>2
  <2>7. WriterInv'
    BY <1>3, <2>1, <2>2, <2>5, <2>6 DEF SetCopy, WriterInv
  <2>8. QED
    BY <1>3, <2>4, <2>7 DEF SetCopy, StoreInv
<1>4. ASSUME NEW w \in Writers, SetLength(w)
      PROVE  StoreInv'
  <2>1. write_lock = w /\ set[w] = "copy"
    BY <1>4 DEF SetLength, StoreInv, WriterInv
  <2>2. \A u \in Writers : u # w => set[u] \notin {"copy", "publish"}
    BY <2>1 DEF StoreInv, WriterInv
  <2>3. FrontWhole'
    BY <1>4 DEF SetLength, StoreInv, FrontWhole, Stores, TypeOK
  <2>4. Stores(write_buf, arg[w])'
    <3>1. /\ \A k \in 1 .. arg[w].length : data[write_buf][k] = arg[w].data[k]
          /\ length'[write_buf] = arg[w].length
      BY <1>4, <2>1 DEF SetLength, StoreInv, WriterInv, TypeOK
    <3>2. \A k \in 1 .. arg[w].length : k \in Place
      BY DEF FitInv, TypeOK, Content, Place, VariableAssumption
    <3>3. QED
      BY <1>4, <3>1, <3>2 DEF SetLength, Stores
  <2>5. set'[w] = "publish" /\ \A u \in Writers : u # w => set'[u] = set[u]
    BY <1>4 DEF SetLength, TypeOK
  <2>6. WriterInv'
    BY <1>4, <2>1, <2>2, <2>4, <2>5 DEF SetLength, WriterInv, Stores
  <2>7. QED
    BY <1>4, <2>3, <2>6 DEF SetLength, StoreInv
<1>5. ASSUME NEW w \in Writers, SetPublish(w)
      PROVE  StoreInv'
  <2>1. write_lock = w /\ Stores(write_buf, arg[w])
    BY <1>5 DEF SetPublish, StoreInv, WriterInv
  <2>2. \A u \in Writers : u # w => set[u] \notin {"copy", "publish"}
    BY <2>1 DEF StoreInv, WriterInv
  <2>3. \A u \in Writers : set'[u] \notin {"copy", "publish"}
    BY <1>5, <2>2 DEF SetPublish, TypeOK
  <2>4. FrontWhole'
    BY <1>5, <2>1 DEF SetPublish, FrontWhole, Stores
  <2>5. QED
    BY <1>5, <2>3, <2>4 DEF SetPublish, StoreInv, WriterInv
<1>6. ASSUME NEW w \in Writers, SetSynchronize(w) \/ SetReturn(w)
      PROVE  StoreInv'
  <2>1. /\ set'[w] \notin {"copy", "publish"}
        /\ \A u \in Writers : u # w => /\ set'[u] = set[u]
                                       /\ arg'[u] = arg[u]
                                       /\ copied'[u] = copied[u]
        /\ UNCHANGED <<buffers, pointers, write_lock, last>>
    BY <1>6 DEF SetSynchronize, SetReturn, TypeOK
  <2>2. QED
    BY <2>1 DEF StoreInv, WriterInv, FrontWhole, Stores
<1>7. ASSUME NEW r \in Readers, Get(r) \/ GetCall(r)
      PROVE  StoreInv'
  <2>1. UNCHANGED <<buffers, pointers, write_lock, writer, last>>
    BY <1>7 DEF Get, GetCall, GetPointer, GetLength, GetCopy, GetBeyond,
                GetReturn
  <2>2. QED
    BY <2>1, SameStore
<1>8. CASE UNCHANGED vars
  BY <1>8, SameStore DEF vars
<1>9. QED
  BY NoOverrun, <1>1, <1>2, <1>3, <1>4, <1>5, <1>6, <1>7, <1>8 DEF Next, Set

(* A reader's call reads in the order ReaderInv states.                    *)
LEMMA ReaderStep ==
  ASSUME VariableAssumption, TypeOK, ReaderInv, [Next]_vars
  PROVE  ReaderInv'
<1> USE DEF buffers, pointers, writer, reader, history
<1>1. ASSUME UNCHANGED reader
      PROVE  ReaderInv'
  BY <1>1 DEF ReaderInv, Reading, CopyDone
<1>2. ASSUME NEW w \in Writers, Set(w) \/ \E v \in Values : SetCall(w, v)
      PROVE  UNCHANGED reader
  BY <1>2 DEF Set, SetCall, SetLock, SetCopy, SetOverrun, SetLose, SetLength,
              SetPublish, SetSynchronize, SetReturn
<1>3. ASSUME NEW r \in Readers, GetCall(r)
      PROVE  ReaderInv'
  BY <1>3 DEF GetCall, ReaderInv, Reading, CopyDone, TypeOK
<1>4. ASSUME NEW r \in Readers, NEW x \in Reads, GetPointer(r, x)
      PROVE  ReaderInv'
  <2>1. /\ ptr'[r][x] \in Buf /\ Reading(r)'
        /\ \A y \in Reads : y # x => ptr'[r][y] = ptr[r][y]
        /\ \A s \in Readers : s # r => ptr'[s] = ptr[s]
        /\ UNCHANGED <<get, len, got>>
    BY <1>4 DEF GetPointer, TypeOK, Reading
  <2>2. Buf \cap {NotRead} = {}
    BY DEF Buf, NotRead
  <2>3. CopyDone(r) => CopyDone(r)'
    BY <2>1, <2>2 DEF CopyDone, Reads
  <2>4. ptr'[r]["out_length"] # NotRead => CopyDone(r)'
    BY <1>4, <2>1, <2>2, <2>3 DEF ReaderInv, GetPointer, Reads
  <2>5. \A y \in Lengths : len'[r][y] # NotRead => ptr'[r][y] # NotRead
    BY <2>1, <2>2 DEF ReaderInv, Lengths, Reads
  <2>6. QED
    BY <2>1, <2>4, <2>5 DEF ReaderInv, Reading, CopyDone
<1>5. ASSUME NEW r \in Readers, NEW x \in Lengths, GetLength(r, x)
      PROVE  ReaderInv'
  <2>1. /\ Reading(r)' /\ ptr[r][x] # NotRead /\ len[r][x] = NotRead
        /\ \A y \in Lengths : y # x => len'[r][y] = len[r][y]
        /\ \A s \in Readers : s # r => len'[s] = len[s]
        /\ UNCHANGED <<get, ptr, got>>
    BY <1>5 DEF GetLength, TypeOK, Reading
  <2>2. got[r] # 0 => got'[r] <= len'[r]["length"]
    BY <2>1 DEF ReaderInv, Lengths, NotRead, TypeOK
  <2>3. ptr[r]["out_length"] # NotRead => CopyDone(r)'
    BY <2>1 DEF ReaderInv, CopyDone, Lengths
  <2>4. QED
    BY <2>1, <2>2, <2>3 DEF ReaderInv, Reading, CopyDone
<1>6. ASSUME NEW r \in Readers, GetCopy(r) \/ GetBeyond(r)
      PROVE  ReaderInv'
  <2>1. /\ Reading(r)
        /\ got[r] < len[r]["length"] /\ got'[r] = got[r] + 1
        /\ \A s \in Readers : s # r => got'[s] = got[s]
        /\ UNCHANGED <<get, ptr, len>>
    BY <1>6 DEF GetCopy, GetBeyond, TypeOK
  <2>2. got[r] \in Nat /\ len[r]["length"] \in Int
    BY DEF TypeOK, Lengths, Cell, VariableAssumption, NotRead
  <2>3. ~CopyDone(r)
    BY <2>1, <2>2 DEF CopyDone
  <2>4. QED
    BY <2>1, <2>2, <2>3 DEF ReaderInv, Reading, CopyDone
<1>7. ASSUME NEW r \in Readers, GetReturn(r)
      PROVE  ReaderInv'
  BY <1>7 DEF GetReturn, ReaderInv, Reading, CopyDone, TypeOK, Reads, Lengths
<1>8. CASE UNCHANGED vars
  BY <1>1, <1>8 DEF vars
<1>9. QED
  BY <1>1, <1>2, <1>3, <1>4, <1>5, <1>6, <1>7, <1>8 DEF Next, Get

(* Until something is published the front buffer keeps its content, so a   *)
(* reader that has seen nothing else agrees with it.                       *)
LEMMA QuietStep ==
  ASSUME VariableAssumption, TypeOK, FitInv, fits, StoreInv, ReaderInv,
         QuietInv, [Next]_vars
  PROVE  QuietInv'
<1> USE DEF buffers, pointers, writer, reader, history
<1>1. ASSUME UNCHANGED <<pointers, last, reader, quiet>>
      PROVE  QuietInv'
  BY <1>1 DEF QuietInv, Agrees, Reading
<1>2. ASSUME NEW w \in Writers, Set(w), ~SetPublish(w)
      PROVE  UNCHANGED <<pointers, last, reader, quiet>>
  BY <1>2 DEF Set, SetLock, SetCopy, SetOverrun, SetLose, SetLength,
              SetSynchronize, SetReturn
<1>3. ASSUME NEW w \in Writers, NEW v \in Values, SetCall(w, v)
      PROVE  UNCHANGED <<pointers, last, reader, quiet>>
  BY <1>3 DEF SetCall
<1>4. ASSUME NEW w \in Writers, SetPublish(w)
      PROVE  QuietInv'
  BY <1>4 DEF SetPublish, QuietInv, Reading
<1>5. ASSUME NEW r \in Readers, GetCall(r)
      PROVE  QuietInv'
  <2>1. /\ ptr[r] = [x \in Reads |-> NotRead]
        /\ \A x \in Lengths : len[r][x] = NotRead
        /\ got[r] = 0
    BY <1>5 DEF GetCall, ReaderInv, Reading, TypeOK, Lengths, Reads, NotRead,
                VariableAssumption
  <2>2. /\ \A s \in Readers : s # r => get'[s] = get[s]
        /\ UNCHANGED <<pointers, last, ptr, len, out, got, quiet>>
    BY <1>5 DEF GetCall, TypeOK
  <2>3. QED
    BY <2>1, <2>2 DEF QuietInv, Agrees, Reading
<1>6. ASSUME NEW r \in Readers, NEW x \in Reads, GetPointer(r, x)
      PROVE  QuietInv'
  <2>1. /\ ptr'[r][x] = read_buf
        /\ \A y \in Reads : y # x => ptr'[r][y] = ptr[r][y]
        /\ \A s \in Readers : s # r => ptr'[s] = ptr[s]
        /\ UNCHANGED <<get, pointers, last, len, out, got, quiet>>
    BY <1>6 DEF GetPointer, TypeOK
  <2>2. QED
    BY <2>1 DEF QuietInv, Agrees, Reading
<1>7. ASSUME NEW r \in Readers, NEW x \in Lengths, GetLength(r, x)
      PROVE  QuietInv'
  <2>1. /\ len'[r][x] = length[ptr[r][x]] /\ ptr[r][x] # NotRead
        /\ \A y \in Lengths : y # x => len'[r][y] = len[r][y]
        /\ \A s \in Readers : s # r => len'[s] = len[s]
        /\ UNCHANGED <<get, pointers, last, ptr, out, got, quiet>>
    BY <1>7 DEF GetLength, TypeOK
  <2>2. length[read_buf] = last.length
    BY DEF StoreInv, FrontWhole, Stores
  <2>3. Reading(r) /\ quiet[r] => len'[r][x] = last.length
    BY <2>1, <2>2 DEF QuietInv, Reads, Lengths
  <2>4. QED
    BY <2>1, <2>3 DEF QuietInv, Agrees, Reading
<1>8. ASSUME NEW r \in Readers, GetCopy(r)
      PROVE  QuietInv'
  <2> DEFINE k == got[r] + 1
  <2>1. /\ got[r] < len[r]["length"] /\ got'[r] = k
        /\ \A s \in Readers : s # r => got'[s] = got[s] /\ out'[s] = out[s]
        /\ UNCHANGED <<get, pointers, last, ptr, len, quiet>>
    BY <1>8 DEF GetCopy, TypeOK
  <2>2. /\ got[r] \in 0 .. Limit /\ got[r] < Size
        /\ len[r]["length"] \in Cell \cup {NotRead}
    BY <1>8 DEF GetCopy, TypeOK, Lengths
  <2>3. k \in Place
    BY <2>1, <2>2 DEF Place, NotRead, VariableAssumption
  <2>4. /\ out'[r][k] = data[ptr[r]["data"]][k]
        /\ \A m \in Place : m # k => out'[r][m] = out[r][m]
    BY <1>8, <2>3 DEF GetCopy, TypeOK, Place, VariableAssumption
  <2>5. \A m \in 1 .. k : m = k \/ (m \in 1 .. got[r] /\ m \in Place /\ m # k)
    <3>1. got[r] \in Nat /\ got[r] + 1 <= Size /\ Size \in Nat
      BY <2>2, <2>3 DEF Place, VariableAssumption
    <3>2. QED
      BY <3>1 DEF Place
  <2>6. ASSUME Reading(r), quiet[r]
        PROVE  \A m \in 1 .. k : out'[r][m] = last.data[m]
    <3>1. ptr[r]["data"] = read_buf
      BY <1>8, <2>6 DEF GetCopy, QuietInv, Reads
    <3>2. len[r]["length"] = last.length
      BY <2>1, <2>2, <2>6 DEF QuietInv, Agrees, Lengths, NotRead
    <3>3. k \in 1 .. last.length
      BY <2>1, <2>2, <3>2 DEF Cell, NotRead, VariableAssumption
    <3>4. data[read_buf][k] = last.data[k]
      BY <3>3 DEF StoreInv, FrontWhole, Stores
    <3>5. \A m \in 1 .. got[r] : out[r][m] = last.data[m]
      BY <2>6 DEF QuietInv, Agrees
    <3>6. QED
      BY <2>4, <2>5, <3>1, <3>4, <3>5
  <2>7. QED
    BY <2>1, <2>6 DEF QuietInv, Agrees, Reading
<1>9. ASSUME NEW r \in Readers, GetReturn(r)
      PROVE  QuietInv'
  <2>1. /\ ~Reading(r)'
        /\ \A s \in Readers : s # r =>
             /\ get'[s] = get[s] /\ ptr'[s] = ptr[s] /\ len'[s] = len[s]
             /\ out'[s] = out[s] /\ got'[s] = got[s] /\ quiet'[s] = quiet[s]
        /\ UNCHANGED <<pointers, last>>
    BY <1>9 DEF GetReturn, TypeOK, Reading
  <2>2. QED
    BY <2>1 DEF QuietInv, Agrees, Reading
<1>10. CASE UNCHANGED vars
  BY <1>1, <1>10 DEF vars
<1>11. QED
  BY NoOverrun, <1>1, <1>2, <1>3, <1>4, <1>5, <1>6, <1>7, <1>8, <1>9, <1>10
     DEF Next, Get

-----------------------------------------------------------------------------
LEMMA InitIInv == VariableAssumption /\ Init => IInv
<1> SUFFICES ASSUME VariableAssumption, Init PROVE IInv
  OBVIOUS
<1>1. TypeOK /\ FitInv
  <2>1. 0 \in Cell /\ Empty \in Content /\ Empty.length = 0 /\ NotRead <= Size
    BY EmptyType DEF Cell, Empty, NotRead, VariableAssumption
  <2>2. Empty.data \in [1 .. Limit -> Cell]
    BY <2>1 DEF Content
  <2>3. QED
    BY <2>1, <2>2 DEF Init, TypeOK, FitInv, Buf, Lost, VariableAssumption
<1>2. StoreInv
  BY DEF Init, StoreInv, WriterInv, FrontWhole, Stores, Empty, Buf
<1>3. ReaderInv
  BY DEF Init, ReaderInv, Reading, Reads, Lengths
<1>4. QuietInv
  BY DEF Init, QuietInv, Reading
<1>5. QED
  BY <1>1, <1>2, <1>3, <1>4 DEF IInv

LEMMA NextIInv == VariableAssumption /\ IInv /\ [Next]_vars => IInv'
BY TypeStep, FitStep, StoreStep, ReaderStep, QuietStep DEF IInv

(* A call about to return has copied as many bytes as it says it has, if   *)
(* it has read one buffer's length twice.                                  *)
LEMMA DoneCopied ==
  ASSUME TypeOK, ReaderInv, NEW r \in Readers, GetDone(r)
  PROVE  /\ Reading(r) /\ CopyDone(r)
         /\ \A x \in Reads : ptr[r][x] # NotRead
         /\ \A x \in Lengths : len[r][x] # NotRead
<1>1. ptr[r]["out_length"] # NotRead
  BY DEF ReaderInv, GetDone, Lengths
<1>2. Reading(r)
  BY <1>1 DEF ReaderInv, Reads
<1>3. CopyDone(r)
  BY <1>1 DEF ReaderInv
<1>4. ptr[r]["length"] # NotRead
  BY <1>3 DEF ReaderInv, CopyDone, Lengths
<1>5. QED
  BY <1>1, <1>2, <1>3, <1>4 DEF CopyDone, GetDone, Reads, Lengths

THEOREM Inductive == Spec => []IInv
BY InitIInv, NextIInv, VariableAssumption, PTL DEF Spec

(* The fields of a variable and of the calls on it keep their types,       *)
(* whatever is set.  No byte is copied beyond a buffer, or read from       *)
(* there, until a content longer than MAX_VAR_SIZE_BYTES is.               *)
THEOREM TypeCorrect == Spec => []TypeOK
<1>1. IInv => TypeOK
  BY DEF IInv
<1>2. QED
  BY <1>1, Inductive, PTL

(* However many threads call set_variable_data, the front buffer holds     *)
(* what was published last, whole, in every state.                         *)
THEOREM FrontAlwaysLast == Spec => []FrontIsLast
<1>1. IInv => FrontIsLast
  BY DEF IInv, StoreInv, FrontWhole, FrontIsLast
<1>2. QED
  BY <1>1, Inductive, PTL

(* However many threads call, a get that no publication overlaps returns   *)
(* the content of the variable.                                            *)
THEOREM QuietGetExact == Spec => []QuietGet
<1>1. IInv => QuietGet
  <2> SUFFICES ASSUME IInv, fits, NEW r \in Readers, GetDone(r), quiet[r]
               PROVE  Gets(r, last)
    BY DEF QuietGet
  <2>1. /\ Reading(r) /\ CopyDone(r)
        /\ \A x \in Lengths : len[r][x] # NotRead
    BY DoneCopied DEF IInv
  <2>2. Agrees(r, last)
    BY <2>1 DEF IInv, QuietInv
  <2>3. /\ len[r]["out_length"] = last.length
        /\ len[r]["length"] = last.length
    BY <2>1, <2>2 DEF Agrees, Lengths
  <2>4. QED
    BY <2>1, <2>2, <2>3 DEF Agrees, CopyDone, Gets, IInv, TypeOK
<1>2. QED
  BY <1>1, Inductive, PTL

-----------------------------------------------------------------------------
(* A reader is safe in the back buffer: a writer is in the grace period of *)
(* the publication that retired it, and no writer is inside the lock.      *)
Covered(r) ==
  /\ \E w \in Writers : set[w] = "synchronize" \/ (set[w] = "wait" /\ r \in grace[w])
  /\ \A w \in Writers : set[w] \notin {"copy", "publish"}

GraceInv ==
  \A r \in Readers, x \in Reads : alone[r] /\ ptr[r][x] = write_buf => Covered(r)

Within(r, b) ==
  /\ \E x \in Reads : ptr[r][x] = b
  /\ \A x \in Reads : ptr[r][x] \in {NotRead, b}

(* A reader that has been to one buffer agrees with a content that is      *)
(* still there.                                                            *)
SeenInv ==
  \A r \in Readers :
    /\ Reading(r) => last \in seen[r]
    /\ \A b \in Buf : alone[r] /\ Within(r, b) =>
         \E v \in seen[r] : Stores(b, v) /\ Agrees(r, v)

OneInv == IInv /\ (fits => GraceInv /\ SeenInv)

(* The back buffer is never written under a reader that saw no two writers *)
(* overlap.                                                                *)
LEMMA GraceStep ==
  ASSUME VariableAssumption, OneInv, fits, [Next]_vars
  PROVE  GraceInv'
<1> USE DEF buffers, pointers, writer, reader, history
<1>1. /\ TypeOK /\ GraceInv /\ read_buf # write_buf /\ ReaderInv
      /\ \A w \in Writers : set[w] \in {"copy", "publish"} => write_lock = w
  BY DEF OneInv, IInv, StoreInv, WriterInv
<1>2. ASSUME NEW r \in Readers, NEW x \in Reads, ptr[r][x] = write_buf
      PROVE  Reading(r)
  BY <1>1, <1>2 DEF ReaderInv, TypeOK, Buf, NotRead
<1>3. ASSUME NEW w \in Writers, NEW v \in Values, SetCall(w, v)
      PROVE  GraceInv'
  <2>1. /\ set[w] = "idle" /\ set'[w] = "lock"
        /\ \A u \in Writers : u # w => set'[u] = set[u]
        /\ UNCHANGED <<ptr, write_buf, alone, grace>>
    BY <1>1, <1>3 DEF SetCall, TypeOK
  <2>2. ASSUME NEW r \in Readers, Covered(r) PROVE Covered(r)'
    BY <2>1, <2>2 DEF Covered
  <2>3. QED
    BY <1>1, <2>1, <2>2 DEF GraceInv
<1>4. ASSUME NEW w \in Writers, SetLock(w)
      PROVE  GraceInv'
  <2> SUFFICES ASSUME NEW r \in Readers, NEW x \in Reads,
                      alone'[r], ptr[r][x] = write_buf
               PROVE  FALSE
    BY <1>4 DEF SetLock, GraceInv
  <2>1. Reading(r)
    BY <1>2
  <2>2. alone[r] /\ ~Overlaps(w)
    BY <1>4, <2>1 DEF SetLock, Alone
  <2>3. PICK u \in Writers : set[u] \in {"synchronize", "wait"}
    BY <1>1, <2>2 DEF GraceInv, Covered
  <2>4. u # w
    BY <1>4, <2>3 DEF SetLock
  <2>5. QED
    BY <2>2, <2>3, <2>4 DEF Overlaps
<1>5. ASSUME NEW w \in Writers, SetCopy(w) \/ SetLength(w)
      PROVE  GraceInv'
  <2>1. /\ set[w] = "copy"
        /\ UNCHANGED <<ptr, write_buf, alone>>
    BY <1>5 DEF SetCopy, SetLength
  <2>2. \A r \in Readers, x \in Reads : alone[r] => ptr[r][x] # write_buf
    BY <1>1, <2>1 DEF GraceInv, Covered
  <2>3. QED
    BY <2>1, <2>2 DEF GraceInv
<1>6. ASSUME NEW w \in Writers, SetPublish(w)
      PROVE  GraceInv'
  <2>1. /\ set[w] = "publish" /\ set'[w] = "synchronize"
        /\ \A u \in Writers : u # w => set'[u] = set[u]
    BY <1>1, <1>6 DEF SetPublish, TypeOK
  <2>2. \A u \in Writers : set'[u] \notin {"copy", "publish"}
    BY <1>1, <2>1
  <2>3. QED
    BY <2>1, <2>2 DEF GraceInv, Covered
<1>7. ASSUME NEW w \in Writers, SetSynchronize(w)
      PROVE  GraceInv'
  <2>1. /\ set'[w] = "wait" /\ grace'[w] = {r \in Readers : Reading(r)}
        /\ \A u \in Writers : u # w => set'[u] = set[u] /\ grace'[u] = grace[u]
        /\ UNCHANGED <<ptr, write_buf, alone>>
    BY <1>1, <1>7 DEF SetSynchronize, TypeOK
  <2>2. ASSUME NEW r \in Readers, Covered(r), Reading(r) PROVE Covered(r)'
    BY <2>1, <2>2 DEF Covered
  <2>3. QED
    BY <1>1, <1>2, <2>1, <2>2 DEF GraceInv
<1>8. ASSUME NEW w \in Writers, SetReturn(w)
      PROVE  GraceInv'
  <2>1. /\ set[w] = "wait" /\ grace[w] = {} /\ set'[w] = "idle"
        /\ \A u \in Writers : u # w => set'[u] = set[u]
        /\ UNCHANGED <<ptr, write_buf, alone, grace>>
    BY <1>1, <1>8 DEF SetReturn, TypeOK
  <2>2. ASSUME NEW r \in Readers, Covered(r) PROVE Covered(r)'
    BY <2>1, <2>2 DEF Covered
  <2>3. QED
    BY <1>1, <2>1, <2>2 DEF GraceInv
<1>9. ASSUME NEW r \in Readers, NEW x \in Reads, GetPointer(r, x)
      PROVE  GraceInv'
  <2>1. /\ ptr'[r][x] = read_buf
        /\ \A y \in Reads : y # x => ptr'[r][y] = ptr[r][y]
        /\ \A s \in Readers : s # r => ptr'[s] = ptr[s]
        /\ UNCHANGED <<write_buf, alone, set, grace>>
    BY <1>1, <1>9 DEF GetPointer, TypeOK
  <2>2. QED
    BY <1>1, <2>1 DEF GraceInv, Covered
<1>10. ASSUME NEW r \in Readers, GetReturn(r)
       PROVE  GraceInv'
  <2>1. /\ ptr'[r] = [x \in Reads |-> NotRead]
        /\ \A s \in Readers : s # r => ptr'[s] = ptr[s] /\ alone'[s] = alone[s]
        /\ UNCHANGED <<write_buf, set>>
        /\ \A w \in Writers : grace'[w] = grace[w] \ {r}
    BY <1>1, <1>10 DEF GetReturn, TypeOK
  <2>2. ASSUME NEW s \in Readers, s # r, Covered(s) PROVE Covered(s)'
    BY <2>1, <2>2 DEF Covered
  <2>3. \A x \in Reads : ptr'[r][x] # write_buf
    BY <1>1, <2>1 DEF TypeOK, Buf, NotRead
  <2>4. QED
    BY <1>1, <2>1, <2>2, <2>3 DEF GraceInv
<1>11. ASSUME UNCHANGED <<ptr, write_buf, alone, set, grace>>
       PROVE  GraceInv'
  BY <1>1, <1>11 DEF GraceInv, Covered
<1>12. ASSUME NEW r \in Readers,
              GetCall(r) \/ GetCopy(r) \/ \E x \in Lengths : GetLength(r, x)
       PROVE  UNCHANGED <<ptr, write_buf, alone, set, grace>>
  BY <1>12 DEF GetCall, GetCopy, GetLength
<1>13. CASE UNCHANGED vars
  BY <1>11, <1>13 DEF vars
<1>14. FitInv
  BY DEF OneInv, IInv
<1>15. QED
  BY NoOverrun, <1>1, <1>14, <1>3, <1>4, <1>5, <1>6, <1>7, <1>8, <1>9, <1>10,
     <1>11, <1>12, <1>13 DEF Next, Set, Get

LEMMA SeenStep ==
  ASSUME VariableAssumption, OneInv, fits, [Next]_vars
  PROVE  SeenInv'
<1> USE DEF buffers, pointers, writer, reader, history
<1>1. TypeOK /\ FitInv /\ GraceInv /\ StoreInv /\ ReaderInv /\ SeenInv
  BY DEF OneInv, IInv
<1>2. ASSUME UNCHANGED <<buffers, get, ptr, len, out, got, last, seen>>,
             \A r \in Readers : alone'[r] => alone[r]
      PROVE  SeenInv'
  BY <1>1, <1>2 DEF SeenInv, Within, Stores, Agrees, Reading
<1>3. ASSUME NEW w \in Writers,
             SetLock(w) \/ SetSynchronize(w) \/ SetReturn(w)
               \/ \E v \in Values : SetCall(w, v)
      PROVE  /\ UNCHANGED <<buffers, get, ptr, len, out, got, last, seen>>
             /\ \A r \in Readers : alone'[r] => alone[r]
  BY <1>3 DEF SetLock, Alone, SetSynchronize, SetReturn, SetCall
<1>4. ASSUME NEW w \in Writers, SetCopy(w) \/ SetLength(w)
      PROVE  SeenInv'
  <2>1. set[w] = "copy" /\ UNCHANGED <<get, ptr, len, out, got, last, seen, alone>>
    BY <1>4 DEF SetCopy, SetLength
  <2>2. \A r \in Readers, x \in Reads : alone[r] => ptr[r][x] # write_buf
    BY <1>1, <2>1 DEF GraceInv, Covered
  <2>3. data'[read_buf] = data[read_buf] /\ length'[read_buf] = length[read_buf]
    BY <1>1, <1>4 DEF SetCopy, SetLength, TypeOK, StoreInv
  <2>4. \A v : Stores(read_buf, v) =>
               /\ length'[read_buf] = v.length
               /\ \A k \in 1 .. v.length : k \in Place /\ data'[read_buf][k] = v.data[k]
    BY <2>3 DEF Stores
  <2>5. ASSUME NEW r \in Readers, NEW b \in Buf, alone[r], Within(r, b)
        PROVE  \E v \in seen[r] : Stores(b, v)' /\ Agrees(r, v)
    <3>1. b = read_buf
      BY <1>1, <2>2, <2>5 DEF Within, TypeOK, StoreInv, Buf
    <3>2. PICK v \in seen[r] : Stores(b, v) /\ Agrees(r, v)
      BY <1>1, <2>5 DEF SeenInv
    <3>3. Stores(b, v)'
      BY <2>4, <3>1, <3>2 DEF Stores
    <3>4. QED
      BY <3>2, <3>3
  <2>6. QED
    BY <1>1, <2>1, <2>5 DEF SeenInv, Within, Agrees, Reading
<1>5. ASSUME NEW w \in Writers, SetPublish(w)
      PROVE  SeenInv'
  <2>1. /\ UNCHANGED <<buffers, get, ptr, len, out, got, alone>>
        /\ last' = arg[w]
        /\ \A r \in Readers :
             /\ seen[r] \subseteq seen'[r]
             /\ Reading(r) => arg[w] \in seen'[r]
    BY <1>5 DEF SetPublish
  <2>2. QED
    BY <1>1, <2>1 DEF SeenInv, Within, Stores, Agrees, Reading
<1>6. ASSUME NEW r \in Readers, GetCall(r)
      PROVE  SeenInv'
  <2>1. ptr[r] = [x \in Reads |-> NotRead]
    BY <1>1, <1>6 DEF GetCall, ReaderInv, Reading
  <2>2. \A b \in Buf : ~Within(r, b)
    BY <2>1 DEF Within, Buf, NotRead
  <2>3. /\ seen'[r] = {last}
        /\ \A s \in Readers : s # r => get'[s] = get[s] /\ seen'[s] = seen[s]
        /\ UNCHANGED <<buffers, ptr, len, out, got, last, alone>>
    BY <1>1, <1>6 DEF GetCall, TypeOK
  <2>4. QED
    BY <1>1, <2>2, <2>3 DEF SeenInv, Within, Stores, Agrees, Reading
<1>7. ASSUME NEW r \in Readers, NEW x \in Reads, GetPointer(r, x)
      PROVE  SeenInv'
  <2>1. /\ ptr[r][x] = NotRead /\ ptr'[r][x] = read_buf /\ Reading(r)
        /\ \A y \in Reads : y # x => ptr'[r][y] = ptr[r][y]
        /\ \A s \in Readers : s # r => ptr'[s] = ptr[s]
        /\ UNCHANGED <<buffers, get, len, out, got, last, seen, alone>>
    BY <1>1, <1>7 DEF GetPointer, TypeOK
  <2>2. read_buf \in Buf /\ read_buf # NotRead
    BY <1>1 DEF TypeOK, Buf, NotRead
  <2>3. ASSUME NEW b \in Buf, alone[r], Within(r, b)'
        PROVE  \E v \in seen[r] : Stores(b, v) /\ Agrees(r, v)
    <3>1. b = read_buf
      BY <2>1, <2>2, <2>3 DEF Within
    <3>2. CASE Within(r, b)
      BY <1>1, <2>3, <3>2 DEF SeenInv
    <3>3. CASE ~Within(r, b)
      <4>1. \A y \in Reads : ptr[r][y] = NotRead
        BY <2>1, <2>3, <3>1, <3>3 DEF Within
      <4>2. /\ \A y \in Lengths : len[r][y] = NotRead
            /\ got[r] = 0
        BY <1>1, <4>1 DEF ReaderInv, Lengths, Reads, TypeOK, NotRead,
                          VariableAssumption
      <4>3. Agrees(r, last)
        BY <4>2 DEF Agrees
      <4>4. last \in seen[r] /\ Stores(b, last)
        BY <1>1, <2>1, <3>1 DEF SeenInv, StoreInv, FrontWhole
      <4>5. QED
        BY <4>3, <4>4
    <3>4. QED
      BY <3>2, <3>3
  <2>4. QED
    BY <1>1, <2>1, <2>3 DEF SeenInv, Within, Stores, Agrees, Reading
<1>8. ASSUME NEW r \in Readers, NEW x \in Lengths, GetLength(r, x)
      PROVE  SeenInv'
  <2>1. /\ ptr[r][x] # NotRead /\ len'[r][x] = length[ptr[r][x]]
        /\ \A y \in Lengths : y # x => len'[r][y] = len[r][y]
        /\ \A s \in Readers : s # r => len'[s] = len[s]
        /\ UNCHANGED <<buffers, get, ptr, out, got, last, seen, alone>>
    BY <1>1, <1>8 DEF GetLength, TypeOK
  <2>2. ASSUME NEW b \in Buf, Within(r, b), NEW v, Stores(b, v), Agrees(r, v)
        PROVE  Agrees(r, v)'
    <3>1. ptr[r][x] = b
      BY <2>1, <2>2 DEF Within, Reads, Lengths
    <3>2. len'[r][x] = v.length
      BY <2>1, <2>2, <3>1 DEF Stores
    <3>3. QED
      BY <2>1, <2>2, <3>2 DEF Agrees
  <2>3. QED
    BY <1>1, <2>1, <2>2 DEF SeenInv, Within, Stores, Agrees, Reading
<1>9. ASSUME NEW r \in Readers, GetCopy(r)
      PROVE  SeenInv'
  <2> DEFINE k == got[r] + 1
  <2>1. /\ ptr[r]["data"] # NotRead
        /\ got[r] < len[r]["length"] /\ got'[r] = k
        /\ \A s \in Readers : s # r => got'[s] = got[s] /\ out'[s] = out[s]
        /\ UNCHANGED <<buffers, get, ptr, len, last, seen, alone>>
    BY <1>1, <1>9 DEF GetCopy, TypeOK
  <2>2. /\ got[r] \in 0 .. Limit /\ got[r] < Size
        /\ len[r]["length"] \in Cell \cup {NotRead}
    BY <1>1, <1>9 DEF GetCopy, TypeOK, Lengths
  <2>3. got[r] \in Nat /\ k <= Size /\ Size \in Nat
    BY <2>1, <2>2 DEF NotRead, VariableAssumption
  <2>4. /\ out'[r][k] = data[ptr[r]["data"]][k]
        /\ \A m \in Place : m # k => out'[r][m] = out[r][m]
    BY <1>1, <1>9, <2>3 DEF GetCopy, TypeOK, Place, VariableAssumption
  <2>5. \A m \in 1 .. k : m = k \/ (m \in 1 .. got[r] /\ m \in Place /\ m # k)
    BY <2>3 DEF Place
  <2>6. ASSUME NEW b \in Buf, Within(r, b), NEW v, Stores(b, v), Agrees(r, v)
        PROVE  Agrees(r, v)'
    <3>1. ptr[r]["data"] = b
      BY <2>1, <2>6 DEF Within, Reads
    <3>2. len[r]["length"] = v.length
      BY <2>1, <2>2, <2>6 DEF Agrees, Lengths, NotRead
    <3>3. k \in 1 .. v.length
      BY <2>1, <2>2, <2>3, <3>2 DEF Cell, NotRead
    <3>4. out'[r][k] = v.data[k]
      BY <2>4, <2>6, <3>1, <3>3 DEF Stores
    <3>5. \A m \in 1 .. k : out'[r][m] = v.data[m]
      BY <2>4, <2>5, <2>6, <3>4 DEF Agrees
    <3>6. QED
      BY <2>1, <2>6, <3>5 DEF Agrees
  <2>7. QED
    BY <1>1, <2>1, <2>6 DEF SeenInv, Within, Stores, Agrees, Reading
<1>10. ASSUME NEW r \in Readers, GetReturn(r)
      PROVE  SeenInv'
  <2>1. /\ ~Reading(r)' /\ ptr'[r] = [x \in Reads |-> NotRead]
        /\ \A s \in Readers : s # r =>
             /\ get'[s] = get[s] /\ ptr'[s] = ptr[s] /\ len'[s] = len[s]
             /\ out'[s] = out[s] /\ got'[s] = got[s] /\ seen'[s] = seen[s]
             /\ alone'[s] = alone[s]
        /\ UNCHANGED <<buffers, last>>
    BY <1>1, <1>10 DEF GetReturn, TypeOK, Reading
  <2>2. \A b \in Buf : ~Within(r, b)'
    BY <2>1 DEF Within, Buf, NotRead
  <2>3. QED
    BY <1>1, <2>1, <2>2, SMTT(30) DEF SeenInv, Within, Stores, Agrees,
       Reading
<1>11. CASE UNCHANGED vars
  BY <1>2, <1>11 DEF vars
<1>12. QED
  BY NoOverrun, <1>1, <1>2, <1>3, <1>4, <1>5, <1>6, <1>7, <1>8, <1>9, <1>10,
     <1>11 DEF Next, Set, Get

(* The grace period does what it is there for: a get that stays with one   *)
(* buffer returns one content, whole, however often is published in its    *)
(* call, if no writer begins before another's grace period has ended.      *)
THEOREM OneBufferGetExact == Spec => []OneBufferGet
<1>1. Init => OneInv
  <2> SUFFICES ASSUME Init PROVE OneInv
    OBVIOUS
  <2>1. IInv
    BY InitIInv, VariableAssumption
  <2>2. GraceInv /\ SeenInv
    BY DEF Init, GraceInv, SeenInv, Within, Reading, Buf, NotRead
  <2>3. QED
    BY <2>1, <2>2 DEF OneInv
<1>2. OneInv /\ [Next]_vars => OneInv'
  BY NextIInv, FitStep, GraceStep, SeenStep, VariableAssumption DEF OneInv, IInv
<1>3. OneInv => OneBufferGet
  <2> SUFFICES ASSUME OneInv, fits, NEW r \in Readers, GetDone(r), alone[r],
                      \A x \in Reads : ptr[r][x] = ptr[r]["data"]
               PROVE  \E v \in seen[r] : Gets(r, v)
    BY DEF OneBufferGet
  <2>1. /\ CopyDone(r)
        /\ \A x \in Reads : ptr[r][x] # NotRead
        /\ \A x \in Lengths : len[r][x] # NotRead
    BY DoneCopied DEF OneInv, IInv
  <2>2. ptr[r]["data"] \in Buf /\ Within(r, ptr[r]["data"])
    BY <2>1 DEF Within, Reads, OneInv, IInv, TypeOK
  <2>3. PICK v \in seen[r] : Agrees(r, v)
    BY <2>2 DEF OneInv, SeenInv
  <2>4. len[r]["out_length"] = v.length /\ got[r] = v.length
    BY <2>1, <2>3 DEF Agrees, CopyDone, Lengths
  <2>5. Gets(r, v)
    BY <2>3, <2>4 DEF Agrees, Gets, OneInv, IInv, TypeOK
  <2>6. QED
    BY <2>5
<1>4. QED
  BY <1>1, <1>2, <1>3, PTL DEF Spec
=============================================================================
