---------------------------- MODULE Framebuffer ----------------------------
(***************************************************************************)
(* ssd1306fb.c: graphics memory and an OLED panel behind an i2c bus.  A    *)
(* write (or the console's imageblit) changes the memory and then sends    *)
(* all of it; stores through mmap are sent by the deferred-io work.  A     *)
(* display copies the memory first and sends the copy, without a lock and  *)
(* without looking at the result.  The panel puts each byte where its      *)
(* address pointer stands, and nothing but ssd1306fb_init sets the window  *)
(* the pointer runs through: a transfer that is cut short leaves it there. *)
(***************************************************************************)
EXTENDS Integers

CONSTANTS
  Size,      \* info->fix.smem_len
  Pixels,    \* what a byte of memory may hold, 0 among them
  Writers    \* callers of write and imageblit

Work  == "deferred io"   \* the worker of the deferred io
Tasks == Writers \cup {Work}
Byte  == 0 .. Size - 1

VARIABLES
  vmem,      \* the graphics memory
  panel,     \* what the panel shows
  cursor,    \* its address pointer
  task,      \* each task's next step: "idle", "display" or "send"
  copy,      \* its copy of the memory, taken by ssd1306fb_write_data
  mapped,    \* the page can be written through mmap: the work is scheduled
  spoilt     \* history: why the panel may be out of date

vars == <<vmem, panel, cursor, task, copy, mapped, spoilt>>

Image == [Byte -> Pixels]
Blank == [b \in Byte |-> 0]

TypeOK ==
  /\ vmem   \in Image
  /\ panel  \in Image
  /\ cursor \in Byte
  /\ task   \in [Tasks -> {"idle", "display", "send"}]
  /\ copy   \in [Tasks -> Image]
  /\ mapped \in BOOLEAN
  /\ spoilt \in BOOLEAN

(* The probe gets zeroed pages and ssd1306fb_init sends them, without      *)
(* looking at the result: the panel has taken n of them, and shows what it *)
(* had when the power came on in the rest.                                 *)
Init ==
  /\ vmem   = Blank
  /\ \E n \in 0 .. Size :
       /\ panel  \in {image \in Image : \A b \in 0 .. n - 1 : image[b] = 0}
       /\ cursor = (IF n < Size THEN n ELSE 0)
       /\ spoilt = (n < Size)
  /\ task   = [t \in Tasks |-> "idle"]
  /\ copy   = [t \in Tasks |-> Blank]
  /\ mapped = FALSE

(* Bytes p to p + count - 1 of the memory take the pixel x. *)
Painted(p, count, x) == [b \in Byte |-> IF p <= b /\ b < p + count THEN x ELSE vmem[b]]

(* ssd1306fb_write: beyond the end it fails, across the end it is cut      *)
(* short, and when nothing is left it fails.                               *)
Clamped(p, count) == IF count + p > Size THEN Size - p ELSE count

(* Mutation: the write leaves the display to the deferred io. *)
WriteUnshown(w, p, count, x) ==
  /\ task[w] = "idle"
  /\ p <= Size /\ Clamped(p, count) > 0
  /\ vmem' = Painted(p, Clamped(p, count), x)
  /\ UNCHANGED <<panel, cursor, task, copy, mapped, spoilt>>

Write(w, p, count, x) ==
  /\ task[w] = "idle"
  /\ p <= Size /\ Clamped(p, count) > 0
  /\ vmem' = Painted(p, Clamped(p, count), x)
  /\ task' = [task EXCEPT ![w] = "display"]
  /\ UNCHANGED <<panel, cursor, copy, mapped, spoilt>>

(* copy_from_user faults after some bytes and pads the rest with zeroes:   *)
(* the memory has changed, and nothing is displayed.                       *)
WriteFaults(w, p, count, x) ==
  /\ task[w] = "idle"
  /\ p <= Size
  /\ \E done \in 0 .. Clamped(p, count) - 1 :
       vmem' = [b \in Byte |-> IF p + done <= b /\ b < p + Clamped(p, count)
                               THEN 0 ELSE Painted(p, done, x)[b]]
  /\ spoilt' = TRUE
  /\ UNCHANGED <<panel, cursor, task, copy, mapped>>

(* ssd1306fb_imageblit: the console draws anywhere. *)
Imageblit(w, b, x) ==
  /\ task[w] = "idle"
  /\ vmem' = [vmem EXCEPT ![b] = x]
  /\ task' = [task EXCEPT ![w] = "display"]
  /\ UNCHANGED <<panel, cursor, copy, mapped, spoilt>>

(* ssd1306fb_write_data copies the memory behind the control byte.  From   *)
(* here the panel is out of date only if another copy is still on its way. *)
Copy(t) ==
  /\ task[t] = "display"
  /\ copy' = [copy EXCEPT ![t] = vmem]
  /\ task' = [task EXCEPT ![t] = "send"]
  /\ spoilt' = (\E other \in Tasks : task[other] = "send")
  /\ UNCHANGED <<vmem, panel, cursor, mapped>>

(* Where byte b of a transfer goes, and which byte goes to a cell: the     *)
(* address pointer starts again at the end of the window.                  *)
Cell(b) == IF cursor + b < Size THEN cursor + b ELSE cursor + b - Size
Place(cell) == IF cell < cursor THEN cell - cursor + Size ELSE cell - cursor

(* The panel when it has taken n bytes of the copy of t. *)
Taken(t, n) ==
  [cell \in Byte |-> IF Place(cell) < n THEN copy[t][Place(cell)] ELSE panel[cell]]

(* i2c_master_send, one message at a time; it may be cut short anywhere,   *)
(* and nobody looks.                                                       *)
Send(t) ==
  /\ task[t] = "send"
  /\ task' = [task EXCEPT ![t] = "idle"]
  /\ copy' = [copy EXCEPT ![t] = Blank]
  /\ \E n \in 0 .. Size :
       /\ panel' = Taken(t, n)
       /\ cursor' = Cell(n)
       /\ spoilt' = (spoilt \/ n < Size)
  /\ UNCHANGED <<vmem, mapped>>

(* A first store through mmap makes the page writable and schedules the    *)
(* work, unless the work is just running.                                  *)
MmapFault ==
  /\ ~mapped /\ task[Work] = "idle"
  /\ mapped' = TRUE
  /\ UNCHANGED <<vmem, panel, cursor, task, copy, spoilt>>

MmapStore(b, x) ==
  /\ mapped
  /\ vmem' = [vmem EXCEPT ![b] = x]
  /\ UNCHANGED <<panel, cursor, task, copy, mapped, spoilt>>

(* The work protects the page again and calls ssd1306fb_deferred_io. *)
DeferredIo ==
  /\ mapped /\ task[Work] = "idle"
  /\ mapped' = FALSE
  /\ task' = [task EXCEPT ![Work] = "display"]
  /\ UNCHANGED <<vmem, panel, cursor, copy, spoilt>>

Next ==
  \/ \E w \in Writers, p \in 0 .. Size, count \in 0 .. Size + 1, x \in Pixels :
       Write(w, p, count, x) \/ WriteFaults(w, p, count, x)
  \/ \E w \in Writers, b \in Byte, x \in Pixels : Imageblit(w, b, x)
  \/ \E t \in Tasks : Copy(t) \/ Send(t)
  \/ MmapFault \/ DeferredIo
  \/ \E b \in Byte, x \in Pixels : MmapStore(b, x)

Spec == Init /\ [][Next]_vars
-----------------------------------------------------------------------------
AtRest == ~mapped /\ \A t \in Tasks : task[t] = "idle"

(* The panel shows a picture, from where its address pointer stands. *)
Shows(image) == \A b \in Byte : panel[Cell(b)] = image[b]

(* Writers, the console and the deferred work draw and display in any      *)
(* order.  When they are done the panel shows the memory, unless the last  *)
(* copy was taken while an older one was still to be sent, or a transfer   *)
(* or a copy_from_user has failed since.  The picture begins at the top    *)
(* until a transfer is cut short, and from then on where that one ended (a *)
(* defect: no later display sets the address pointer).                     *)
PanelShowsMemory == AtRest /\ ~spoilt => Shows(vmem)
=============================================================================
