--------------------------------- MODULE Vesa --------------------------------
(***************************************************************************)
(* drivers/vesa.c: the video mode, the mapping of its framebuffer, the     *)
(* console's memory, the buffer of double buffering and the thread that    *)
(* copies it to the screen; drivers/graphic.c: the driver that prints.     *)
(* One thread changes the mode, the copying thread runs in between.  Every *)
(* allocation, thread creation and call of the BIOS may fail.              *)
(***************************************************************************)
EXTENDS Integers

CONSTANT Mode   \* the modes the BIOS offers, each with its framebuffer

VARIABLES
    video,      \* the driver's variables, what the screen shows and what is mapped
    swap,       \* where the copying thread is: "none", "test", "copy", "sleep", "ended"
    caller      \* the call in progress, where it is, and whether one has failed
                \* after it had changed the screen
vesa_vars == <<video, swap, caller>>

VesaInit ==
    /\ video = [current_mode |-> "none", shown |-> "text", mapped |-> "none",
                driver |-> "VGA", last_columns |-> "none",
                double_buffering |-> FALSE, vesa_buffer |-> "none", size |-> "none"]
    /\ swap = "none"
    /\ caller = [op |-> "none", at |-> "idle", buffered |-> FALSE, broken |-> FALSE]

-----------------------------------------------------------------------------

IsAt(step) == caller.at = step
GoTo(step) == caller' = [caller EXCEPT !.at = step]
Done == caller' = [caller EXCEPT !.op = "none", !.at = "idle"]
Broken == caller' = [caller EXCEPT !.op = "none", !.at = "idle", !.broken = TRUE]

\* The calls: set_vesa_mode (also from text_vga_to_vesa), the two switches of
\* double buffering.  Those need a mode: OS_ERR_VESA_NOT_INIT.  Panic's
\* vesa_switch_vga_text is the last call of all.
CallVesa(op) ==
    /\ IsAt("idle") /\ caller.op = "none"
    /\ op \in {"enable", "disable", "text"} => video.current_mode # "none"
    /\ caller' = [caller EXCEPT !.op = op, !.buffered = video.double_buffering,
                                !.at = IF op = "enable" THEN "enable" ELSE "disable"]
    /\ UNCHANGED <<video, swap>>

\* A slip: nobody waits for the copying thread.
StopBufferingNoWait ==
    /\ IsAt("disable")
    /\ video' = [video EXCEPT !.double_buffering = FALSE, !.vesa_buffer = "none"]
    /\ GoTo("disabled") /\ UNCHANGED swap

\* vesa_disable_double_buffering: the flag, the buffer, then wait_thread.
StopBuffering ==
    /\ IsAt("disable")
    /\ IF video.double_buffering
       THEN /\ video' = [video EXCEPT !.double_buffering = FALSE, !.vesa_buffer = "none"]
            /\ GoTo("wait")
       ELSE GoTo("disabled") /\ UNCHANGED video
    /\ UNCHANGED swap

JoinSwap == IsAt("wait") /\ swap = "ended" /\ swap' = "none" /\ GoTo("disabled") /\ UNCHANGED video

AfterDisable ==
    /\ IsAt("disabled")
    /\ CASE caller.op = "disable" -> Done
         [] caller.op = "text" -> GoTo("unmap")
         [] OTHER -> GoTo("bios")
    /\ UNCHANGED <<video, swap>>

\* set_vesa_mode: an unknown mode, or one the BIOS does not set, ends it ...
RefuseMode == IsAt("bios") /\ Done /\ UNCHANGED <<video, swap>>

\* ... or the screen shows the mode; kernel_munmap of the old framebuffer,
\* which fails for good once a mode has been left without its mapping.
ShowMode(mode) ==
    /\ IsAt("bios")
    /\ IF video.current_mode # "none" /\ video.mapped # video.current_mode
       THEN video' = [video EXCEPT !.shown = mode] /\ Broken
       ELSE /\ video' = [video EXCEPT !.shown = mode, !.mapped = "none", !.current_mode = mode]
            /\ GoTo("columns")
    /\ UNCHANGED swap

\* The memory of line ends: kfree, kmalloc.
NewColumns ==
    /\ IsAt("columns")
    /\ \/ video' = [video EXCEPT !.last_columns = video.current_mode] /\ GoTo("map")
       \/ video' = [video EXCEPT !.last_columns = "none"] /\ Broken
    /\ UNCHANGED swap

\* kernel_mmap, set_selected_driver; double buffering again if it was on.
MapFramebuffer ==
    /\ IsAt("map")
    /\ video' = [video EXCEPT !.mapped = video.current_mode, !.driver = "VESA"]
    /\ IF caller.buffered THEN GoTo("enable") ELSE Done
    /\ UNCHANGED swap

\* vesa_enable_double_buffering: the old buffer is freed, the new one allocated
\* and filled from the framebuffer (a page fault, if that is not mapped) ...
NewBuffer ==
    /\ IsAt("enable")
    /\ \/ video.double_buffering /\ Done /\ UNCHANGED video
       \/ /\ ~video.double_buffering
          /\ video' = [video EXCEPT !.vesa_buffer = "none", !.size = video.current_mode]
          /\ Done
       \/ /\ ~video.double_buffering /\ video.mapped = video.current_mode
          /\ video' = [video EXCEPT !.vesa_buffer = video.current_mode,
                                    !.size = video.current_mode, !.double_buffering = TRUE]
          /\ GoTo("create")
       \/ /\ ~video.double_buffering /\ video.mapped # video.current_mode
          /\ GoTo("panicked") /\ UNCHANGED video
    /\ UNCHANGED swap

\* ... and create_thread, which may fail.
CreateSwap ==
    /\ IsAt("create")
    /\ \/ swap' = "test" /\ UNCHANGED video
       \/ video' = [video EXCEPT !.double_buffering = FALSE] /\ UNCHANGED swap
    /\ Done

\* vesa_switch_vga_text from panic: kernel_munmap, the BIOS, the VGA driver.
\* current_mode and last_columns keep what they had; nothing follows.
SwitchToText ==
    /\ IsAt("unmap")
    /\ IF video.mapped = video.current_mode
       THEN video' = [video EXCEPT !.mapped = "none", !.shown = "text", !.driver = "VGA",
                                   !.last_columns = "freed"]
       ELSE UNCHANGED video     \* OS_ERR_MEMORY_NOT_MAPPED
    /\ GoTo("panicked")
    /\ UNCHANGED swap

-----------------------------------------------------------------------------
(* swap_buffer                                                             *)

TestFlag ==
    /\ swap = "test"
    /\ swap' = IF video.double_buffering THEN "copy" ELSE "ended"
    /\ UNCHANGED <<video, caller>>

CopyBuffer == swap = "copy" /\ swap' = "sleep" /\ UNCHANGED <<video, caller>>
WakeUp == swap = "sleep" /\ swap' = "test" /\ UNCHANGED <<video, caller>>

VesaNext ==
    \/ \E op \in {"set", "enable", "disable", "text"} : CallVesa(op)
    \/ StopBuffering \/ JoinSwap \/ AfterDisable \/ RefuseMode
    \/ \E mode \in Mode : ShowMode(mode)
    \/ NewColumns \/ MapFramebuffer \/ NewBuffer \/ CreateSwap \/ SwitchToText
    \/ TestFlag \/ CopyBuffer \/ WakeUp

VesaSpec == VesaInit /\ [][VesaNext]_vesa_vars
-----------------------------------------------------------------------------

VesaTypeOK ==
    /\ {video.current_mode, video.mapped, video.size, video.vesa_buffer} \subseteq Mode \cup {"none"}
    /\ video.shown \in Mode \cup {"text"} /\ video.driver \in {"VGA", "VESA"}
    /\ video.last_columns \in Mode \cup {"none", "freed"}
    /\ swap \in {"none", "test", "copy", "sleep", "ended"}

\* Between two calls, unless one failed after the BIOS had changed the screen,
\* the driver that prints is the one of what is shown, with its framebuffer
\* mapped and its line ends allocated for that mode.
DriverMatchesScreen ==
    caller.op = "none" /\ ~caller.broken =>
        IF video.driver = "VGA" THEN video.shown = "text"
        ELSE \A mode \in {video.current_mode, video.mapped, video.last_columns} : mode = video.shown

\* Whenever the copying thread copies, also in the middle of a change of mode,
\* the framebuffer it writes is mapped and of the size it writes.
CopyIsMapped ==
    swap = "copy" => video.current_mode = video.mapped /\ video.current_mode = video.size

\* Both: the screen, the driver and the copying thread agree.
VideoSound == DriverMatchesScreen /\ CopyIsMapped
=============================================================================
