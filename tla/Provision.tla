----------------------------- MODULE Provision ------------------------------
(***************************************************************************)
(* The scripts that make virtual machines and start them: busybox.sh,      *)
(* yocto.sh, ubuntu.sh, windows.sh and alpine.sh of docs/qemu/sh, and      *)
(* docs/uefi/uefi/uefi.sh. A file that is there is not made again; set -e  *)
(* ends a script at a command that fails. One script runs at a time, as    *)
(* often as its user likes; the commands are external: they make what they *)
(* should, or are cut short.                                               *)
(***************************************************************************)
EXTENDS Naturals, SequencesExt

VARIABLES script,    \* the script in use
          step, k,   \* what it does, idle between runs, and at which of its tests
          files,     \* absent, half made or whole
          accident,  \* a run was cut short since the user had none of the files
          torn       \* what runs left half made, and the user did not remove

provisionVars == <<script, step, k, files, accident, torn>>

(* What a script makes if it is not there, in order, and what else it      *)
(* reads or writes.                                                        *)
Tests == [busybox |-> <<"busybox_img", "build_dir", ".config", "initramfs_dir">>,
          yocto |-> <<"yocto_img">>, ubuntu |-> <<"ubuntu_iso", "ubuntu_img">>,
          windows |-> <<"windows_img">>,
          alpine |-> <<"img1", "img2", "img3", "disk_img">>,
          uefi |-> <<"DISK_IMG">>]
Others == [busybox |-> {"_install", "initrd"}, yocto |-> {}, ubuntu |-> {}, windows |-> {},
           alpine |-> {"iso"}, uefi |-> {"PART_IMG", "OVMF_LOG", "GDB_SCRIPT"}]
Tested == Tests[script][k]

Init == /\ script \in DOMAIN Tests /\ step = "idle" /\ k = 1
        /\ \E iso \in {"absent", "whole"} :
             files = [f \in ToSet(Tests[script]) \cup Others[script] |-> IF f = "iso" THEN iso ELSE "absent"]
        /\ accident = FALSE /\ torn = {}

Set(f, is) == files' = [files EXCEPT ![f] = is]
Then(next) == step' = next /\ UNCHANGED <<script, k, accident, torn>>
NextTest == step' = "test" /\ k' = k + 1 /\ UNCHANGED <<script, accident, torn>>
End == /\ step' = "idle" /\ k' = 1 /\ UNCHANGED script
       /\ torn' = torn \cup {f \in ToSet(Tests[script]) : files'[f] = "half"}
Exit == End /\ UNCHANGED accident

Run == /\ step = "idle" /\ UNCHANGED files
       /\ Then(IF script \in {"alpine", "uefi"} THEN "options" ELSE "test")

(* A command fails, or the script is killed; what it was making stays.     *)
CutShort == step \notin {"idle", "boot"} /\ accident' = TRUE /\ UNCHANGED files /\ End

(* -h, what is no option, and those that talk to a machine that runs; and  *)
(* alpine.sh when it has no iso to install from.                           *)
Options == /\ step = "options" /\ UNCHANGED files
           /\ \/ Exit
              \/ (script = "alpine" => files["iso"] # "absent" \/ files["disk_img"] # "absent") /\ Then("test")

-----------------------------------------------------------------------------
(* Mutant: what is half made is made again. *)
IsThere_Whole(f) == files[f] = "whole"

(* [ -f file ] and [ -d directory ]. *)
IsThere(f) == files[f] # "absent"

Begin(f) == IF f = ".config" THEN UNCHANGED files /\ Then("menuconfig")
            ELSE IF f = "initramfs_dir" THEN UNCHANGED files /\ Then("make")
            ELSE Set(f, "half") /\ Then("produce")

Test == /\ step = "test" /\ k <= Len(Tests[script])
        /\ IF IsThere(Tested) THEN NextTest /\ UNCHANGED files
           ELSE IF script = "alpine" \/ Tested = ".config" THEN Then("sure") /\ UNCHANGED files
           ELSE Begin(Tested)

(* Mutant: "n" leaves out the file and goes on. *)
Sure_Skips == step = "sure" /\ (Begin(Tested) \/ (NextTest /\ UNCHANGED files))

(* "n" ends the script; what is neither yes nor no counts as yes. *)
Sure == step = "sure" /\ (Begin(Tested) \/ (UNCHANGED files /\ Exit))

(* wget, tar, dd with mkfs or parted, and the installer get to their end.  *)
(* A torn archive is not unpacked. The script exits after an installation, *)
(* alpine.sh after every image.                                            *)
Produce == /\ step = "produce" /\ Set(Tested, "whole")
           /\ Tested = "build_dir" => files["busybox_img"] = "whole"
           /\ IF script = "alpine" \/ Tested \in {"ubuntu_img", "windows_img"} THEN Exit ELSE NextTest

-----------------------------------------------------------------------------
(* busybox.sh: the user may leave menuconfig without saving, and may say   *)
(* no to "continue to make".                                               *)
Menuconfig == /\ step = "menuconfig" /\ \E is \in {"absent", "whole"} : Set(".config", is)
              /\ NextTest \/ Exit

(* make && make install: set -e looks at the last of the two only. A make  *)
(* that fails, as it does without a configuration, leaves out the second,  *)
(* and the script goes on.                                                 *)
Compile == /\ step = "make"
           /\ \/ /\ files["build_dir"] = "whole" /\ files[".config"] = "whole" /\ Then("install")
                 /\ Set("_install", IF files["_install"] = "whole" THEN "whole" ELSE "half")
              \/ /\ UNCHANGED <<files, script, k, torn>>
                 /\ step' = "mkdir" /\ accident' = TRUE

Install == step = "install" /\ Set("_install", "whole") /\ Then("mkdir")

(* cp packs what was ever installed, and fails if nothing was. *)
Copy == \/ step = "mkdir" /\ Set("initramfs_dir", "half") /\ Then("cp")
        \/ /\ step = "cp" /\ IsThere("_install") /\ Then("cpio")
           /\ files' = [files EXCEPT !["initramfs_dir"] = files["_install"], !["initrd"] = "half"]

(* Mutant: the archive is written before the directory is filled. *)
Archive_First == step = "cpio" /\ UNCHANGED files /\ NextTest

(* The status of the pipe is gzip's, so cpio may fail. *)
Archive == /\ step = "cpio"
           /\ \/ Set("initrd", files["initramfs_dir"]) /\ NextTest
              \/ UNCHANGED <<files, script, torn>> /\ step' = "test" /\ k' = k + 1 /\ accident' = TRUE

-----------------------------------------------------------------------------
(* Mutant: a partition that is there is used. *)
Partition_Tested == /\ script = "uefi"
                    /\ \/ /\ step = "test" /\ k > 1
                          /\ IF IsThere("PART_IMG") THEN Then("boot") /\ UNCHANGED files
                             ELSE Then("partition") /\ Set("PART_IMG", "half")
                       \/ step = "partition" /\ Set("PART_IMG", "whole") /\ Then("boot")

(* uefi.sh makes the partition on every run, and copies it into the disk.  *)
Partition == /\ script = "uefi"
             /\ \/ step = "test" /\ k > 1 /\ Then("partition") /\ Set("PART_IMG", "half")
                \/ step = "partition" /\ Set("PART_IMG", "whole") /\ Then("boot")

(* uefi.sh -g: from the log of an earlier machine, on every call anew. *)
GenSymbolOffsets == \/ /\ step = "options" /\ script = "uefi" /\ files["OVMF_LOG"] # "absent"
                       /\ Set("GDB_SCRIPT", "half") /\ Then("symbols")
                    \/ step = "symbols" /\ Set("GDB_SCRIPT", "whole") /\ Exit

(* The options of yocto.sh, and -k of alpine.sh, may mean another command. *)
Ready == /\ step = "test" /\ k > Len(Tests[script]) /\ script # "uefi" /\ UNCHANGED files
         /\ Then("boot") \/ (script \in {"yocto", "alpine"} /\ Exit)

(* The machine runs until it stops; that of uefi.sh writes the log. *)
Boot == /\ step = "boot"
        /\ \/ UNCHANGED files
           \/ script = "uefi" /\ Set("OVMF_LOG", "whole")
        /\ Exit

(* The user removes a file, or a directory with what is in it. *)
Clear(f) ==
  /\ step = "idle" /\ IsThere(f)
  /\ LET gone == IF f = "build_dir" THEN {f, ".config", "initramfs_dir"} \cup Others[script] ELSE {f}
     IN /\ files' = [g \in DOMAIN files |-> IF g \in gone THEN "absent" ELSE files[g]]
        /\ torn' = torn \ gone
  /\ accident' = (accident /\ \E g \in ToSet(Tests[script]) : files'[g] # "absent")
  /\ UNCHANGED <<script, step, k>>

Next == \/ Run \/ CutShort \/ Options \/ Test \/ Sure \/ Produce \/ Menuconfig \/ Compile \/ Install
        \/ Copy \/ Archive \/ Partition \/ GenSymbolOffsets \/ Ready \/ Boot
        \/ \E f \in ToSet(Tests[script]) : Clear(f)

-----------------------------------------------------------------------------
Needs == [busybox |-> {"initrd"}, yocto |-> {"yocto_img"}, ubuntu |-> {"ubuntu_img"},
          windows |-> {"windows_img"}, alpine |-> {"img1", "img2", "img3", "disk_img"},
          uefi |-> {"DISK_IMG", "PART_IMG"}]

(* While no run was cut short, whatever the user answered and in however   *)
(* many runs the files were made, a machine starts from whole ones.        *)
StartsFromWhole == step = "boot" /\ ~accident => \A f \in Needs[script] : files[f] = "whole"

(* The other side: what a broken run left half made is taken for finished, *)
(* in every later run, until the user removes it.                          *)
HalfMadeStays == \A f \in torn : files[f] = "half"

(* The partition of uefi.sh is whole after any accident, being made anew.  *)
PartitionFresh == script = "uefi" /\ step = "boot" => files["PART_IMG"] = "whole"
=============================================================================
