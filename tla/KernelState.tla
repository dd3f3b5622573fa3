---------------------------- MODULE KernelState -----------------------------
(***************************************************************************)
(* The flag of the kernel (src/vmx/kernelLib.c): TRUE while somebody       *)
(* works on the data of the kernel.  It is global, and the modules that    *)
(* follow every access to it share it.                                     *)
(***************************************************************************)
VARIABLE kernelState
=============================================================================
