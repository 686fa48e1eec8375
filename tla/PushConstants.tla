----------------------------- MODULE PushConstants -----------------------------
(* The push constants all kernels of a module share: which values the host is
   asked for.

   mod.functions are the names of the OpenCL builtins the module uses. *)
EXTENDS Integers

IsEnabled(opts, pc) ==
  CASE pc = "GlobalOffset" -> (opts.globalOffset /\ opts.nonUniform) \/ opts.globalOffsetPC
    [] pc \in {"EnqueuedLocalSize", "GlobalSize", "RegionOffset", "NumWorkgroups", "RegionGroupOffset"} -> opts.nonUniform
    [] pc = "ModuleConstantsPointer" -> opts.constantsInBuffer /\ opts.physical
    [] pc = "PrintfBufferPointer"    -> opts.printf /\ opts.physical

UsersOf(pc) ==
  CASE pc = "GlobalOffset"      -> {"get_global_offset", "get_global_id", "get_global_linear_id"}
    [] pc = "EnqueuedLocalSize" -> {"get_enqueued_local_size", "get_enqueued_num_sub_groups"}
    [] pc = "GlobalSize"        -> {"get_global_size", "get_global_linear_id"}
    [] pc = "RegionOffset"      -> {"get_global_id", "get_global_linear_id"}
    [] pc = "NumWorkgroups"     -> {"get_num_groups"}
    [] pc = "RegionGroupOffset" -> {"get_group_id"}
    [] pc = "ModuleConstantsPointer" -> {"__constant"}
    [] pc = "PrintfBufferPointer"    -> {"printf"}

ShouldDeclare(mod, opts, pc) == IsEnabled(opts, pc) /\ UsersOf(pc) \cap mod.functions # {}
================================================================================
