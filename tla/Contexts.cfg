SPECIFICATION Spec
CONSTANTS
  idle = idle
  init = init
  a = a
  b = b
  c = c
  d = d
  kernel = kernel
  Procs = {idle, init, a, b, c, d}
  idle_pid = idle
  init_pid = init
  KERNEL = kernel
INVARIANT
  ContextsKept
