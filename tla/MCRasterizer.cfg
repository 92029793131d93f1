\* Quitting is checked elsewhere; here the process may stop.
SPECIFICATION LifeSpec
INVARIANT RasterizerOutlivesExports
CHECK_DEADLOCK FALSE
