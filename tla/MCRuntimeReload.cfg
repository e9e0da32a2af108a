SPECIFICATION Spec
CONSTANTS
  BootProfile = "research"
  BootConfig <- DefaultRuntimeConfig
  Contents <- MCContents
PROPERTIES
  ReloadIsAllOrNothing
