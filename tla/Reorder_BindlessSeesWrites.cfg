SPECIFICATION Spec
CONSTANTS
  b1 = b1
  b2 = b2
  t1 = t1
  m1 = m1
  a1 = a1
  h1 = h1
  Buffers <- MCBuffers
  Textures <- MCTextures
  Meshes <- MCMeshes
  Accels <- MCAccels
  BindlessArrays <- MCBindlessArrays
  Resident <- MCResident
  Instances <- MCInstances
  Command <- MCCommand
  MaxBatch = 4
  Extent = 4
INVARIANT
  BindlessSeesWrites
