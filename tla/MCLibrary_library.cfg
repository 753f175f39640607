\* The registry with four additions, and every conversion of every input.
SPECIFICATION LibrarySpec
CONSTANTS
  Missing = Missing
  Empty = Empty
  Blank = Blank
  NoName <- MCNoName
  Unconverted <- MCUnconverted
  Convertible <- MCConvertible
  Lower <- MCLower
  IdMod = 8
  MaxAdds = 4
  Docs <- MCDocs
  Libs <- MCLibs
  Dirs <- MCDirs
  Matches <- MCMatches
  ManifestDir = "empty"
  PluginDir = "plugins"
  Octets <- MCOctets
  Characters <- MCCharacters
  Arguments <- MCArguments
  Plugins <- MCPlugins
INVARIANTS
  TypeOK
  DriversOwned
  DottedNamesResolve
  LoadsBalanced
  EncodeKeepsBits
  DecodeInvertsEncode
  ArgumentsRoundTrip
  AcceptedIsSound
